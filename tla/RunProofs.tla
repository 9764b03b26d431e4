----------------------------- MODULE RunProofs -----------------------------
(***************************************************************************)
(* Proofs about the run of a flow: HubFlow, the runs over one task board,  *)
(* and AgentRun, the agent that a run calls for a task.                    *)
(*                                                                         *)
(* AgentRun, for every way to call the agent, any number of calls,         *)
(* iterations and commits, and for failures at every step: no commit is    *)
(* lost, the result of a call is complete, an idle timeout ends the call.  *)
(* The argument follows the commits of the iteration (MineFound): from the *)
(* sandbox to the patches, from those to the branch of the worktree or to  *)
(* the patch directory that is kept, from the branch to the host.  Nothing *)
(* is taken back without a copy: what git am --abort takes back, and what  *)
(* a removed worktree had saved, is known (PatchesKept), and a temporary   *)
(* branch is deleted when the host has it (BaseBelow, MineFound).          *)
(*                                                                         *)
(* HubFlow, for any number of tasks, runs and batches, for crashes and     *)
(* faults anywhere: the board is consistent and what it says has happened, *)
(* and a finished phase is not done again.  The argument is what the event *)
(* logs say of a task (FlowInv): an event is one of the current attempt or *)
(* the task is excused (EventsCurrent); nothing follows an implementation  *)
(* that is not logged (StartedFirst, OneImplements); what is on the way to *)
(* the merge has finished its phases (ReadyFinished); and a run that is    *)
(* alone has every unfinished task among its steps (Alone, Accounted).     *)
(***************************************************************************)
EXTENDS HubFlow, AgentRun, WellFoundedInduction, TLAPS

-----------------------------------------------------------------------------
(* AgentRun: the parts of its invariant                                    *)


\* The parts of TypeOK: the run and its process, the flags, and the commits.
CountTypes ==
    /\ calls \in 0 .. MaxCalls /\ iter \in 1 .. MaxIterations
    /\ lines \in 0 .. MaxLines /\ silence \in 0 .. IdleTimeout
    /\ made \in 0 .. MaxCommits /\ failures \in 0 .. MaxFailures

KindTypes ==
    /\ mode \in Modes
    /\ pc \in {"idle", "acquire", "setup", "prompt", "invoke", "capture", "save", "apply",
               "merge", "delete", "collect", "release", "remove", "next"}
    /\ proc \in {"running", "exited"} /\ exit \in {"zero", "nonzero", "recoverable"}
    /\ cut \in {None, "idle", "abort"}
    /\ outcome \in {None} \cup Outcomes /\ result \in {None} \cup Outcomes

RunTypes == CountTypes /\ KindTypes

FlagTypes ==
    /\ session \in BOOLEAN /\ abort \in BOOLEAN /\ output \in BOOLEAN
    /\ child \in BOOLEAN /\ timer \in BOOLEAN
    /\ tree \in BOOLEAN /\ dirty \in BOOLEAN /\ stray \in BOOLEAN /\ lost \in BOOLEAN

CommitTypes ==
    /\ mine \cup work \cup host \cup base \cup saved \cup left \cup midAm \subseteq Commits
    /\ reported \cup vouched \subseteq Commits
    /\ box \in {None} \cup SUBSET Commits /\ patches \in {None} \cup SUBSET Commits
    /\ synced \in {None} \cup SUBSET Commits
    /\ box = None => synced = None

\* The agent has ended well, and the iteration is not over.
AfterInvoke == {"capture", "save", "apply", "merge", "delete", "collect"}

\* An iteration has its worktree and sandbox.
InIteration == {"setup", "prompt", "invoke", "release"} \cup AfterInvoke

\* The worktree and the sandbox of an iteration are there until it ends; the handles
\* keep theirs for the next one.
Acquired ==
    /\ pc \in InIteration \/ (pc = "next" /\ ~Own) =>
         /\ ~Head => tree
         /\ Isolated => box # None
    /\ pc = "apply" => patches # None
    /\ pc \in {"save", "apply"} => Isolated
    /\ pc = "delete" => Temp
    /\ pc = "remove" => Own

\* The process of an agent that has ended well is gone.
ProcessGone ==
    /\ pc \in AfterInvoke => proc = "exited"
    /\ pc \in {"release", "remove", "next"} /\ outcome = "ok" => proc = "exited"
    /\ pc = "idle" /\ result = "ok" => proc = "exited"

\* An invocation that is repeated was not cut off.
NotCutOff ==
    /\ pc \in {"prompt", "invoke"} => outcome = None
    /\ outcome \in {"ok", "transient"} => cut = None

\* Commits are numbered as they are made.
Numbered ==
    /\ mine \subseteq 1 .. made /\ work \subseteq 1 .. made
    /\ host \subseteq 1 .. made /\ base \subseteq 1 .. made
    /\ box # None => box \subseteq 1 .. made
    /\ patches # None => patches \subseteq 1 .. made
    /\ synced # None => synced \subseteq 1 .. made

\* What a stopped git am has applied is in the patches that were saved, and these are in
\* a dirty worktree, that is removed by a failed interactive session only.
PatchesKept ==
    /\ midAm \subseteq saved
    /\ saved # {} => tree /\ dirty
    /\ pc = "remove" /\ failures = 0 /\ (mode.kind = "run" \/ outcome = "ok") => saved = {}

\* Where the iteration starts: below its own commits, and on the host for a temporary branch.
BaseBelow ==
    /\ mine \cap base = {}
    /\ Temp => base \subseteq host
    /\ Temp /\ pc = "setup" => work \subseteq host /\ proc = "exited"

\* Where the commits of the iteration are, phase by phase
MineFound ==
    /\ ~Isolated /\ pc \in {"prompt", "invoke", "capture", "merge"} =>
         mine \subseteq (IF Head THEN host ELSE work)
    /\ Isolated /\ pc \in {"prompt", "invoke", "capture", "save"} =>
         mine \subseteq box /\ (synced # None => mine \cap synced = {})
    /\ pc = "apply" => mine \subseteq patches \cup work
    /\ Isolated /\ pc = "merge" => mine \subseteq work \cup saved
    /\ pc = "delete" /\ failures = 0 => work \subseteq host
    /\ pc \in {"delete", "collect"} /\ Temp /\ failures = 0 => mine \subseteq host \cup saved
    /\ pc = "collect" /\ ~Temp => mine \subseteq (IF Head THEN host ELSE work) \cup saved
    /\ pc \in {"release", "remove", "next"} /\ outcome = "ok" /\ failures = 0 =>
         mine \subseteq reported \cup saved \cup left

AgentInv ==
    /\ TypeOK /\ Acquired /\ ProcessGone /\ NotCutOff /\ Numbered
    /\ PatchesKept /\ BaseBelow /\ MineFound
    /\ WorkKept /\ ResultComplete

-----------------------------------------------------------------------------
(* What the steps have in common *)

\* The ways to call exclude some combinations.
LEMMA WayFacts ==
    ASSUME TypeOK
    PROVE  (Isolated => ~Head) /\ (Temp => ~Head) /\ (Temp => Own)
BY AgentRunAssumption DEF TypeOK, Isolated, Head, Temp, Own

\* The way to call is that of the caller for good.
LEMMA SameWay ==
    ASSUME mode' = mode
    PROVE  /\ (Isolated' <=> Isolated) /\ (Head' <=> Head) /\ (Temp' <=> Temp) /\ (Own' <=> Own)
           /\ mode'.kind = mode.kind
BY DEF Isolated, Head, Temp, Own

-----------------------------------------------------------------------------
(* One lemma per kind of step *)

\* The agent's process writes, edits, ends, has children: no commit is made.
LEMMA ProcessKeeps ==
    ASSUME AgentInv, Line \/ ChildStarts \/ ChildEnds \/ Exit \/ Edit PROVE AgentInv'
<1> USE DEF Line, ChildStarts, ChildEnds, Exit, Edit, agent, repo, sync, flow, books
<1>1. (Isolated' <=> Isolated) /\ (Head' <=> Head) /\ (Temp' <=> Temp) /\ (Own' <=> Own)
      /\ mode'.kind = mode.kind
  BY SameWay
<1>2. TypeOK'
  <2>1. RunTypes'
    <3>1. CountTypes'
      BY AgentRunAssumption DEF AgentInv, TypeOK, CountTypes, Fail
    <3>2. KindTypes'
      BY DEF AgentInv, TypeOK, KindTypes, Outcomes, Fail
    <3> QED BY <3>1, <3>2 DEF RunTypes
  <2>2. CommitTypes'
    BY DEF AgentInv, TypeOK, CommitTypes
  <2>3. FlagTypes'
    <3>1. UNCHANGED <<session, abort, tree, stray, lost>>
      OBVIOUS
    <3>2. output' \in BOOLEAN /\ timer' \in BOOLEAN
      BY ZenonT(40) DEF AgentInv, TypeOK, FlagTypes
    <3>3. child' \in {child, TRUE, FALSE} /\ dirty' \in {dirty, TRUE, FALSE}
      OBVIOUS
    <3> QED BY <3>1, <3>2, <3>3 DEF AgentInv, TypeOK, FlagTypes
  <2> QED BY <2>1, <2>2, <2>3 DEF TypeOK, RunTypes, CountTypes, KindTypes, FlagTypes, CommitTypes
<1>3. Acquired' /\ ProcessGone' /\ NotCutOff'
  BY <1>1 DEF AgentInv, Acquired, InIteration, AfterInvoke, ProcessGone, NotCutOff
<1>4. Numbered' /\ PatchesKept' /\ BaseBelow'
  BY <1>1 DEF AgentInv, Numbered, PatchesKept, BaseBelow
<1>5. MineFound' /\ WorkKept' /\ ResultComplete'
  BY <1>1 DEF AgentInv, MineFound, AfterInvoke, WorkKept, Safe, ResultComplete
<1> QED BY <1>2, <1>3, <1>4, <1>5 DEF AgentInv

\* Time passes, the timer fires, or the signal comes: only an invocation is cut off.
LEMMA TimersKeep ==
    ASSUME AgentInv, Tick \/ TimerFires \/ Abort PROVE AgentInv'
<1> USE DEF Tick, TimerFires, Abort, Rearmed, agent, repo, sync, flow, books
<1>1. (Isolated' <=> Isolated) /\ (Head' <=> Head) /\ (Temp' <=> Temp) /\ (Own' <=> Own)
      /\ mode'.kind = mode.kind
  BY SameWay
<1>2. TypeOK'
  <2>1. RunTypes'
    <3>1. CountTypes'
      BY AgentRunAssumption DEF AgentInv, TypeOK, CountTypes, Fail
    <3>2. KindTypes'
      BY DEF AgentInv, TypeOK, KindTypes, Outcomes, Fail
    <3> QED BY <3>1, <3>2 DEF RunTypes
  <2>2. CommitTypes'
    BY DEF AgentInv, TypeOK, CommitTypes
  <2>3. FlagTypes'
    BY ZenonT(40) DEF AgentInv, TypeOK, FlagTypes
  <2> QED BY <2>1, <2>2, <2>3 DEF TypeOK, RunTypes, CountTypes, KindTypes, FlagTypes, CommitTypes
<1>3. Acquired' /\ ProcessGone'
  BY <1>1 DEF AgentInv, Acquired, InIteration, AfterInvoke, ProcessGone
<1>4. NotCutOff'
  BY <1>1, AgentRunAssumption DEF AgentInv, NotCutOff, Outcomes
<1>5. Numbered' /\ PatchesKept' /\ BaseBelow'
  BY <1>1 DEF AgentInv, Numbered, PatchesKept, BaseBelow
<1>6. MineFound' /\ WorkKept' /\ ResultComplete'
  BY <1>1 DEF AgentInv, MineFound, AfterInvoke, WorkKept, Safe, ResultComplete
<1> QED BY <1>2, <1>3, <1>4, <1>5, <1>6 DEF AgentInv

\* A new commit is above all others, where the agent works.
LEMMA CommitKeeps ==
    ASSUME AgentInv, Commit PROVE AgentInv'
<1> USE DEF Commit, agent, repo, sync, flow, books
<1>1. (Isolated' <=> Isolated) /\ (Head' <=> Head) /\ (Temp' <=> Temp) /\ (Own' <=> Own)
      /\ mode'.kind = mode.kind
  BY SameWay
<1>2. (Isolated => ~Head) /\ (Temp => ~Head) /\ (Temp => Own)
  BY WayFacts DEF AgentInv
<1>3. /\ \/ Isolated /\ box # None /\ box' = box \cup {made'} /\ box' # None
            /\ UNCHANGED <<host, work>>
         \/ ~Isolated /\ Head /\ host' = host \cup {made'} /\ UNCHANGED <<box, work>>
         \/ ~Isolated /\ ~Head /\ work' = work \cup {made'} /\ UNCHANGED <<box, host>>
      /\ mine' = mine \cup {made'} /\ made' = made + 1
  <2>1. box # None => box \cup {made + 1} \in SUBSET Commits
    BY AgentRunAssumption DEF AgentInv, TypeOK, Commits
  <2> QED BY <2>1, AgentRunAssumption
<1>4. 1 .. made \subseteq 1 .. made' /\ made' \in 1 .. made' /\ made' \notin 1 .. made
  BY DEF AgentInv, TypeOK
<1>5. TypeOK'
  <2>1. RunTypes'
    <3>1. CountTypes'
      BY <1>1, <1>2, AgentRunAssumption DEF AgentInv, TypeOK, CountTypes, Fail
    <3>2. KindTypes'
      BY <1>1, <1>2 DEF AgentInv, TypeOK, KindTypes, Outcomes, Fail
    <3> QED BY <3>1, <3>2 DEF RunTypes
  <2>2. CommitTypes'
    BY <1>1, <1>2, AgentRunAssumption DEF AgentInv, TypeOK, CommitTypes, Commits
  <2>3. FlagTypes'
    BY ZenonT(40) DEF AgentInv, TypeOK, FlagTypes
  <2> QED BY <2>1, <2>2, <2>3 DEF TypeOK, RunTypes, CountTypes, KindTypes, FlagTypes, CommitTypes
<1>6. Acquired'
  BY <1>1, <1>5, <1>3 DEF AgentInv, Acquired, Commits
<1>7. ProcessGone' /\ NotCutOff'
  BY <1>1 DEF AgentInv, ProcessGone, AfterInvoke, NotCutOff
<1>8. Numbered'
  BY <1>3, <1>4 DEF AgentInv, Numbered
<1>9. PatchesKept'
  BY <1>1 DEF AgentInv, PatchesKept
<1>10. BaseBelow'
  BY <1>1, <1>3, <1>4 DEF AgentInv, Numbered, BaseBelow
<1>11. MineFound'
  <2>1. pc \notin AfterInvoke /\ ~(pc \in {"release", "remove", "next"} /\ outcome = "ok")
    BY DEF AgentInv, ProcessGone
  <2>2. ~Isolated /\ pc \in {"prompt", "invoke"} => mine' \subseteq (IF Head THEN host' ELSE work')
    BY <1>3 DEF AgentInv, MineFound
  <2>3. Isolated /\ pc \in {"prompt", "invoke"} =>
           mine' \subseteq box' /\ (synced # None => mine' \cap synced = {})
    BY <1>3, <1>4 DEF AgentInv, MineFound, Numbered
  <2> QED BY <1>1, <2>1, <2>2, <2>3 DEF MineFound, AfterInvoke
<1>12. WorkKept'
  BY <1>1, <1>2 DEF AgentInv, TypeOK, WorkKept, Safe
<1>13. ResultComplete'
  BY DEF AgentInv, ProcessGone, ResultComplete
<1> QED BY <1>5, <1>6, <1>7, <1>8, <1>9, <1>10, <1>11, <1>12, <1>13 DEF AgentInv

\* A call starts, with the sandbox that is open or before a new one.
LEMMA CallKeeps ==
    ASSUME AgentInv,
           CallRun \/ CallInteractive \/ CallWorktreeRun \/ CallWorktreeInteractive
           \/ CallSandboxRun \/ CallSandboxInteractive
    PROVE AgentInv'
<1> USE DEF CallRun, CallInteractive, CallWorktreeRun, CallWorktreeInteractive, CallSandboxRun,
            CallSandboxInteractive, StartCall, HandleOpen, agent, repo, sync, flow, books
<1>1. (Isolated' <=> Isolated) /\ (Head' <=> Head) /\ (Temp' <=> Temp) /\ (Own' <=> Own)
      /\ mode'.kind = mode.kind
  BY SameWay
<1>2. (Isolated => ~Head) /\ (Temp => ~Head) /\ (Temp => Own)
  BY WayFacts DEF AgentInv
<1>3. TypeOK'
  <2>1. RunTypes'
    <3>1. CountTypes'
      BY AgentRunAssumption DEF AgentInv, TypeOK, CountTypes, Fail
    <3>2. KindTypes'
      BY DEF AgentInv, TypeOK, KindTypes, Outcomes, Fail
    <3> QED BY <3>1, <3>2 DEF RunTypes
  <2>2. CommitTypes'
    BY DEF AgentInv, TypeOK, CommitTypes
  <2>3. FlagTypes'
    BY ZenonT(40) DEF AgentInv, TypeOK, FlagTypes
  <2> QED BY <2>1, <2>2, <2>3 DEF TypeOK, RunTypes, CountTypes, KindTypes, FlagTypes, CommitTypes
<1>4. Acquired' /\ ProcessGone'
  BY <1>1 DEF AgentInv, Acquired, InIteration, AfterInvoke, ProcessGone
<1>5. NotCutOff'
  BY <1>1, AgentRunAssumption DEF AgentInv, NotCutOff, Outcomes
<1>6. Numbered' /\ PatchesKept'
  BY <1>1 DEF AgentInv, Numbered, PatchesKept
<1>7. BaseBelow'
  <2>1. pc' = "setup" => mode.kind = "sandbox"
    OBVIOUS
  <2>2. mode.kind = "sandbox" => ~Temp
    BY <1>2 DEF Own
  <2> QED BY <1>1, <2>1, <2>2 DEF AgentInv, BaseBelow
<1>8. MineFound' /\ WorkKept' /\ ResultComplete'
  BY <1>1 DEF AgentInv, MineFound, AfterInvoke, WorkKept, Safe, ResultComplete
<1> QED BY <1>3, <1>4, <1>5, <1>6, <1>7, <1>8 DEF AgentInv

\* A worktree and a sandbox for the iteration: what an earlier one has left is kept.
LEMMA AcquireKeeps ==
    ASSUME AgentInv, Acquire PROVE AgentInv'
<1> USE DEF Acquire, AcquireHead, AcquireHost, AcquireIsolated, AcquireBind, FreshWorktree,
            KeptWorktree, SyncIn, agent, repo, sync, flow, books
<1>1. (Isolated' <=> Isolated) /\ (Head' <=> Head) /\ (Temp' <=> Temp) /\ (Own' <=> Own)
      /\ mode'.kind = mode.kind
  BY SameWay
<1>2. (Isolated => ~Head) /\ (Temp => ~Head) /\ (Temp => Own)
  BY WayFacts DEF AgentInv
<1>3. TypeOK'
  <2>1. RunTypes'
    <3>1. CountTypes'
      BY AgentRunAssumption DEF AgentInv, TypeOK, CountTypes, Fail
    <3>2. KindTypes'
      BY DEF AgentInv, TypeOK, KindTypes, Outcomes, Fail
    <3> QED BY <3>1, <3>2 DEF RunTypes
  <2>2. CommitTypes'
    BY DEF AgentInv, TypeOK, CommitTypes
  <2>3. FlagTypes'
    BY ZenonT(40) DEF AgentInv, TypeOK, FlagTypes
  <2> QED BY <2>1, <2>2, <2>3 DEF TypeOK, RunTypes, CountTypes, KindTypes, FlagTypes, CommitTypes
<1>4. Acquired'
  <2>1. work' \in SUBSET Commits
    BY <1>3 DEF TypeOK
  <2>2. (~Head => tree') /\ (Isolated => box' = work')
    BY <1>2 DEF Isolated
  <2>3. Isolated => box' # None
    BY <2>1, <2>2, AgentRunAssumption
  <2> QED BY <1>1, <2>2, <2>3 DEF Acquired
<1>5. ProcessGone' /\ NotCutOff'
  BY <1>1 DEF AgentInv, ProcessGone, AfterInvoke, NotCutOff
<1>6. Numbered'
  BY <1>1 DEF AgentInv, Numbered
<1>7. PatchesKept'
  BY <1>1, <1>2 DEF AgentInv, TypeOK, PatchesKept
<1>8. BaseBelow'
  BY <1>1, <1>2 DEF AgentInv, TypeOK, BaseBelow
<1>9. MineFound' /\ ResultComplete'
  BY <1>1 DEF AgentInv, MineFound, AfterInvoke, ResultComplete
<1>10. WorkKept'
  <2>1. Safe \subseteq Safe'
    BY DEF AgentInv, PatchesKept, Safe
  <2> QED BY <1>1, <2>1 DEF AgentInv, WorkKept
<1> QED BY <1>3, <1>4, <1>5, <1>6, <1>7, <1>8, <1>9, <1>10 DEF AgentInv

\* The sandbox does not start: the worktree stays.
LEMMA StartFailsKeeps ==
    ASSUME AgentInv, StartFails PROVE AgentInv'
<1> USE DEF StartFails, FreshWorktree, KeptWorktree, Fail, agent, repo, sync, flow, books
<1>1. (Isolated' <=> Isolated) /\ (Head' <=> Head) /\ (Temp' <=> Temp) /\ (Own' <=> Own)
      /\ mode'.kind = mode.kind
  BY SameWay
<1>2. (Isolated => ~Head) /\ (Temp => ~Head) /\ (Temp => Own)
  BY WayFacts DEF AgentInv
<1>3. TypeOK'
  <2>1. RunTypes'
    <3>1. CountTypes'
      BY AgentRunAssumption DEF AgentInv, TypeOK, CountTypes, Fail
    <3>2. KindTypes'
      BY DEF AgentInv, TypeOK, KindTypes, Outcomes, Fail
    <3> QED BY <3>1, <3>2 DEF RunTypes
  <2>2. CommitTypes'
    BY DEF AgentInv, TypeOK, CommitTypes
  <2>3. FlagTypes'
    BY ZenonT(40) DEF AgentInv, TypeOK, FlagTypes
  <2> QED BY <2>1, <2>2, <2>3 DEF TypeOK, RunTypes, CountTypes, KindTypes, FlagTypes, CommitTypes
<1>4. Acquired' /\ ProcessGone' /\ NotCutOff'
  BY <1>1 DEF AgentInv, Acquired, InIteration, AfterInvoke, ProcessGone, NotCutOff
<1>5. Numbered' /\ PatchesKept' /\ BaseBelow'
  BY <1>1 DEF AgentInv, Numbered, PatchesKept, BaseBelow
<1>6. MineFound' /\ ResultComplete'
  BY <1>1 DEF AgentInv, MineFound, AfterInvoke, ResultComplete
<1>7. WorkKept'
  BY <1>1, <1>2 DEF AgentInv, TypeOK, WorkKept, Safe
<1> QED BY <1>3, <1>4, <1>5, <1>6, <1>7 DEF AgentInv

\* Nothing was acquired.
LEMMA AcquireFailsKeeps ==
    ASSUME AgentInv, AcquireFails PROVE AgentInv'
<1> USE DEF AcquireFails, Fail, agent, repo, sync, flow, books
<1>1. (Isolated' <=> Isolated) /\ (Head' <=> Head) /\ (Temp' <=> Temp) /\ (Own' <=> Own)
      /\ mode'.kind = mode.kind
  BY SameWay
<1>2. (Isolated => ~Head) /\ (Temp => ~Head) /\ (Temp => Own)
  BY WayFacts DEF AgentInv
<1>3. TypeOK'
  <2>1. RunTypes'
    <3>1. CountTypes'
      BY AgentRunAssumption DEF AgentInv, TypeOK, CountTypes, Fail
    <3>2. KindTypes'
      BY DEF AgentInv, TypeOK, KindTypes, Outcomes, Fail
    <3> QED BY <3>1, <3>2 DEF RunTypes
  <2>2. CommitTypes'
    BY DEF AgentInv, TypeOK, CommitTypes
  <2>3. FlagTypes'
    BY ZenonT(40) DEF AgentInv, TypeOK, FlagTypes
  <2> QED BY <2>1, <2>2, <2>3 DEF TypeOK, RunTypes, CountTypes, KindTypes, FlagTypes, CommitTypes
<1>4. Acquired' /\ ProcessGone' /\ NotCutOff'
  BY <1>1 DEF AgentInv, Acquired, InIteration, AfterInvoke, ProcessGone, NotCutOff
<1>5. Numbered' /\ PatchesKept' /\ BaseBelow'
  BY <1>1 DEF AgentInv, Numbered, PatchesKept, BaseBelow
<1>6. MineFound' /\ ResultComplete'
  BY <1>1 DEF AgentInv, MineFound, AfterInvoke, ResultComplete
<1>7. WorkKept'
  BY <1>1, <1>2 DEF AgentInv, TypeOK, WorkKept, Safe
<1> QED BY <1>3, <1>4, <1>5, <1>6, <1>7 DEF AgentInv

\* The iteration starts where the branch is, with no commits of its own.
LEMMA SetupKeeps ==
    ASSUME AgentInv, Setup PROVE AgentInv'
<1> USE DEF Setup, BaseHead, agent, repo, sync, flow, books
<1>1. (Isolated' <=> Isolated) /\ (Head' <=> Head) /\ (Temp' <=> Temp) /\ (Own' <=> Own)
      /\ mode'.kind = mode.kind
  BY SameWay
<1>2. TypeOK'
  <2>1. RunTypes'
    <3>1. CountTypes'
      BY AgentRunAssumption DEF AgentInv, TypeOK, CountTypes
    <3>2. KindTypes'
      BY DEF AgentInv, TypeOK, KindTypes, Outcomes
    <3> QED BY <3>1, <3>2 DEF RunTypes
  <2>2. CommitTypes'
    BY DEF AgentInv, TypeOK, CommitTypes
  <2>3. FlagTypes'
    BY ZenonT(40) DEF AgentInv, TypeOK, FlagTypes
  <2> QED BY <2>1, <2>2, <2>3 DEF TypeOK, RunTypes, CountTypes, KindTypes, FlagTypes, CommitTypes
<1>3. Acquired' /\ ProcessGone'
  BY <1>1 DEF AgentInv, Acquired, InIteration, AfterInvoke, ProcessGone
<1>4. NotCutOff'
  BY <1>1, AgentRunAssumption DEF AgentInv, NotCutOff, Outcomes
<1>5. Numbered' /\ PatchesKept' /\ BaseBelow'
  BY <1>1 DEF AgentInv, Numbered, PatchesKept, BaseBelow
<1>6. MineFound' /\ WorkKept' /\ ResultComplete'
  BY <1>1 DEF AgentInv, MineFound, AfterInvoke, WorkKept, Safe, ResultComplete
<1> QED BY <1>2, <1>3, <1>4, <1>5, <1>6 DEF AgentInv

\* A hook or the prompt fails before the agent starts.
LEMMA SetupFailsKeeps ==
    ASSUME AgentInv, SetupFails \/ PromptFails PROVE AgentInv'
<1> USE DEF SetupFails, PromptFails, Fail, agent, repo, sync, flow, books
<1>1. (Isolated' <=> Isolated) /\ (Head' <=> Head) /\ (Temp' <=> Temp) /\ (Own' <=> Own)
      /\ mode'.kind = mode.kind
  BY SameWay
<1>2. (Isolated => ~Head) /\ (Temp => ~Head) /\ (Temp => Own)
  BY WayFacts DEF AgentInv
<1>3. TypeOK'
  <2>1. RunTypes'
    <3>1. CountTypes'
      BY AgentRunAssumption DEF AgentInv, TypeOK, CountTypes, Fail
    <3>2. KindTypes'
      BY DEF AgentInv, TypeOK, KindTypes, Outcomes, Fail
    <3> QED BY <3>1, <3>2 DEF RunTypes
  <2>2. CommitTypes'
    BY DEF AgentInv, TypeOK, CommitTypes
  <2>3. FlagTypes'
    BY ZenonT(40) DEF AgentInv, TypeOK, FlagTypes
  <2> QED BY <2>1, <2>2, <2>3 DEF TypeOK, RunTypes, CountTypes, KindTypes, FlagTypes, CommitTypes
<1>4. Acquired' /\ ProcessGone' /\ NotCutOff'
  BY <1>1 DEF AgentInv, Acquired, InIteration, AfterInvoke, ProcessGone, NotCutOff
<1>5. Numbered' /\ PatchesKept' /\ BaseBelow'
  BY <1>1 DEF AgentInv, Numbered, PatchesKept, BaseBelow
<1>6. MineFound' /\ ResultComplete'
  BY <1>1 DEF AgentInv, MineFound, AfterInvoke, ResultComplete
<1>7. WorkKept'
  BY <1>1, <1>2 DEF AgentInv, TypeOK, WorkKept, Safe
<1> QED BY <1>3, <1>4, <1>5, <1>6, <1>7 DEF AgentInv

\* The agent starts, and is cut off by nothing yet.
LEMMA StartKeeps ==
    ASSUME AgentInv, StartAgent \/ StartSession PROVE AgentInv'
<1> USE DEF StartAgent, StartSession, Launch, agent, repo, sync, flow, books
<1>1. (Isolated' <=> Isolated) /\ (Head' <=> Head) /\ (Temp' <=> Temp) /\ (Own' <=> Own)
      /\ mode'.kind = mode.kind
  BY SameWay
<1>2. TypeOK'
  <2>1. RunTypes'
    <3>1. CountTypes'
      BY AgentRunAssumption DEF AgentInv, TypeOK, CountTypes, Fail
    <3>2. KindTypes'
      BY DEF AgentInv, TypeOK, KindTypes, Outcomes, Fail
    <3> QED BY <3>1, <3>2 DEF RunTypes
  <2>2. CommitTypes'
    BY DEF AgentInv, TypeOK, CommitTypes
  <2>3. FlagTypes'
    BY ZenonT(40) DEF AgentInv, TypeOK, FlagTypes
  <2> QED BY <2>1, <2>2, <2>3 DEF TypeOK, RunTypes, CountTypes, KindTypes, FlagTypes, CommitTypes
<1>3. Acquired' /\ ProcessGone' /\ NotCutOff'
  BY <1>1 DEF AgentInv, Acquired, InIteration, AfterInvoke, ProcessGone, NotCutOff
<1>4. Numbered' /\ PatchesKept' /\ BaseBelow'
  BY <1>1 DEF AgentInv, Numbered, PatchesKept, BaseBelow
<1>5. MineFound' /\ WorkKept' /\ ResultComplete'
  BY <1>1 DEF AgentInv, MineFound, AfterInvoke, WorkKept, Safe, ResultComplete
<1> QED BY <1>2, <1>3, <1>4, <1>5 DEF AgentInv

\* The first of process, timer and signal decides; an agent that ended well is gone.
LEMMA RaceKeeps ==
    ASSUME AgentInv, ProcessEnds \/ TimeoutWins \/ AbortWins PROVE AgentInv'
<1> USE DEF ProcessEnds, TimeoutWins, AbortWins, Decide, Classify, AfterAgent, Captures, agent,
            repo, sync, flow, books
<1>1. (Isolated' <=> Isolated) /\ (Head' <=> Head) /\ (Temp' <=> Temp) /\ (Own' <=> Own)
      /\ mode'.kind = mode.kind
  BY SameWay
<1>2. (Isolated => ~Head) /\ (Temp => ~Head) /\ (Temp => Own)
  BY WayFacts DEF AgentInv
<1>3. TypeOK'
  <2>1. RunTypes'
    <3>1. CountTypes'
      BY AgentRunAssumption DEF AgentInv, TypeOK, CountTypes, Fail
    <3>2. KindTypes'
      BY DEF AgentInv, TypeOK, KindTypes, Outcomes, Fail
    <3> QED BY <3>1, <3>2 DEF RunTypes
  <2>2. CommitTypes'
    BY DEF AgentInv, TypeOK, CommitTypes
  <2>3. FlagTypes'
    BY ZenonT(40) DEF AgentInv, TypeOK, FlagTypes
  <2> QED BY <2>1, <2>2, <2>3 DEF TypeOK, RunTypes, CountTypes, KindTypes, FlagTypes, CommitTypes
<1>4. Acquired' /\ ProcessGone'
  BY <1>1 DEF AgentInv, Acquired, InIteration, AfterInvoke, ProcessGone
<1>5. NotCutOff'
  BY <1>1, <1>2 DEF AgentInv, TypeOK, NotCutOff
<1>6. Numbered' /\ PatchesKept' /\ BaseBelow'
  BY <1>1 DEF AgentInv, Numbered, PatchesKept, BaseBelow
<1>7. MineFound' /\ WorkKept' /\ ResultComplete'
  BY <1>1 DEF AgentInv, MineFound, AfterInvoke, WorkKept, Safe, ResultComplete
<1> QED BY <1>3, <1>4, <1>5, <1>6, <1>7 DEF AgentInv

\* The session is captured, or the iteration has failed.
LEMMA CaptureKeeps ==
    ASSUME AgentInv, CaptureSession PROVE AgentInv'
<1> USE DEF CaptureSession, Fail, AfterAgent, agent, repo, sync, flow, books
<1>1. (Isolated' <=> Isolated) /\ (Head' <=> Head) /\ (Temp' <=> Temp) /\ (Own' <=> Own)
      /\ mode'.kind = mode.kind
  BY SameWay
<1>2. (Isolated => ~Head) /\ (Temp => ~Head) /\ (Temp => Own)
  BY WayFacts DEF AgentInv
<1>3. TypeOK'
  <2>1. RunTypes'
    <3>1. CountTypes'
      BY AgentRunAssumption DEF AgentInv, TypeOK, CountTypes, Fail
    <3>2. KindTypes'
      BY DEF AgentInv, TypeOK, KindTypes, Outcomes, Fail
    <3> QED BY <3>1, <3>2 DEF RunTypes
  <2>2. CommitTypes'
    BY DEF AgentInv, TypeOK, CommitTypes
  <2>3. FlagTypes'
    BY ZenonT(40) DEF AgentInv, TypeOK, FlagTypes
  <2> QED BY <2>1, <2>2, <2>3 DEF TypeOK, RunTypes, CountTypes, KindTypes, FlagTypes, CommitTypes
<1>4. Acquired' /\ ProcessGone' /\ NotCutOff'
  BY <1>1 DEF AgentInv, Acquired, InIteration, AfterInvoke, ProcessGone, NotCutOff
<1>5. Numbered' /\ PatchesKept' /\ BaseBelow'
  BY <1>1 DEF AgentInv, Numbered, PatchesKept, BaseBelow
<1>6. MineFound' /\ ResultComplete'
  BY <1>1 DEF AgentInv, MineFound, AfterInvoke, ResultComplete
<1>7. WorkKept'
  BY <1>1, <1>2 DEF AgentInv, TypeOK, WorkKept, Safe
<1> QED BY <1>3, <1>4, <1>5, <1>6, <1>7 DEF AgentInv

\* The commits of the iteration are among the patches, or on the branch.
LEMMA SaveKeeps ==
    ASSUME AgentInv, Save PROVE AgentInv'
<1> USE DEF Save, Fail, PatchBase, agent, repo, sync, flow, books
<1>1. (Isolated' <=> Isolated) /\ (Head' <=> Head) /\ (Temp' <=> Temp) /\ (Own' <=> Own)
      /\ mode'.kind = mode.kind
  BY SameWay
<1>2. (Isolated => ~Head) /\ (Temp => ~Head) /\ (Temp => Own)
  BY WayFacts DEF AgentInv
<1>3. TypeOK'
  <2>1. RunTypes'
    <3>1. CountTypes'
      BY AgentRunAssumption DEF AgentInv, TypeOK, CountTypes, Fail
    <3>2. KindTypes'
      BY DEF AgentInv, TypeOK, KindTypes, Outcomes, Fail
    <3> QED BY <3>1, <3>2 DEF RunTypes
  <2>2. CommitTypes'
    BY <1>1, <1>2, AgentRunAssumption DEF AgentInv, TypeOK, CommitTypes, Commits, Acquired,
       InIteration,
       AfterInvoke
  <2>3. FlagTypes'
    BY ZenonT(40) DEF AgentInv, TypeOK, FlagTypes
  <2> QED BY <2>1, <2>2, <2>3 DEF TypeOK, RunTypes, CountTypes, KindTypes, FlagTypes, CommitTypes
<1>4. Acquired'
  BY <1>1, <1>2, AgentRunAssumption DEF AgentInv, Acquired, InIteration, AfterInvoke, TypeOK,
     Outcomes
<1>5. ProcessGone' /\ NotCutOff'
  BY <1>1 DEF AgentInv, ProcessGone, AfterInvoke, NotCutOff
<1>6. Numbered'
  <2>1. patches' # None => patches' = patches \/ patches' = box \ PatchBase
    OBVIOUS
  <2>2. box # None
    BY DEF AgentInv, Acquired, InIteration, AfterInvoke
  <2> HIDE DEF PatchBase
  <2> QED BY <2>1, <2>2 DEF AgentInv, Numbered
<1>7. PatchesKept' /\ BaseBelow'
  BY <1>1 DEF AgentInv, PatchesKept, BaseBelow
<1>8. MineFound'
  <2>1. CASE pc' = "release" /\ outcome' = "error"
    BY <2>1 DEF MineFound
  <2>2. CASE pc' = "apply"
    <3>1. mine \subseteq box /\ (synced # None => mine \cap synced = {})
      BY DEF AgentInv, Acquired, MineFound
    <3>2. patches' = box \ PatchBase /\ PatchBase # None
      BY <2>2
    <3>3. mine \subseteq patches' \cup work
      BY <3>1, <3>2
    <3> QED BY <2>2, <3>3 DEF MineFound
  <2> QED BY <2>1, <2>2
<1>9. WorkKept'
  BY <1>1, <1>2 DEF AgentInv, TypeOK, WorkKept, Safe
<1>10. ResultComplete'
  BY <1>1 DEF AgentInv, ResultComplete
<1> QED BY <1>3, <1>4, <1>5, <1>6, <1>7, <1>8, <1>9, <1>10 DEF AgentInv

\* Every patch is applied or kept: what git am --abort takes back was saved before.
LEMMA ApplyKeeps ==
    ASSUME AgentInv, Apply PROVE AgentInv'
<1> USE DEF Apply, Stopped, agent, repo, sync, flow, books
<1>1. (Isolated' <=> Isolated) /\ (Head' <=> Head) /\ (Temp' <=> Temp) /\ (Own' <=> Own)
      /\ mode'.kind = mode.kind
  BY SameWay
<1>2. (Isolated => ~Head) /\ (Temp => ~Head) /\ (Temp => Own)
  BY WayFacts DEF AgentInv
<1>3. Isolated /\ box # None /\ patches # None /\ patches \subseteq 1 .. made
  BY DEF AgentInv, Acquired, InIteration, AfterInvoke, Numbered
<1>4. /\ work' \subseteq work \cup patches /\ work \ midAm \subseteq work'
      /\ patches \subseteq work' \cup saved'
      /\ saved \subseteq saved' /\ saved' \subseteq saved \cup patches
      /\ midAm' \subseteq saved'
      /\ saved' # {} => dirty' \/ (saved' = saved /\ (dirty => dirty'))
      /\ synced' \in {synced, box}
  <2>1. PICK n \in 0 .. MaxCommits, diff \in BOOLEAN, diffFails \in BOOLEAN :
         LET applied == {c \in patches : c <= n}
             rest == IF patches = {} THEN work ELSE work \ midAm
         IN
         /\ diffFails => diff /\ applied = patches
         /\ work' = rest \cup applied
         /\ midAm' = IF patches = {} THEN midAm ELSE IF applied = patches THEN {} ELSE applied
         /\ stray' = (stray \/ applied # {})
         /\ IF Stopped(applied, diffFails)
            THEN /\ saved' = saved \cup patches /\ dirty' = TRUE /\ UNCHANGED synced
            ELSE /\ synced' = IF patches # {} THEN box ELSE synced
                 /\ dirty' = (dirty \/ patches # {} \/ diff)
                 /\ UNCHANGED saved
    OBVIOUS
  <2> DEFINE applied == {c \in patches : c <= n}
             rest == IF patches = {} THEN work ELSE work \ midAm
  <2>2. /\ applied \subseteq patches /\ rest \subseteq work /\ work \ midAm \subseteq rest
        /\ midAm \subseteq saved
    BY DEF AgentInv, PatchesKept
  <2>3. work' = rest \cup applied
    BY <2>1
  <2>4. midAm' = midAm \/ midAm' = {} \/ (midAm' = applied /\ applied # patches)
    BY <2>1
  <2> HIDE DEF applied, rest
  <2>5. \/ /\ saved' = saved \cup patches /\ dirty' /\ synced' = synced
        \/ /\ applied = patches /\ saved' = saved /\ synced' \in {synced, box}
           /\ dirty => dirty'
    BY <2>1 DEF applied
  <2> QED BY <2>2, <2>3, <2>4, <2>5
<1>5. TypeOK'
  <2>1. RunTypes'
    <3>1. CountTypes'
      BY <1>1, <1>2, AgentRunAssumption DEF AgentInv, TypeOK, CountTypes, Fail
    <3>2. KindTypes'
      BY <1>1, <1>2 DEF AgentInv, TypeOK, KindTypes, Outcomes, Fail
    <3> QED BY <3>1, <3>2 DEF RunTypes
  <2>2. CommitTypes'
    BY <1>1, <1>2, AgentRunAssumption DEF AgentInv, TypeOK, CommitTypes, Commits, Acquired,
       InIteration, AfterInvoke
  <2>3. FlagTypes'
    BY ZenonT(40) DEF AgentInv, TypeOK, FlagTypes
  <2> QED BY <2>1, <2>2, <2>3 DEF TypeOK, RunTypes, CountTypes, KindTypes, FlagTypes, CommitTypes
<1>6. Acquired' /\ ProcessGone' /\ NotCutOff'
  BY <1>1 DEF AgentInv, Acquired, InIteration, AfterInvoke, ProcessGone, NotCutOff
<1>7. Numbered'
  <2>1. work' \subseteq 1 .. made /\ (synced' # None => synced' \subseteq 1 .. made)
    BY <1>3, <1>4 DEF AgentInv, Numbered
  <2> QED BY <2>1 DEF AgentInv, Numbered
<1>8. PatchesKept'
  <2>1. tree
    BY <1>2, <1>3 DEF AgentInv, Acquired, InIteration, AfterInvoke
  <2>2. saved' # {} => tree' /\ dirty'
    BY <1>4, <2>1 DEF AgentInv, PatchesKept
  <2> QED BY <1>4, <2>2 DEF PatchesKept
<1>9. BaseBelow'
  BY <1>1 DEF AgentInv, BaseBelow
<1>10. MineFound'
  <2>1. mine \subseteq work' \cup saved'
    BY <1>4 DEF AgentInv, MineFound, PatchesKept
  <2> QED BY <1>1, <1>3, <2>1 DEF MineFound
<1>11. WorkKept'
  <2>1. Safe \subseteq Safe'
    BY <1>4 DEF AgentInv, PatchesKept, Safe
  <2> QED BY <1>1, <2>1 DEF AgentInv, WorkKept
<1>12. ResultComplete'
  BY <1>1 DEF AgentInv, ResultComplete
<1> QED BY <1>5, <1>6, <1>7, <1>8, <1>9, <1>10, <1>11, <1>12 DEF AgentInv

\* A temporary branch is merged into the host's branch, or has nothing new.
LEMMA MergeKeeps ==
    ASSUME AgentInv, Merge PROVE AgentInv'
<1> USE DEF Merge, Fail, HasNewCommits, agent, repo, sync, flow, books
<1>1. (Isolated' <=> Isolated) /\ (Head' <=> Head) /\ (Temp' <=> Temp) /\ (Own' <=> Own)
      /\ mode'.kind = mode.kind
  BY SameWay
<1>2. (Isolated => ~Head) /\ (Temp => ~Head) /\ (Temp => Own)
  BY WayFacts DEF AgentInv
<1>3. TypeOK'
  <2>1. RunTypes'
    <3>1. CountTypes'
      BY AgentRunAssumption DEF AgentInv, TypeOK, CountTypes, Fail
    <3>2. KindTypes'
      BY DEF AgentInv, TypeOK, KindTypes, Outcomes, Fail
    <3> QED BY <3>1, <3>2 DEF RunTypes
  <2>2. CommitTypes'
    BY DEF AgentInv, TypeOK, CommitTypes
  <2>3. FlagTypes'
    BY ZenonT(40) DEF AgentInv, TypeOK, FlagTypes
  <2> QED BY <2>1, <2>2, <2>3 DEF TypeOK, RunTypes, CountTypes, KindTypes, FlagTypes, CommitTypes
<1>4. Acquired' /\ ProcessGone' /\ NotCutOff'
  BY <1>1 DEF AgentInv, Acquired, InIteration, AfterInvoke, ProcessGone, NotCutOff
<1>5. Numbered' /\ PatchesKept' /\ BaseBelow'
  BY <1>1 DEF AgentInv, Numbered, PatchesKept, BaseBelow
<1>6. MineFound'
  <2>1. mine \subseteq (IF Head THEN host ELSE work) \cup saved
    BY <1>2 DEF AgentInv, MineFound
  <2>2. CASE ~Temp
    BY <1>1, <2>1, <2>2 DEF MineFound
  <2>3. CASE pc' = "release"
    BY <2>3 DEF MineFound
  <2>4. CASE Temp /\ pc' = "delete"
    <3>1. failures' = 0 => work \subseteq host'
      BY <2>4 DEF AgentInv, TypeOK, BaseBelow
    <3> QED BY <1>1, <1>2, <2>1, <2>4, <3>1 DEF MineFound
  <2> QED BY <2>2, <2>3, <2>4
<1>7. WorkKept'
  BY <1>1, <1>2 DEF AgentInv, TypeOK, WorkKept, Safe
<1>8. ResultComplete'
  BY <1>1 DEF AgentInv, ResultComplete
<1> QED BY <1>3, <1>4, <1>5, <1>6, <1>7, <1>8 DEF AgentInv

\* A temporary branch is deleted when the host has it.
LEMMA DeleteKeeps ==
    ASSUME AgentInv, DeleteBranch PROVE AgentInv'
<1> USE DEF DeleteBranch, agent, repo, sync, flow, books
<1>1. (Isolated' <=> Isolated) /\ (Head' <=> Head) /\ (Temp' <=> Temp) /\ (Own' <=> Own)
      /\ mode'.kind = mode.kind
  BY SameWay
<1>2. TypeOK'
  <2>1. RunTypes'
    <3>1. CountTypes'
      BY AgentRunAssumption DEF AgentInv, TypeOK, CountTypes
    <3>2. KindTypes'
      BY DEF AgentInv, TypeOK, KindTypes, Outcomes
    <3> QED BY <3>1, <3>2 DEF RunTypes
  <2>2. CommitTypes'
    BY DEF AgentInv, TypeOK, CommitTypes
  <2>3. FlagTypes'
    BY ZenonT(40) DEF AgentInv, TypeOK, FlagTypes
  <2> QED BY <2>1, <2>2, <2>3 DEF TypeOK, RunTypes, CountTypes, KindTypes, FlagTypes, CommitTypes
<1>3. Acquired' /\ ProcessGone' /\ NotCutOff'
  BY <1>1 DEF AgentInv, Acquired, InIteration, AfterInvoke, ProcessGone, NotCutOff
<1>4. Numbered' /\ PatchesKept' /\ BaseBelow'
  BY <1>1 DEF AgentInv, Numbered, PatchesKept, BaseBelow
<1>5. MineFound'
  <2>1. Temp /\ (failures = 0 => mine \subseteq host \cup saved)
    BY DEF AgentInv, Acquired, MineFound
  <2> QED BY <1>1, <2>1 DEF MineFound
<1>6. WorkKept'
  <2>1. failures = 0 => Safe \subseteq Safe'
    BY DEF AgentInv, MineFound, Safe
  <2> QED BY <1>1, <2>1 DEF AgentInv, WorkKept
<1>7. ResultComplete'
  BY <1>1 DEF AgentInv, ResultComplete
<1> QED BY <1>2, <1>3, <1>4, <1>5, <1>6, <1>7 DEF AgentInv

\* The commits of the iteration are reported, and are where they can be found.
LEMMA CollectKeeps ==
    ASSUME AgentInv, Collect PROVE AgentInv'
<1> USE DEF Collect, Fail, Collected, agent, repo, sync, flow, books
<1>1. (Isolated' <=> Isolated) /\ (Head' <=> Head) /\ (Temp' <=> Temp) /\ (Own' <=> Own)
      /\ mode'.kind = mode.kind
  BY SameWay
<1>2. (Isolated => ~Head) /\ (Temp => ~Head) /\ (Temp => Own)
  BY WayFacts DEF AgentInv
<1>3. TypeOK'
  <2>1. RunTypes'
    <3>1. CountTypes'
      BY AgentRunAssumption DEF AgentInv, TypeOK, CountTypes, Fail
    <3>2. KindTypes'
      BY DEF AgentInv, TypeOK, KindTypes, Outcomes, Fail
    <3> QED BY <3>1, <3>2 DEF RunTypes
  <2>2. CommitTypes'
    BY DEF AgentInv, TypeOK, CommitTypes
  <2>3. FlagTypes'
    BY ZenonT(40) DEF AgentInv, TypeOK, FlagTypes
  <2> QED BY <2>1, <2>2, <2>3 DEF TypeOK, RunTypes, CountTypes, KindTypes, FlagTypes, CommitTypes
<1>4. Acquired' /\ ProcessGone' /\ NotCutOff'
  BY <1>1 DEF AgentInv, Acquired, InIteration, AfterInvoke, ProcessGone, NotCutOff
<1>5. Numbered' /\ PatchesKept' /\ BaseBelow'
  BY <1>1 DEF AgentInv, Numbered, PatchesKept, BaseBelow
<1>6. MineFound'
  <2>1. ASSUME failures' = 0 PROVE mine \subseteq reported' \cup saved
    <3>1. failures = 0 /\ reported' = reported \cup Collected
      BY <2>1 DEF AgentInv, TypeOK
    <3>2. mine \subseteq (IF Temp \/ Head THEN host ELSE work) \cup saved
      BY <1>2, <3>1 DEF AgentInv, MineFound
    <3> QED BY <3>1, <3>2 DEF AgentInv, BaseBelow
  <2> QED BY <1>1, <2>1 DEF MineFound
<1>7. WorkKept'
  <2>1. failures' = 0 => failures = 0 /\ mine \subseteq Safe
    BY <1>2 DEF AgentInv, TypeOK, MineFound, Safe
  <2>2. Safe' = Safe
    BY DEF Safe
  <2> QED BY <1>1, <2>1, <2>2 DEF AgentInv, WorkKept
<1>8. ResultComplete'
  BY <1>1 DEF AgentInv, ResultComplete
<1> QED BY <1>3, <1>4, <1>5, <1>6, <1>7, <1>8 DEF AgentInv

\* The worktree is removed when it has no saved patches.
LEMMA ReleaseKeeps ==
    ASSUME AgentInv, Release PROVE AgentInv'
<1> USE DEF Release, CloseSandbox, Fail, RemovesWorktree, CleanupRemoves, InteractiveRemoves,
            agent, repo, sync, flow, books
<1>1. (Isolated' <=> Isolated) /\ (Head' <=> Head) /\ (Temp' <=> Temp) /\ (Own' <=> Own)
      /\ mode'.kind = mode.kind
  BY SameWay
<1>2. (Isolated => ~Head) /\ (Temp => ~Head) /\ (Temp => Own)
  BY WayFacts DEF AgentInv
<1>3. TypeOK'
  <2>1. RunTypes'
    <3>1. CountTypes'
      BY AgentRunAssumption DEF AgentInv, TypeOK, CountTypes, Fail
    <3>2. KindTypes'
      BY DEF AgentInv, TypeOK, KindTypes, Outcomes, Fail
    <3> QED BY <3>1, <3>2 DEF RunTypes
  <2>2. CommitTypes'
    BY DEF AgentInv, TypeOK, CommitTypes
  <2>3. FlagTypes'
    BY ZenonT(40) DEF AgentInv, TypeOK, FlagTypes
  <2> QED BY <2>1, <2>2, <2>3 DEF TypeOK, RunTypes, CountTypes, KindTypes, FlagTypes, CommitTypes
<1>4. Acquired' /\ ProcessGone' /\ NotCutOff'
  BY <1>1 DEF AgentInv, Acquired, InIteration, AfterInvoke, ProcessGone, NotCutOff
<1>5. Numbered' /\ BaseBelow'
  BY <1>1 DEF AgentInv, Numbered, BaseBelow
<1>6. PatchesKept'
  BY <1>1, <1>2 DEF AgentInv, TypeOK, PatchesKept
<1>7. MineFound'
  BY <1>1, <1>2 DEF AgentInv, TypeOK, MineFound, AfterInvoke
<1>8. WorkKept'
  BY <1>1, <1>2 DEF AgentInv, TypeOK, WorkKept, Safe
<1>9. ResultComplete'
  BY <1>1 DEF AgentInv, ResultComplete
<1> QED BY <1>3, <1>4, <1>5, <1>6, <1>7, <1>8, <1>9 DEF AgentInv

\* The next iteration, with what the handle keeps.
LEMMA ReuseKeeps ==
    ASSUME AgentInv, ReuseSandbox \/ NextIteration PROVE AgentInv'
<1> USE DEF ReuseSandbox, NextIteration, agent, repo, sync, flow, books
<1>1. (Isolated' <=> Isolated) /\ (Head' <=> Head) /\ (Temp' <=> Temp) /\ (Own' <=> Own)
      /\ mode'.kind = mode.kind
  BY SameWay
<1>2. (Isolated => ~Head) /\ (Temp => ~Head) /\ (Temp => Own)
  BY WayFacts DEF AgentInv
<1>3. TypeOK'
  <2>1. RunTypes'
    <3>1. CountTypes'
      BY AgentRunAssumption DEF AgentInv, TypeOK, CountTypes, Fail
    <3>2. KindTypes'
      BY DEF AgentInv, TypeOK, KindTypes, Outcomes, Fail
    <3> QED BY <3>1, <3>2 DEF RunTypes
  <2>2. CommitTypes'
    BY DEF AgentInv, TypeOK, CommitTypes
  <2>3. FlagTypes'
    BY ZenonT(40) DEF AgentInv, TypeOK, FlagTypes
  <2> QED BY <2>1, <2>2, <2>3 DEF TypeOK, RunTypes, CountTypes, KindTypes, FlagTypes, CommitTypes
<1>4. Acquired' /\ ProcessGone' /\ NotCutOff'
  BY <1>1 DEF AgentInv, Acquired, InIteration, AfterInvoke, ProcessGone, NotCutOff
<1>5. Numbered' /\ PatchesKept'
  BY <1>1 DEF AgentInv, Numbered, PatchesKept
<1>6. BaseBelow'
  BY <1>1, <1>2 DEF AgentInv, TypeOK, BaseBelow
<1>7. MineFound' /\ WorkKept' /\ ResultComplete'
  BY <1>1 DEF AgentInv, MineFound, AfterInvoke, WorkKept, Safe, ResultComplete
<1> QED BY <1>3, <1>4, <1>5, <1>6, <1>7 DEF AgentInv

\* A removed worktree had no saved patches, but after a failed interactive session.
LEMMA RemoveKeeps ==
    ASSUME AgentInv, Remove PROVE AgentInv'
<1> USE DEF Remove, agent, repo, sync, flow, books
<1>1. (Isolated' <=> Isolated) /\ (Head' <=> Head) /\ (Temp' <=> Temp) /\ (Own' <=> Own)
      /\ mode'.kind = mode.kind
  BY SameWay
<1>2. TypeOK'
  <2>1. RunTypes'
    <3>1. CountTypes'
      BY AgentRunAssumption DEF AgentInv, TypeOK, CountTypes
    <3>2. KindTypes'
      BY DEF AgentInv, TypeOK, KindTypes, Outcomes
    <3> QED BY <3>1, <3>2 DEF RunTypes
  <2>2. CommitTypes'
    BY DEF AgentInv, TypeOK, CommitTypes
  <2>3. FlagTypes'
    BY ZenonT(40) DEF AgentInv, TypeOK, FlagTypes
  <2> QED BY <2>1, <2>2, <2>3 DEF TypeOK, RunTypes, CountTypes, KindTypes, FlagTypes, CommitTypes
<1>3. Acquired' /\ ProcessGone' /\ NotCutOff'
  BY <1>1 DEF AgentInv, Acquired, InIteration, AfterInvoke, ProcessGone, NotCutOff
<1>4. Numbered' /\ PatchesKept' /\ BaseBelow'
  BY <1>1 DEF AgentInv, Numbered, PatchesKept, BaseBelow
<1>5. MineFound'
  <2>1. outcome = "ok" /\ failures = 0 => mine \subseteq reported \cup left
    BY DEF AgentInv, MineFound, PatchesKept
  <2> QED BY <1>1, <2>1 DEF MineFound
<1>6. WorkKept'
  <2>1. mode.kind \in {"run", "interactive"}
    BY DEF AgentInv, Acquired, Own
  <2>2. ASSUME failures = 0, ~lost' PROVE ~lost /\ Safe' = Safe
    <3>1. ~lost /\ saved = {}
      BY <2>1, <2>2 DEF AgentInv, PatchesKept
    <3> QED BY <3>1 DEF Safe
  <2> QED BY <1>1, <2>2 DEF AgentInv, WorkKept
<1>7. ResultComplete'
  BY <1>1 DEF AgentInv, ResultComplete
<1> QED BY <1>2, <1>3, <1>4, <1>5, <1>6, <1>7 DEF AgentInv

\* The call returns: with a result that is complete where it is ok.
LEMMA ReturnKeeps ==
    ASSUME AgentInv,
       ReturnRun \/ ReturnInteractive \/ ReturnWorktreeRun \/ ReturnWorktreeInteractive \/ ReturnSandbox PROVE AgentInv'
<1> USE DEF ReturnRun, ReturnInteractive, ReturnWorktreeRun, ReturnWorktreeInteractive,
            ReturnSandbox, Return, CloseSandbox, Fail, agent, repo, sync, flow, books
<1>1. (Isolated' <=> Isolated) /\ (Head' <=> Head) /\ (Temp' <=> Temp) /\ (Own' <=> Own)
      /\ mode'.kind = mode.kind
  BY SameWay
<1>2. (Isolated => ~Head) /\ (Temp => ~Head) /\ (Temp => Own)
  BY WayFacts DEF AgentInv
<1>3. TypeOK'
  <2>1. RunTypes'
    <3>1. CountTypes'
      BY <1>1, <1>2, AgentRunAssumption DEF AgentInv, TypeOK, CountTypes, Fail
    <3>2. KindTypes'
      BY <1>1, <1>2 DEF AgentInv, TypeOK, KindTypes, Outcomes, Fail
    <3> QED BY <3>1, <3>2 DEF RunTypes
  <2>2. CommitTypes'
    BY <1>1, <1>2, AgentRunAssumption DEF AgentInv, TypeOK, CommitTypes, Commits, Acquired,
       InIteration, AfterInvoke
  <2>3. FlagTypes'
    <3>1. child' \in {child, FALSE} /\ UNCHANGED <<session, abort, output, timer, tree, dirty,
       stray, lost>>
      OBVIOUS
    <3> QED BY <3>1 DEF AgentInv, TypeOK, FlagTypes
  <2> QED BY <2>1, <2>2, <2>3 DEF TypeOK, RunTypes, CountTypes, KindTypes, FlagTypes, CommitTypes
<1>4. Acquired' /\ ProcessGone' /\ NotCutOff'
  BY <1>1 DEF AgentInv, Acquired, InIteration, AfterInvoke, ProcessGone, NotCutOff
<1>5. Numbered' /\ PatchesKept' /\ BaseBelow'
  BY <1>1 DEF AgentInv, Numbered, PatchesKept, BaseBelow
<1>6. MineFound'
  BY <1>1 DEF AgentInv, MineFound, AfterInvoke
<1>7. WorkKept'
  BY <1>1, <1>2 DEF AgentInv, TypeOK, WorkKept, Safe
<1>8. ResultComplete'
  <2>1. result' = "ok" => outcome = "ok"
    OBVIOUS
  <2>2. failures' = 0 => failures = 0
    BY DEF AgentInv, TypeOK
  <2> QED BY <2>1, <2>2 DEF AgentInv, MineFound, ResultComplete
<1> QED BY <1>3, <1>4, <1>5, <1>6, <1>7, <1>8 DEF AgentInv

\* A handle is closed: a dirty worktree stays.
LEMMA CloseKeeps ==
    ASSUME AgentInv, CloseWorktree \/ CloseCreatedSandbox PROVE AgentInv'
<1> USE DEF CloseWorktree, CloseCreatedSandbox, CloseHandle, CloseSandbox, agent, repo, sync,
            flow, books
<1>1. (Isolated' <=> Isolated) /\ (Head' <=> Head) /\ (Temp' <=> Temp) /\ (Own' <=> Own)
      /\ mode'.kind = mode.kind
  BY SameWay
<1>2. TypeOK'
  <2>1. RunTypes'
    <3>1. CountTypes'
      BY AgentRunAssumption DEF AgentInv, TypeOK, CountTypes
    <3>2. KindTypes'
      BY DEF AgentInv, TypeOK, KindTypes, Outcomes
    <3> QED BY <3>1, <3>2 DEF RunTypes
  <2>2. CommitTypes'
    BY DEF AgentInv, TypeOK, CommitTypes
  <2>3. FlagTypes'
    BY ZenonT(40) DEF AgentInv, TypeOK, FlagTypes
  <2> QED BY <2>1, <2>2, <2>3 DEF TypeOK, RunTypes, CountTypes, KindTypes, FlagTypes, CommitTypes
<1>3. Acquired' /\ ProcessGone' /\ NotCutOff'
  BY <1>1 DEF AgentInv, Acquired, InIteration, AfterInvoke, ProcessGone, NotCutOff
<1>4. Numbered' /\ PatchesKept' /\ BaseBelow'
  BY <1>1 DEF AgentInv, Numbered, PatchesKept, BaseBelow
<1>5. MineFound' /\ WorkKept' /\ ResultComplete'
  BY <1>1 DEF AgentInv, MineFound, AfterInvoke, WorkKept, Safe, ResultComplete
<1> QED BY <1>2, <1>3, <1>4, <1>5 DEF AgentInv

-----------------------------------------------------------------------------
(* The theorems *)

\* At first nothing is made.
LEMMA AgentInit == Init => AgentInv
<1> SUFFICES ASSUME Init PROVE AgentInv
  OBVIOUS
<1> USE DEF Init
<1>1. RunTypes /\ CommitTypes
  BY AgentRunAssumption DEF RunTypes, CountTypes, KindTypes, CommitTypes, Outcomes
<1>2. FlagTypes
  BY Zenon DEF FlagTypes
<1>3. TypeOK
  BY <1>1, <1>2 DEF TypeOK, RunTypes, CountTypes, KindTypes, FlagTypes, CommitTypes
<1>4. Acquired /\ ProcessGone /\ NotCutOff
  BY AgentRunAssumption DEF Acquired, InIteration, AfterInvoke, ProcessGone, NotCutOff, Outcomes
<1>5. Numbered /\ PatchesKept /\ BaseBelow /\ MineFound
  BY DEF Numbered, PatchesKept, BaseBelow, MineFound
<1>6. WorkKept /\ ResultComplete
  BY DEF WorkKept, ResultComplete, Safe
<1> QED BY <1>3, <1>4, <1>5, <1>6 DEF AgentInv

\* Every step keeps the invariant.
LEMMA AgentStep == AgentInv /\ [Next]_vars => AgentInv'
<1> SUFFICES ASSUME AgentInv, [Next]_vars PROVE AgentInv'
  OBVIOUS
<1>1. CASE Environment
  BY <1>1, CallKeeps, CloseKeeps, TimersKeep, ProcessKeeps, CommitKeeps DEF Environment
<1>2. CASE Lifecycle
  BY <1>2, AcquireKeeps, AcquireFailsKeeps, StartFailsKeeps, SetupKeeps, SetupFailsKeeps, StartKeeps,
     CaptureKeeps, SaveKeeps, ApplyKeeps, MergeKeeps, DeleteKeeps, CollectKeeps, ReleaseKeeps,
     ReuseKeeps, RemoveKeeps, ReturnKeeps DEF Lifecycle
<1>3. CASE Race
  BY <1>3, TimersKeep, RaceKeeps DEF Race
<1>4. CASE ChildEnds \/ Exit
  BY <1>4, ProcessKeeps
<1>5. CASE UNCHANGED vars
  <2> USE <1>5 DEF vars, agent, repo, sync, flow, books
  <2>1. (Isolated' <=> Isolated) /\ (Head' <=> Head) /\ (Temp' <=> Temp) /\ (Own' <=> Own)
        /\ mode'.kind = mode.kind
    BY SameWay
  <2>2. RunTypes' /\ CommitTypes'
    BY DEF AgentInv, TypeOK, RunTypes, CountTypes, KindTypes, CommitTypes
  <2>3. FlagTypes'
    BY ZenonT(40) DEF AgentInv, TypeOK, FlagTypes
  <2>4. TypeOK'
    BY <2>2, <2>3 DEF TypeOK, RunTypes, CountTypes, KindTypes, FlagTypes, CommitTypes
  <2>5. Acquired' /\ ProcessGone' /\ NotCutOff' /\ Numbered' /\ PatchesKept' /\ BaseBelow'
    BY <2>1 DEF AgentInv, Acquired, ProcessGone, NotCutOff, Numbered, PatchesKept, BaseBelow
  <2>6. MineFound' /\ WorkKept' /\ ResultComplete'
    BY <2>1 DEF AgentInv, MineFound, WorkKept, Safe, ResultComplete
  <2> QED BY <2>4, <2>5, <2>6 DEF AgentInv
<1> QED BY <1>1, <1>2, <1>3, <1>4, <1>5 DEF Next

\* Every commit an agent made is accounted for, in all four ways to call it, with every
\* provider and branch strategy, over any number of iterations and calls
\* (withSandboxLifecycle, syncOut, cleanupWorktree): the types hold, no commit is lost,
\* and the result of a call that ended well has every commit of its last iteration, or
\* their patches are kept.
THEOREM WorkIsAccountedFor == Spec => []WorkAccountedFor
<1>1. AgentInv => WorkAccountedFor
  BY DEF AgentInv, WorkAccountedFor
<1> QED BY <1>1, AgentInit, AgentStep, PTL DEF Spec

\* A call whose agent was cut off by the idle timer starts no other invocation,
\* whatever exit status the killed process has (invokeAgent).
THEOREM TimeoutEnds == Spec => TimeoutIsFinal
<1>1. ASSUME AgentInv, Next, iter' > iter PROVE cut # "idle"
  <2>1. CASE NextIteration
    BY <1>1, <2>1, AgentRunAssumption DEF NextIteration, AgentInv, NotCutOff, Outcomes
  <2>2. CASE CallRun \/ CallInteractive \/ CallWorktreeRun \/ CallWorktreeInteractive
             \/ CallSandboxRun \/ CallSandboxInteractive
    <3>1. iter' = 1 /\ iter \in 1 .. MaxIterations
      BY <1>1, <2>2 DEF CallRun, CallInteractive, CallWorktreeRun, CallWorktreeInteractive,
         CallSandboxRun, CallSandboxInteractive, StartCall, AgentInv, TypeOK
    <3> QED BY <1>1, <3>1, AgentRunAssumption
  <2>3. CASE ~NextIteration /\ ~(CallRun \/ CallInteractive \/ CallWorktreeRun
             \/ CallWorktreeInteractive \/ CallSandboxRun \/ CallSandboxInteractive)
    <3>1. iter' = iter
      BY <1>1, <2>3 DEF Next, Environment, Lifecycle, Race, flow, CloseWorktree, CloseCreatedSandbox,
         CloseHandle, Abort, Line, ChildStarts, ChildEnds, Commit, Edit, Exit, Tick, TimerFires,
         ProcessEnds, TimeoutWins, AbortWins, Decide, Acquire, AcquireFails, StartFails, Setup,
         SetupFails, StartAgent, StartSession, Launch, PromptFails, CaptureSession, Save, Apply, Merge,
         DeleteBranch, Collect, Release, ReuseSandbox, Remove, ReturnRun, ReturnInteractive,
         ReturnWorktreeRun, ReturnWorktreeInteractive, ReturnSandbox, Return
    <3>2. iter \in Int
      BY <1>1, AgentRunAssumption DEF AgentInv, TypeOK
    <3> QED BY <1>1, <3>1, <3>2
  <2> QED BY <2>1, <2>2, <2>3
<1>2. AgentInv /\ [Next]_vars => [iter' > iter => cut # "idle"]_vars
  BY <1>1
<1>3. TimeoutIsFinal <=> [][iter' > iter => cut # "idle"]_vars
  BY DEF TimeoutIsFinal
<1> QED BY <1>2, <1>3, AgentInit, AgentStep, PTL DEF Spec

-----------------------------------------------------------------------------
(* HubFlow: the parts of its invariant                                     *)

\* What the variables hold.
Pcs == {"off", "detecting", "recovering", "planning", "planned", "working", "settling",
        "entering", "merging", "closing", "ended", "dead"}

\* The steps of a task before its implementation is logged, and behind that.
Implementing == {"implement", "implementer", "implemented", "already", "failing"}
Recording    == {"implementedLogged", "alreadyLogged"}
Reviewing    == {"review", "reviewer", "reviewed", "reviewedLogged", "failingReview", "alreadyClosing"}
StepNames    == {"none", "selected", "gated", "resume", "ok", "bad"}
                  \cup Implementing \cup Recording \cup Reviewing
Results      == {"none", "enter", "merging", "landed", "merged", "pending", "bad"}

\* A phase-completion event names the status it leads to; a review needs a reviewer.
Events == [status : {"none", "reviewing", "waiting_for_merge"}, batch : 0 .. NBatches]

BoardShape ==
    /\ status \in [Task -> Status] /\ claim \in [Task -> Claims]
    /\ closeBad \in [Task -> BOOLEAN] /\ unmerged \in [Task -> BOOLEAN]
    /\ landed \in [Task -> BOOLEAN] /\ receipt \in [Task -> BOOLEAN]
    /\ lease \in [Task -> 0 .. NRuns]
    /\ fin \in [Task -> {"none", "implemented", "reviewed"}]
    /\ oldEvent \in [Task -> BOOLEAN] /\ moved \in [Task -> BOOLEAN]
    /\ rehomed \in [Task -> BOOLEAN] /\ stolen \in [Task -> BOOLEAN]

RunShape ==
    /\ log \in [Run -> [Task -> Events]]
    /\ plannedBy \in [Batch -> 0 .. NRuns] /\ nextBatch \in 1 .. NBatches + 1
    /\ rank \in [Run -> Run] /\ \A q, r \in Run : rank[q] = rank[r] => q = r
    /\ phase \in [Run -> Pcs] /\ bat \in [Run -> 0 .. NBatches]
    /\ sel \in [Run -> SUBSET Task] /\ remaining \in [Run -> SUBSET Task]
    /\ step \in [Run -> [Task -> StepNames]] /\ held \in [Run -> [Task -> Claims]]
    /\ mres \in [Run -> [Task -> Results]]
    /\ quiet \in [Run -> BOOLEAN]

\* A run is in the phase that what it remembers belongs to.
RunPhases ==
    \A r \in Run :
      /\ phase[r] \notin {"off", "detecting", "recovering", "closing", "ended", "dead"} => bat[r] # 0
      /\ phase[r] \in {"planning", "planned"} => bat[r] < nextBatch /\ plannedBy[bat[r]] = 0
      /\ \A t \in Task :
           /\ step[r][t] # "none" => phase[r] = "working" /\ t \in sel[r]
           /\ step[r][t] \in {"selected", "gated"} => plannedBy[bat[r]] = r
           /\ step[r][t] = "resume" => HasReviewer
           /\ mres[r][t] # "none" => phase[r] \in {"entering", "merging"}
           /\ phase[r] = "entering" /\ t \in remaining[r] => mres[r][t] = "enter"
           /\ step[r][t] \in Implementing \cup Recording \cup Reviewing \/ mres[r][t] # "none"
                => held[r][t] # NoClaim

\* Batch ids are handed out once.
BatchesUnique ==
    /\ \A b \in Batch : b >= nextBatch => plannedBy[b] = 0
    /\ \A q, r \in Run : phase[q] \in {"planning", "planned"} /\ phase[r] \in {"planning", "planned"} =>
         q = r \/ bat[q] # bat[r]

\* A claim names the run that planned its batch, unless a resumed review took it over.
ClaimsPlanned ==
    /\ \A t \in Task : claim[t] # NoClaim => plannedBy[claim[t].batch] = claim[t].run \/ rehomed[t]
    /\ \A r \in Run, t \in Task :
         held[r][t] # NoClaim => plannedBy[held[r][t].batch] = held[r][t].run \/ rehomed[t]

\* The board: claims belong to the statuses a run works in.
ClaimsShown ==
    \A t \in Task :
      /\ claim[t] # NoClaim => status[t] \in ClaimPreserving
      /\ status[t] \in ClaimActive => claim[t] # NoClaim
      /\ status[t] = "reviewing" => HasReviewer
      /\ \A r \in Run : log[r][t].status = "reviewing" => HasReviewer

Leases == \A t \in Task : lease[t] # 0 => step[lease[t]][t] \in {"implementer", "reviewer"}

HasEvent(t) == \E r \in Run : log[r][t] # NoEvent
Excused(t)  == oldEvent[t] \/ moved[t] \/ stolen[t]
Started(t)  == HasEvent(t) \/ Excused(t)
Finished(t) == fin[t] = "reviewed" \/ (~HasReviewer /\ fin[t] = "implemented")

\* An event is one of the current attempt, or excused.
EventsCurrent ==
    \A t \in Task :
      /\ fin[t] # "none" => HasEvent(t)
      /\ HasEvent(t) /\ ~Excused(t) => fin[t] # "none"
      /\ \A r \in Run : (log[r][t].status = "none") <=> (log[r][t] = NoEvent)

\* Behind the implementation there is an event.
StartedFirst ==
    \A t \in Task :
      /\ receipt[t] \/ status[t] \in {"reviewing", "waiting_for_merge", "merging"} => Started(t)
      /\ \A r \in Run :
           step[r][t] \in Recording \cup Reviewing \cup {"resume"} \/ mres[r][t] # "none"
             => Started(t)

\* Until it is logged, an implementation is alone with its task.
OneImplements ==
    \A r \in Run, t \in Task :
      step[r][t] \in Implementing /\ ~Excused(t) =>
        /\ ~HasEvent(t)
        /\ status[t] = "implementing"
        /\ \A q \in Run : step[q][t] \in Implementing => q = r

\* What is shown, logged or selected as ready to merge has finished its phases.
ReadyFinished ==
    \A t \in Task :
      \/ Finished(t) \/ Excused(t)
      \/ /\ status[t] \notin {"waiting_for_merge", "merging"}
         /\ \A r \in Run :
              /\ log[r][t].status # "waiting_for_merge"
              /\ step[r][t] \notin {"reviewedLogged", "alreadyLogged", "alreadyClosing"}
              /\ ~HasReviewer => step[r][t] # "implementedLogged"
              /\ mres[r][t] = "none"

\* What is closed has landed.
ClosedLanded ==
    \A t \in Task :
      /\ status[t] = "done" \/ receipt[t] => landed[t]
      /\ \A r \in Run :
           step[r][t] \in {"already", "alreadyLogged", "alreadyClosing"} \/ mres[r][t] = "landed"
             => landed[t]

\* Runs start one after the other, and a quiet run is alone.
Alone ==
    /\ \A q, r \in Run : q < r /\ phase[r] # "off" => phase[q] # "off"
    /\ \A r \in Run : quiet[r] =>
         /\ phase[r] # "off"
         /\ \A q \in Run : q < r => ~Live(q)
         /\ Live(r) => \A q \in Run : q > r => phase[q] = "off"

\* Every task a run works on belongs to a step of the run that is alone.
Accounted ==
    \A r \in Run, t \in Task : quiet[r] /\ Live(r) /\ status[t] \in {"implementing", "merging"} =>
      \/ phase[r] = "detecting"
      \/ phase[r] = "recovering" /\ t \in remaining[r]
      \/ status[t] = "implementing" /\ step[r][t] \in Implementing \cup Recording
      \/ status[t] = "merging" /\ mres[r][t] \in {"merging", "landed"}

\* After it nothing is left half-way.
Quieted ==
    \A r \in Run : LastQuietRun(r) =>
      \A t \in Task : ~receipt[t] /\ status[t] \notin {"implementing", "merging"}

FlowInv ==
    /\ BoardShape /\ RunShape /\ RunPhases /\ BatchesUnique /\ ClaimsPlanned /\ ClaimsShown
    /\ Leases /\ EventsCurrent /\ StartedFirst /\ OneImplements /\ ReadyFinished
    /\ ClosedLanded /\ Alone /\ Accounted /\ Quieted

-----------------------------------------------------------------------------
(* The event log *)

\* A set of natural numbers that is not empty has a least element.
LEMMA LeastNat ==
    ASSUME NEW T, T \subseteq Nat, T # {} PROVE \E x \in T : \A y \in T : x <= y
<1>1. OpToRel(<, Nat) = {ss \in Nat \X Nat : ss[1] < ss[2]}
  BY Zenon DEF OpToRel
<1>2. \E x \in T : \A y \in T : ~ (<<y, x>> \in OpToRel(<, Nat))
  BY NatLessThanWellFounded, WFMin
<1>3. ASSUME NEW x \in T, NEW y \in T, y < x
      PROVE  <<y, x>> \in {ss \in Nat \X Nat : ss[1] < ss[2]}
  <2>1. <<y, x>> \in Nat \X Nat
    OBVIOUS
  <2>2. <<y, x>>[1] < <<y, x>>[2]
    BY <1>3
  <2> QED BY <2>1, <2>2, Zenon
<1>4. \E x \in T : \A y \in T : ~ (y < x)
  BY <1>1, <1>2, <1>3, Zenon
<1> QED BY <1>4

\* The last run of a set of runs, in the order of their directories.
LEMMA LastRun ==
    ASSUME RunShape, NEW R \in SUBSET Run, R # {}
    PROVE  LastInOrder(R) \in R
<1> DEFINE D == {NRuns - rank[r] : r \in R}
<1>1. D \subseteq Nat /\ D # {}
  <2>1. \A r \in R : rank[r] \in 1 .. NRuns
    BY DEF RunShape, Run
  <2>2. \A r \in R : NRuns - rank[r] \in Nat
    BY <2>1, FlowAssumption
  <2> QED BY <2>2
<1>2. PICK d \in D : \A e \in D : d <= e
  BY <1>1, LeastNat
<1>3. PICK r \in R : d = NRuns - rank[r]
  BY <1>2
<1>4. \A q \in R : rank[q] <= rank[r]
  <2> SUFFICES ASSUME NEW q \in R PROVE rank[q] <= rank[r]
    OBVIOUS
  <2>1. NRuns - rank[r] <= NRuns - rank[q]
    BY <1>2, <1>3
  <2>2. rank[r] \in 1 .. NRuns /\ rank[q] \in 1 .. NRuns
    BY DEF RunShape, Run
  <2> QED BY <2>1, <2>2, FlowAssumption
<1> QED BY <1>4 DEF LastInOrder

\* The latest event of a task is one of its events, when there is one.
LEMMA LatestIs ==
    ASSUME RunShape, NEW t \in Task
    PROVE  /\ HasEvent(t) => LatestEvent(t) # NoEvent /\ \E r \in Run : LatestEvent(t) = log[r][t]
           /\ ~HasEvent(t) => LatestEvent(t) = NoEvent
<1> DEFINE R == {r \in Run : log[r][t] # NoEvent}
<1>1. HasEvent(t) <=> R # {}
  BY DEF HasEvent
<1>2. R # {} => LastInOrder(R) \in R
  BY LastRun
<1>3. LatestEvent(t) = IF R = {} THEN NoEvent ELSE log[LastInOrder(R)][t]
  BY DEF LatestEvent
<1> QED BY <1>1, <1>2, <1>3

\* Where recovery sends a task.
LEMMA RouteFacts ==
    ASSUME FlowInv, NEW t \in Task
    PROVE  \/ RouteStatus(t) = "ready_for_agent" /\ ~HasEvent(t)
           \/ RouteStatus(t) = "reviewing" /\ HasReviewer /\ HasEvent(t)
           \/ /\ RouteStatus(t) = "waiting_for_merge" /\ HasEvent(t)
              /\ Finished(t) \/ Excused(t)
<1>1. CASE ~HasEvent(t)
  BY <1>1, LatestIs DEF RouteStatus, FlowInv
<1>2. CASE HasEvent(t)
  <2>1. PICK r \in Run : LatestEvent(t) = log[r][t] /\ log[r][t] # NoEvent
    BY <1>2, LatestIs DEF FlowInv
  <2>2. RouteStatus(t) = log[r][t].status /\ log[r][t] \in Events
    BY <2>1 DEF RouteStatus, FlowInv, RunShape
  <2>3. log[r][t].status \in {"reviewing", "waiting_for_merge"}
    BY <2>1, <2>2 DEF FlowInv, EventsCurrent, Events
  <2>4. log[r][t].status = "reviewing" => HasReviewer
    BY DEF FlowInv, ClaimsShown
  <2>5. log[r][t].status = "waiting_for_merge" => Finished(t) \/ Excused(t)
    BY DEF FlowInv, ReadyFinished
  <2> QED BY <1>2, <2>2, <2>3, <2>4, <2>5
<1> QED BY <1>1, <1>2

-----------------------------------------------------------------------------
(* What the steps have in common *)

\* Task t has the status s, with the claim it had or else c.
Shows(t, s, c) ==
    /\ \A u \in Task : status'[u] = IF u = t THEN s ELSE status[u]
    /\ \A u \in Task : u # t => claim'[u] = claim[u]
    /\ s \in ClaimPreserving => claim'[t] = IF claim[t] # NoClaim THEN claim[t] ELSE c
    /\ s \notin ClaimPreserving => claim'[t] = NoClaim

\* Run r is at step s with task t.
Goes(r, t, s) ==
    \A q \in Run, u \in Task : step'[q][u] = IF q = r /\ u = t THEN s ELSE step[q][u]

\* What UpdateStatus does to the board, in the terms of Shows.
LEMMA ShowsIs ==
    ASSUME BoardShape, NEW t \in Task, NEW s \in Status, NEW c \in Claims, UpdateStatus(t, s, c)
    PROVE  /\ status' \in [Task -> Status] /\ claim' \in [Task -> Claims]
           /\ closeBad' \in [Task -> BOOLEAN]
           /\ Shows(t, s, c)
<1>1. status' = [status EXCEPT ![t] = s] /\ closeBad' = [closeBad EXCEPT ![t] = FALSE]
      /\ claim' = [claim EXCEPT ![t] = TransitionClaim(t, s, c)]
  BY DEF UpdateStatus
<1>2. TransitionClaim(t, s, c) \in Claims
  BY DEF TransitionClaim, Claims, BoardShape
<1>3. status' \in [Task -> Status] /\ claim' \in [Task -> Claims]
      /\ closeBad' \in [Task -> BOOLEAN]
  BY <1>1, <1>2 DEF BoardShape
<1>4. \A u \in Task : status'[u] = IF u = t THEN s ELSE status[u]
  BY <1>1 DEF BoardShape
<1>5. \A u \in Task : claim'[u] = IF u = t THEN TransitionClaim(t, s, c) ELSE claim[u]
  BY <1>1 DEF BoardShape
<1> QED BY <1>3, <1>4, <1>5 DEF Shows, TransitionClaim

\* A lease is held by a run.
LEMMA LeaseRun == ASSUME FlowInv PROVE \A t \in Task : lease[t] # 0 => lease[t] \in Run
BY FlowAssumption DEF FlowInv, BoardShape, Run

\* A function of runs and tasks, changed in one place.
LEMMA CellIs ==
    ASSUME NEW S, NEW f \in [Run -> [Task -> S]], NEW r \in Run, NEW t \in Task, NEW s \in S,
           NEW g, g = [f EXCEPT ![r][t] = s]
    PROVE  /\ g \in [Run -> [Task -> S]]
           /\ \A q \in Run, u \in Task : g[q][u] = IF q = r /\ u = t THEN s ELSE f[q][u]
<1>1. g = [f EXCEPT ![r] = [f[r] EXCEPT ![t] = s]]
  OBVIOUS
<1>2. g \in [Run -> [Task -> S]]
  BY <1>1
<1>3. \A q \in Run : q # r => g[q] = f[q]
  BY <1>1
<1>4. \A u \in Task : g[r][u] = IF u = t THEN s ELSE f[r][u]
  BY <1>1
<1> QED BY <1>2, <1>3, <1>4

-----------------------------------------------------------------------------
(* The steps of one task *)

\* The agents of a task come and go: only its step, its lease and its work change.
LEMMA MoveKeeps ==
    ASSUME FlowInv, NEW r \in Run, NEW t \in Task, NEW s \in StepNames,
           phase[r] = "working", step[r][t] # "none",
           step' \in [Run -> [Task -> StepNames]], Goes(r, t, s),
           s \notin {"none", "selected", "resume", "ok", "reviewedLogged", "alreadyLogged",
                     "alreadyClosing", "implementedLogged"},
           s = "gated" => step[r][t] = "selected",
           step[r][t] \in Implementing <=> s \in Implementing,
           s \in Reviewing => step[r][t] \in Reviewing,
           step[r][t] \notin Recording,
           s = "already" => landed[t],
           unmerged' \in [Task -> BOOLEAN], lease' \in [Task -> 0 .. NRuns],
           \A u \in Task : u # t => lease'[u] = lease[u],
           \/ lease'[t] = 0
           \/ lease'[t] = r /\ s \in {"implementer", "reviewer"}
           \/ lease'[t] = lease[t] /\ step[r][t] \notin {"implementer", "reviewer"},
           UNCHANGED <<status, claim, closeBad, landed, receipt, fin, oldEvent, moved, rehomed,
                       stolen, log, plannedBy, nextBatch, rank, phase, bat, sel, remaining, held, mres,
                       quiet>>
    PROVE  FlowInv'
<1>1. UNCHANGED <<status, claim, closeBad, landed, receipt, fin, oldEvent, moved, rehomed,
                  stolen, log, plannedBy, nextBatch, rank, phase, bat, sel, remaining, held, mres, quiet>>
  OBVIOUS
<1>2. \A q \in Run, u \in Task : step'[q][u] = IF q = r /\ u = t THEN s ELSE step[q][u]
  BY DEF Goes
<1>3. BoardShape'
  BY <1>1, <1>2 DEF FlowInv, BoardShape, Status
<1>4. RunShape'
  BY <1>1, <1>2 DEF FlowInv, RunShape, Pcs, StepNames, Results, Implementing, Recording,
     Reviewing
<1>5. RunPhases'
  BY <1>1, <1>2 DEF FlowInv, RunPhases, Implementing, Recording, Reviewing
<1>6. BatchesUnique'
  BY <1>1, <1>2 DEF FlowInv, BatchesUnique
<1>7. ClaimsPlanned'
  BY <1>1, <1>2 DEF FlowInv, ClaimsPlanned
<1>8. ClaimsShown'
  BY <1>1, <1>2 DEF FlowInv, ClaimsShown, ClaimPreserving, ClaimActive
<1>9. Leases'
  BY <1>1, <1>2, LeaseRun DEF FlowInv, Leases
<1>10. EventsCurrent'
  BY <1>1, <1>2 DEF FlowInv, EventsCurrent, HasEvent, Excused
<1>11. StartedFirst'
  BY <1>1, <1>2 DEF FlowInv, StartedFirst, Started, HasEvent, Excused, Implementing, Recording,
     Reviewing
<1>12. OneImplements'
  BY <1>1, <1>2, SMTT(30) DEF FlowInv, OneImplements, HasEvent, Excused, Implementing, Recording,
     Reviewing
<1>13. ReadyFinished'
  BY <1>1, <1>2 DEF FlowInv, ReadyFinished, Finished, Excused
<1>14. ClosedLanded'
  BY <1>1, <1>2 DEF FlowInv, ClosedLanded
<1>15. Alone'
  BY <1>1, <1>2 DEF FlowInv, Alone, Live
<1>16. Accounted'
  BY <1>1, <1>2 DEF FlowInv, Accounted, Live, Implementing, Recording
<1>17. Quieted'
  BY <1>1, <1>2 DEF FlowInv, Quieted, LastQuietRun
<1> QED BY <1>3, <1>4, <1>5, <1>6, <1>7, <1>8, <1>9, <1>10, <1>11, <1>12, <1>13, <1>14, <1>15,
           <1>16, <1>17 DEF FlowInv

\* A success is logged.
LEMMA LogKeeps ==
    ASSUME FlowInv, NEW r \in Run, NEW t \in Task, NEW s \in StepNames, NEW e \in Events,
           NEW f \in {"implemented", "reviewed"}, phase[r] = "working",
           step' \in [Run -> [Task -> StepNames]], Goes(r, t, s),
           log' \in [Run -> [Task -> Events]],
           \A q \in Run, u \in Task : log'[q][u] = IF q = r /\ u = t THEN e ELSE log[q][u],
           fin' = [fin EXCEPT ![t] = f],
           \/ /\ step[r][t] = "implemented" /\ s = "implementedLogged"
              /\ e.status = PostImplementation /\ f = "implemented"
           \/ /\ step[r][t] = "reviewed" /\ s = "reviewedLogged"
              /\ e.status = "waiting_for_merge" /\ f = "reviewed"
           \/ /\ step[r][t] = "already" /\ s = "alreadyLogged"
              /\ e.status = "waiting_for_merge" /\ f = "reviewed",
           UNCHANGED <<status, claim, closeBad, unmerged, landed, receipt, lease, oldEvent, moved,
                       rehomed, stolen, plannedBy, nextBatch, rank, phase, bat, sel, remaining, held, mres,
                       quiet>>
    PROVE  FlowInv'
<1>1. UNCHANGED <<status, claim, closeBad, unmerged, landed, receipt, lease, oldEvent, moved,
                  rehomed, stolen, plannedBy, nextBatch, rank, phase, bat, sel, remaining, held, mres,
                  quiet>>
  OBVIOUS
<1>2. \A q \in Run, u \in Task : step'[q][u] = IF q = r /\ u = t THEN s ELSE step[q][u]
  BY DEF Goes
<1>3. \A u \in Task : fin'[u] = IF u = t THEN f ELSE fin[u]
  BY DEF FlowInv, BoardShape
<1>4. e # NoEvent /\ e.status # "none"
      /\ e.status = IF HasReviewer /\ f = "implemented" THEN "reviewing" ELSE "waiting_for_merge"
  BY DEF NoEvent, PostImplementation
<1>5. HasEvent(t)' /\ (Excused(t)' <=> Excused(t))
      /\ \A u \in Task : u # t => (HasEvent(u)' <=> HasEvent(u)) /\ (Excused(u)' <=> Excused(u))
  BY <1>1, <1>4 DEF HasEvent, Excused
<1>6. (\E q \in Run : step[q][t] \in Implementing) /\ ~Excused(t) => ~HasEvent(t) /\ fin[t] = "none"
  BY DEF FlowInv, OneImplements, EventsCurrent
<1>7. BoardShape'
  BY <1>1, <1>2 DEF FlowInv, BoardShape, Status
<1>8. RunShape'
  BY <1>1, <1>2 DEF FlowInv, RunShape, Pcs, StepNames, Results, Implementing, Recording,
     Reviewing
<1>9. RunPhases'
  BY <1>1, <1>2, SMTT(30) DEF FlowInv, RunPhases, Implementing, Recording, Reviewing
<1>10. BatchesUnique'
  BY <1>1, <1>2 DEF FlowInv, BatchesUnique
<1>11. ClaimsPlanned'
  BY <1>1, <1>2 DEF FlowInv, ClaimsPlanned
<1>12. ClaimsShown'
  BY <1>1, <1>2, <1>4 DEF FlowInv, ClaimsShown, ClaimPreserving, ClaimActive
<1>13. Leases'
  BY <1>1, <1>2, LeaseRun DEF FlowInv, Leases
<1>14. EventsCurrent'
  BY <1>1, <1>3, <1>4, <1>5 DEF FlowInv, EventsCurrent
<1>15. StartedFirst'
  <2>1. Started(t)' /\ \A u \in Task : Started(u) => Started(u)'
    BY <1>5 DEF Started
  <2>2. \A q \in Run, u \in Task : u = t \/ step'[q][u] = step[q][u]
    BY <1>2
  <2> QED BY <1>1, <2>1, <2>2 DEF FlowInv, StartedFirst
<1>16. OneImplements'
  <2> SUFFICES ASSUME NEW q \in Run, NEW u \in Task, step'[q][u] \in Implementing, ~Excused(u)'
               PROVE  /\ ~HasEvent(u)' /\ status'[u] = "implementing"
                      /\ \A p \in Run : step'[p][u] \in Implementing => p = q
    BY DEF OneImplements
  <2>1. step[q][u] \in Implementing /\ ~Excused(u) /\ (u = t => q # r)
    BY <1>2, <1>5 DEF Implementing
  <2>2. /\ ~HasEvent(u) /\ status[u] = "implementing"
        /\ \A p \in Run : step[p][u] \in Implementing => p = q
    BY <2>1 DEF FlowInv, OneImplements
  <2>3. u # t
    BY <2>1, <2>2 DEF FlowInv, StartedFirst, Started, Implementing, Reviewing
  <2> QED BY <1>1, <1>2, <1>5, <2>2, <2>3
<1>17. ReadyFinished'
  BY <1>1, <1>2, <1>3, <1>4, <1>5, <1>6, SMTT(30) DEF FlowInv, ReadyFinished, Finished,
     Implementing
<1>18. ClosedLanded'
  BY <1>1, <1>2 DEF FlowInv, ClosedLanded
<1>19. Alone'
  BY <1>1, <1>2 DEF FlowInv, Alone, Live
<1>20. Accounted'
  BY <1>1, <1>2 DEF FlowInv, Accounted, Live, Implementing, Recording
<1>21. Quieted'
  BY <1>1, <1>2 DEF FlowInv, Quieted, LastQuietRun
<1> QED BY <1>7, <1>8, <1>9, <1>10, <1>11, <1>12, <1>13, <1>14, <1>15, <1>16, <1>17, <1>18,
           <1>19, <1>20, <1>21 DEF FlowInv

\* The board follows.
LEMMA ShowKeeps ==
    ASSUME FlowInv, NEW r \in Run, NEW t \in Task, NEW s \in StepNames, NEW x \in Status,
           phase[r] = "working", step' \in [Run -> [Task -> StepNames]], Goes(r, t, s),
           UpdateStatus(t, x, held[r][t]),
           \/ step[r][t] = "implementedLogged" /\ s = "review" /\ x = "reviewing" /\ HasReviewer
           \/ step[r][t] = "implementedLogged" /\ s = "ok" /\ x = "waiting_for_merge" /\ ~HasReviewer
           \/ step[r][t] = "reviewedLogged" /\ s = "ok" /\ x = "waiting_for_merge"
           \/ step[r][t] = "alreadyLogged" /\ s = "alreadyClosing" /\ x = "waiting_for_merge"
           \/ step[r][t] = "alreadyClosing" /\ s = "ok" /\ x = "done"
           \/ step[r][t] \in {"failing", "failingReview"} /\ s = "bad" /\ x = "failed",
           UNCHANGED <<unmerged, landed, receipt, lease, fin, oldEvent, moved, rehomed, stolen,
                       log,
                       plannedBy, nextBatch, rank, phase, bat, sel, remaining, held, mres, quiet>>
    PROVE  FlowInv'
<1>1. UNCHANGED <<unmerged, landed, receipt, lease, fin, oldEvent, moved, rehomed, stolen, log,
                  plannedBy, nextBatch, rank, phase, bat, sel, remaining, held, mres, quiet>>
  OBVIOUS
<1>2. \A q \in Run, u \in Task : step'[q][u] = IF q = r /\ u = t THEN s ELSE step[q][u]
  BY DEF Goes
<1>3. held[r][t] \in Claims /\ held[r][t] # NoClaim
  BY DEF FlowInv, RunShape, RunPhases, Implementing, Recording, Reviewing
<1>4. /\ status' \in [Task -> Status] /\ claim' \in [Task -> Claims]
      /\ closeBad' \in [Task -> BOOLEAN] /\ Shows(t, x, held[r][t])
  BY <1>3, ShowsIs DEF FlowInv
<1>5. \A u \in Task : status'[u] = IF u = t THEN x ELSE status[u]
  BY <1>4 DEF Shows
<1>6. /\ \A u \in Task : u # t => claim'[u] = claim[u]
      /\ claim'[t] \in {claim[t], held[r][t], NoClaim}
      /\ claim'[t] # NoClaim <=> x \in ClaimPreserving
  BY <1>3, <1>4 DEF Shows
<1>7. x \in {"reviewing", "waiting_for_merge", "done", "failed"}
      /\ (x = "reviewing" => HasReviewer) /\ (x = "done" => step[r][t] = "alreadyClosing")
  OBVIOUS
<1>8. step[r][t] \in {"failing"} \cup Recording \cup Reviewing /\ s \notin Implementing \cup Recording
      /\ s \notin {"none", "selected", "gated", "resume", "implementer", "reviewer", "reviewedLogged"}
      /\ (x \in {"reviewing", "waiting_for_merge"} => step[r][t] \in Recording \cup Reviewing)
      /\ (s \in Reviewing => step[r][t] \in Recording \cup Reviewing)
  BY DEF Recording, Reviewing, Implementing
<1>9. \A u \in Task : /\ HasEvent(u)' <=> HasEvent(u)
                      /\ Excused(u)' <=> Excused(u)
                      /\ Started(u)' <=> Started(u)
                      /\ Finished(u)' <=> Finished(u)
  BY <1>1 DEF HasEvent, Excused, Started, Finished
<1>10. BoardShape'
  BY <1>1, <1>4 DEF FlowInv, BoardShape
<1>11. RunShape'
  BY <1>1 DEF FlowInv, RunShape
<1>12. RunPhases'
  BY <1>1, <1>2, <1>5, <1>6, <1>7, <1>8 DEF FlowInv, RunPhases, Implementing, Recording,
     Reviewing
<1>13. BatchesUnique'
  BY <1>1 DEF FlowInv, BatchesUnique
<1>14. ClaimsPlanned'
  BY <1>1, <1>3, <1>6 DEF FlowInv, ClaimsPlanned
<1>15. ClaimsShown'
  BY <1>1, <1>2, <1>5, <1>6, <1>7, <1>8 DEF FlowInv, ClaimsShown, ClaimPreserving, ClaimActive
<1>16. Leases'
  BY <1>1, <1>2, LeaseRun DEF FlowInv, Leases, Reviewing, Recording
<1>17. EventsCurrent'
  BY <1>1, <1>9 DEF FlowInv, EventsCurrent
<1>18. StartedFirst'
  BY <1>1, <1>2, <1>5, <1>7, <1>8, <1>9 DEF FlowInv, StartedFirst
<1>19. OneImplements'
  BY <1>1, <1>2, <1>5, <1>8, <1>9 DEF FlowInv, OneImplements, StartedFirst, Started, Implementing
<1>20. ReadyFinished'
  BY <1>1, <1>2, <1>5, <1>9 DEF FlowInv, ReadyFinished
<1>21. ClosedLanded'
  BY <1>1, <1>2, <1>5, <1>7 DEF FlowInv, ClosedLanded
<1>22. Alone'
  BY <1>1 DEF FlowInv, Alone, Live
<1>23. Accounted'
  BY <1>1, <1>2, <1>5, <1>7, <1>8 DEF FlowInv, Accounted, Live
<1>24. Quieted'
  BY <1>1, <1>5, <1>7 DEF FlowInv, Quieted, LastQuietRun
<1> QED BY <1>10, <1>11, <1>12, <1>13, <1>14, <1>15, <1>16, <1>17, <1>18, <1>19, <1>20, <1>21,
           <1>22, <1>23, <1>24 DEF FlowInv

\* A new attempt: what was logged of the task is old from now on.
LEMMA AttemptKeeps ==
    ASSUME FlowInv, NEW r \in Run, NEW t \in Task, At(r, t, "gated"),
           status[t] \notin ClaimActive, UpdateStatus(t, "implementing", OwnClaim(r)),
           held' = [held EXCEPT ![r][t] = OwnClaim(r)], fin' = [fin EXCEPT ![t] = "none"],
           oldEvent' = [oldEvent EXCEPT ![t] = @ \/ LatestEvent(t) # NoEvent],
           Go(r, t, "implement"),
           UNCHANGED <<unmerged, landed, receipt, lease, moved, rehomed, stolen, log, plannedBy,
                       nextBatch, rank, phase, bat, sel, remaining, mres, quiet>>
    PROVE  FlowInv'
<1>1. UNCHANGED <<unmerged, landed, receipt, lease, moved, rehomed, stolen, log, plannedBy,
                  nextBatch, rank, phase, bat, sel, remaining, mres, quiet>>
  OBVIOUS
<1>2. /\ step' \in [Run -> [Task -> StepNames]]
      /\ \A q \in Run, u \in Task : step'[q][u] = IF q = r /\ u = t THEN "implement" ELSE step[q][u]
  <2>1. step \in [Run -> [Task -> StepNames]] /\ "implement" \in StepNames
    BY DEF FlowInv, RunShape, StepNames, Implementing
  <2>2. step' = [step EXCEPT ![r][t] = "implement"]
    BY DEF Go
  <2> QED BY <2>1, <2>2, CellIs
<1>3. phase[r] = "working" /\ step[r][t] = "gated" /\ plannedBy[bat[r]] = r /\ bat[r] \in Batch
  <2>1. phase[r] = "working" /\ step[r][t] = "gated"
    BY DEF At
  <2>2. bat[r] # 0 /\ plannedBy[bat[r]] = r
    BY <2>1 DEF FlowInv, RunPhases
  <2>3. bat[r] \in 0 .. NBatches
    BY DEF FlowInv, RunShape
  <2> QED BY <2>1, <2>2, <2>3, FlowAssumption DEF Batch
<1>4. OwnClaim(r) \in Claims /\ OwnClaim(r) # NoClaim
      /\ plannedBy[OwnClaim(r).batch] = OwnClaim(r).run
  BY <1>3 DEF OwnClaim, Claims, NoClaim, Run
<1>5. /\ held' \in [Run -> [Task -> Claims]]
      /\ \A q \in Run, u \in Task : held'[q][u] = IF q = r /\ u = t THEN OwnClaim(r) ELSE held[q][u]
  BY <1>4, CellIs DEF FlowInv, RunShape
<1>6. /\ status' \in [Task -> Status] /\ claim' \in [Task -> Claims]
      /\ closeBad' \in [Task -> BOOLEAN] /\ Shows(t, "implementing", OwnClaim(r))
  BY <1>4, ShowsIs DEF FlowInv, Status
<1>7. /\ \A u \in Task : status'[u] = IF u = t THEN "implementing" ELSE status[u]
      /\ \A u \in Task : u # t => claim'[u] = claim[u]
      /\ claim'[t] \in {claim[t], OwnClaim(r)} /\ claim'[t] # NoClaim
  BY <1>4, <1>6 DEF Shows, ClaimPreserving
<1>8. /\ fin' \in [Task -> {"none", "implemented", "reviewed"}]
      /\ \A u \in Task : fin'[u] = IF u = t THEN "none" ELSE fin[u]
  BY DEF FlowInv, BoardShape
<1>9. /\ oldEvent' \in [Task -> BOOLEAN]
      /\ \A u \in Task : u # t => oldEvent'[u] = oldEvent[u]
      /\ oldEvent[t] => oldEvent'[t]
      /\ HasEvent(t) => oldEvent'[t]
  <2>1. oldEvent \in [Task -> BOOLEAN]
    BY DEF FlowInv, BoardShape
  <2>2. HasEvent(t) => LatestEvent(t) # NoEvent
    BY LatestIs DEF FlowInv
  <2> QED BY <2>1, <2>2
<1>10. /\ \A u \in Task : HasEvent(u)' <=> HasEvent(u)
       /\ \A u \in Task : u # t => (Excused(u)' <=> Excused(u)) /\ (Finished(u)' <=> Finished(u))
       /\ Excused(t) \/ HasEvent(t) => Excused(t)'
       /\ \A u \in Task : Started(u) => Started(u)'
       /\ Started(t)' => Excused(t)'
  BY <1>1, <1>8, <1>9 DEF HasEvent, Excused, Started, Finished
<1>11. \A p \in Run : ~LastQuietRun(p) /\ (quiet[p] /\ Live(p) => p = r)
  BY <1>3, FlowAssumption DEF FlowInv, Alone, Live, LastQuietRun, Run
<1>12. BoardShape'
  BY <1>1, <1>2, <1>6, <1>8, <1>9 DEF FlowInv, BoardShape, Status
<1>13. RunShape'
  BY <1>1, <1>2, <1>5 DEF FlowInv, RunShape, Pcs, StepNames, Results, Implementing, Recording,
     Reviewing
<1>14. RunPhases'
  BY <1>1, <1>2, <1>3, <1>4, <1>5, SMTT(30) DEF FlowInv, RunPhases, Implementing, Recording,
     Reviewing
<1>15. BatchesUnique'
  BY <1>1, <1>2 DEF FlowInv, BatchesUnique
<1>16. ClaimsPlanned'
  BY <1>1, <1>4, <1>5, <1>7 DEF FlowInv, ClaimsPlanned
<1>17. ClaimsShown'
  BY <1>1, <1>2, <1>7 DEF FlowInv, ClaimsShown, ClaimPreserving, ClaimActive
<1>18. Leases'
  BY <1>1, <1>2, <1>3, LeaseRun DEF FlowInv, Leases
<1>19. EventsCurrent'
  BY <1>1, <1>8, <1>10 DEF FlowInv, EventsCurrent
<1>20. StartedFirst'
  BY <1>1, <1>2, <1>7, <1>10 DEF FlowInv, StartedFirst, Implementing, Recording, Reviewing
<1>21. OneImplements'
  <2> SUFFICES ASSUME NEW q \in Run, NEW u \in Task, step'[q][u] \in Implementing, ~Excused(u)'
               PROVE  /\ ~HasEvent(u)' /\ status'[u] = "implementing"
                      /\ \A p \in Run : step'[p][u] \in Implementing => p = q
    BY DEF OneImplements
  <2>1. CASE u = t
    <3>1. ~Excused(t) /\ ~HasEvent(t)
      BY <2>1, <1>10
    <3>2. \A p \in Run : step[p][t] \notin Implementing
      BY <3>1 DEF FlowInv, OneImplements, ClaimActive
    <3>3. \A p \in Run : step'[p][t] \in Implementing <=> p = r
      BY <3>2, <1>2 DEF Implementing
    <3> QED BY <2>1, <3>1, <3>3, <1>7, <1>10
  <2>2. CASE u # t
    <3>1. \A p \in Run : step'[p][u] = step[p][u]
      BY <2>2, <1>2
    <3> QED BY <2>2, <3>1, <1>7, <1>10 DEF FlowInv, OneImplements
  <2> QED BY <2>1, <2>2
<1>22. ReadyFinished'
  <2> SUFFICES ASSUME NEW u \in Task, ~Excused(u)', ~Finished(u)'
               PROVE  /\ status'[u] \notin {"waiting_for_merge", "merging"}
                      /\ \A q \in Run :
                           /\ log'[q][u].status # "waiting_for_merge"
                           /\ step'[q][u] \notin {"reviewedLogged", "alreadyLogged", "alreadyClosing"}
                           /\ ~HasReviewer => step'[q][u] # "implementedLogged"
                           /\ mres'[q][u] = "none"
    BY DEF ReadyFinished
  <2>1. CASE u = t
    <3>1. ~Excused(t) /\ ~HasEvent(t)
      BY <2>1, <1>10
    <3>2. ~Started(t) /\ \A q \in Run : log[q][t].status = "none"
      BY <3>1 DEF Started, HasEvent, FlowInv, EventsCurrent
    <3> QED BY <2>1, <3>2, <1>1, <1>2, <1>7 DEF FlowInv, StartedFirst, Recording, Reviewing
  <2>2. CASE u # t
    BY <2>2, <1>1, <1>2, <1>7, <1>10 DEF FlowInv, ReadyFinished
  <2> QED BY <2>1, <2>2
<1>23. ClosedLanded'
  BY <1>1, <1>2, <1>7 DEF FlowInv, ClosedLanded
<1>24. Alone'
  BY <1>1, <1>2 DEF FlowInv, Alone, Live
<1>25. Accounted'
  BY <1>1, <1>2, <1>7, <1>11 DEF FlowInv, Accounted, Live, Implementing
<1>26. Quieted'
  BY <1>1, <1>11 DEF Quieted, LastQuietRun
<1> QED BY <1>12, <1>13, <1>14, <1>15, <1>16, <1>17, <1>18, <1>19, <1>20, <1>21, <1>22, <1>23,
           <1>24, <1>25, <1>26 DEF FlowInv

\* A resumed review takes over the claim.
LEMMA TakeOverKeeps ==
    ASSUME FlowInv, NEW r \in Run, NEW t \in Task, At(r, t, "resume"),
           status' = [status EXCEPT ![t] = "reviewing"],
           claim' = [claim EXCEPT ![t] = RehomedClaim(r)],
           closeBad' = [closeBad EXCEPT ![t] = FALSE],
           held' = [held EXCEPT ![r][t] = RehomedClaim(r)],
           rehomed' = [rehomed EXCEPT ![t] = TRUE], Go(r, t, "review"),
           UNCHANGED <<unmerged, landed, receipt, lease, fin, oldEvent, moved, stolen, log,
                       plannedBy,
                       nextBatch, rank, phase, bat, sel, remaining, mres, quiet>>
    PROVE  FlowInv'
<1>1. UNCHANGED <<unmerged, landed, receipt, lease, fin, oldEvent, moved, stolen, log, plannedBy,
                  nextBatch, rank, phase, bat, sel, remaining, mres, quiet>>
  OBVIOUS
<1>2. /\ step' \in [Run -> [Task -> StepNames]]
      /\ \A q \in Run, u \in Task : step'[q][u] = IF q = r /\ u = t THEN "review" ELSE step[q][u]
  <2>1. step \in [Run -> [Task -> StepNames]] /\ "review" \in StepNames
    BY DEF FlowInv, RunShape, StepNames, Reviewing
  <2>2. step' = [step EXCEPT ![r][t] = "review"]
    BY DEF Go
  <2> QED BY <2>1, <2>2, CellIs
<1>3. phase[r] = "working" /\ step[r][t] = "resume" /\ HasReviewer /\ bat[r] \in Batch
  <2>1. phase[r] = "working" /\ step[r][t] = "resume"
    BY DEF At
  <2>2. bat[r] # 0 /\ HasReviewer
    BY <2>1 DEF FlowInv, RunPhases
  <2>3. bat[r] \in 0 .. NBatches
    BY DEF FlowInv, RunShape
  <2> QED BY <2>1, <2>2, <2>3, FlowAssumption DEF Batch
<1>4. RehomedClaim(r) \in Claims /\ RehomedClaim(r) # NoClaim
  BY <1>3 DEF RehomedClaim, Claims, NoClaim, Run
<1>5. /\ held' \in [Run -> [Task -> Claims]]
      /\ \A q \in Run, u \in Task : held'[q][u] = IF q = r /\ u = t THEN RehomedClaim(r) ELSE held[q][u]
  BY <1>4, CellIs DEF FlowInv, RunShape
<1>6. /\ status' \in [Task -> Status] /\ claim' \in [Task -> Claims]
      /\ closeBad' \in [Task -> BOOLEAN] /\ rehomed' \in [Task -> BOOLEAN]
  BY <1>4 DEF FlowInv, BoardShape, Status
<1>7. /\ \A u \in Task : status'[u] = IF u = t THEN "reviewing" ELSE status[u]
      /\ \A u \in Task : claim'[u] = IF u = t THEN RehomedClaim(r) ELSE claim[u]
      /\ rehomed'[t] /\ \A u \in Task : u # t => rehomed'[u] = rehomed[u]
  BY DEF FlowInv, BoardShape
<1>8. \A u \in Task : /\ HasEvent(u)' <=> HasEvent(u)
                      /\ Excused(u)' <=> Excused(u)
                      /\ Started(u)' <=> Started(u)
                      /\ Finished(u)' <=> Finished(u)
  BY <1>1 DEF HasEvent, Excused, Started, Finished
<1>9. BoardShape'
  BY <1>1, <1>2, <1>6 DEF FlowInv, BoardShape, Status
<1>10. RunShape'
  BY <1>1, <1>2, <1>5 DEF FlowInv, RunShape, Pcs, StepNames, Results, Implementing, Recording,
     Reviewing
<1>11. RunPhases'
  BY <1>1, <1>2, <1>3, <1>4, <1>5, SMTT(30) DEF FlowInv, RunPhases, Implementing, Recording,
     Reviewing
<1>12. BatchesUnique'
  BY <1>1, <1>2 DEF FlowInv, BatchesUnique
<1>13. ClaimsPlanned'
  BY <1>1, <1>5, <1>7 DEF FlowInv, ClaimsPlanned
<1>14. ClaimsShown'
  BY <1>1, <1>2, <1>3, <1>4, <1>7 DEF FlowInv, ClaimsShown, ClaimPreserving, ClaimActive
<1>15. Leases'
  BY <1>1, <1>2, <1>3, LeaseRun DEF FlowInv, Leases
<1>16. EventsCurrent'
  BY <1>1, <1>8 DEF FlowInv, EventsCurrent
<1>17. StartedFirst'
  BY <1>1, <1>2, <1>3, <1>7, <1>8 DEF FlowInv, StartedFirst, Implementing, Recording, Reviewing
<1>18. OneImplements'
  <2> SUFFICES ASSUME NEW q \in Run, NEW u \in Task, step'[q][u] \in Implementing, ~Excused(u)'
               PROVE  /\ ~HasEvent(u)' /\ status'[u] = "implementing"
                      /\ \A p \in Run : step'[p][u] \in Implementing => p = q
    BY DEF OneImplements
  <2>1. step[q][u] \in Implementing /\ ~Excused(u)
    BY <1>2, <1>8 DEF Implementing
  <2>2. /\ ~HasEvent(u) /\ status[u] = "implementing"
        /\ \A p \in Run : step[p][u] \in Implementing => p = q
    BY <2>1 DEF FlowInv, OneImplements
  <2>3. u # t
    BY <2>1, <2>2, <1>3 DEF FlowInv, StartedFirst, Started
  <2> QED BY <2>1, <2>2, <2>3, <1>1, <1>2, <1>7, <1>8
<1>19. ReadyFinished'
  BY <1>1, <1>2, <1>7, <1>8 DEF FlowInv, ReadyFinished
<1>20. ClosedLanded'
  BY <1>1, <1>2, <1>7 DEF FlowInv, ClosedLanded
<1>21. Alone'
  BY <1>1, <1>2 DEF FlowInv, Alone, Live
<1>22. Accounted'
  BY <1>1, <1>2, <1>3, <1>7 DEF FlowInv, Accounted, Live, Implementing, Recording
<1>23. Quieted'
  BY <1>1, <1>7 DEF FlowInv, Quieted, LastQuietRun
<1> QED BY <1>9, <1>10, <1>11, <1>12, <1>13, <1>14, <1>15, <1>16, <1>17, <1>18, <1>19, <1>20,
           <1>21, <1>22, <1>23 DEF FlowInv

\* What a step of a task says of it.
LEMMA GoesIs ==
    ASSUME FlowInv, NEW r \in Run, NEW t \in Task, NEW s \in StepNames, Go(r, t, s)
    PROVE  step' \in [Run -> [Task -> StepNames]] /\ Goes(r, t, s)
<1>1. step \in [Run -> [Task -> StepNames]]
  BY DEF FlowInv, RunShape
<1>2. step' = [step EXCEPT ![r][t] = s]
  BY DEF Go
<1> QED BY <1>1, <1>2, CellIs DEF Goes

\* The names of the steps, one by one.
LEMMA StepKinds ==
    /\ Implementing \cup Recording \cup Reviewing \subseteq StepNames
    /\ {"none", "selected", "gated", "resume", "ok", "bad"} \subseteq StepNames
BY DEF StepNames

\* A lease that is taken or given back.
LEMMA LeaseIs ==
    ASSUME FlowInv, NEW t \in Task, NEW n \in 0 .. NRuns, lease' = [lease EXCEPT ![t] = n]
    PROVE  /\ lease' \in [Task -> 0 .. NRuns] /\ lease'[t] = n
           /\ \A u \in Task : u # t => lease'[u] = lease[u]
BY DEF FlowInv, BoardShape

\* The gate lets a task pass or not.
LEMMA GateKeeps ==
    ASSUME FlowInv, NEW r \in Run, NEW t \in Task, Gate(r, t)
    PROVE  FlowInv'
<1>1. UNCHANGED <<status, claim, closeBad, landed, receipt, fin, oldEvent, moved, rehomed,
                  stolen, log, plannedBy, nextBatch, rank, phase, bat, sel, remaining, held, mres, quiet>>
  BY DEF Gate, Steps, board
<1>2. PICK s \in {"gated", "bad"} :
        phase[r] = "working" /\ step[r][t] = "selected" /\ Go(r, t, s)
  BY DEF Gate, At
<1>3. s \in StepNames /\ step' \in [Run -> [Task -> StepNames]] /\ Goes(r, t, s)
  BY <1>2, StepKinds, GoesIs DEF Implementing, Reviewing
<1>4. /\ lease' \in [Task -> 0 .. NRuns] /\ \A u \in Task : u # t => lease'[u] = lease[u]
      /\ lease'[t] = lease[t]
  BY DEF Gate, FlowInv, BoardShape
<1>5. unmerged' \in [Task -> BOOLEAN]
  BY DEF Gate, Steps, FlowInv, BoardShape
<1> QED BY <1>1, <1>2, <1>3, <1>4, <1>5, MoveKeeps DEF Implementing, Recording, Reviewing

\* The implementer takes the lease or fails.
LEMMA ImplementerStartsKeeps ==
    ASSUME FlowInv, NEW r \in Run, NEW t \in Task, ImplementerStarts(r, t)
    PROVE  FlowInv'
<1>1. UNCHANGED <<status, claim, closeBad, landed, receipt, fin, oldEvent, moved, rehomed,
                  stolen, log, plannedBy, nextBatch, rank, phase, bat, sel, remaining, held, mres, quiet>>
  BY DEF ImplementerStarts, TakeLease, Steps, board
<1>2. PICK s \in {"implementer", "failing"} :
        phase[r] = "working" /\ step[r][t] = "implement" /\ Go(r, t, s) /\ s = (IF lease[t] = 0 THEN "implementer" ELSE "failing")
  BY DEF ImplementerStarts, TakeLease, At
<1>3. s \in StepNames /\ step' \in [Run -> [Task -> StepNames]] /\ Goes(r, t, s)
  BY <1>2, StepKinds, GoesIs DEF Implementing, Reviewing
<1>4. /\ lease' \in [Task -> 0 .. NRuns] /\ \A u \in Task : u # t => lease'[u] = lease[u]
      /\ \/ s = "implementer" /\ lease'[t] = r
         \/ s = "failing" /\ lease'[t] = lease[t]
  <2>1. CASE lease[t] = 0
    <3>1. lease' = [lease EXCEPT ![t] = r] /\ r \in 0 .. NRuns
      BY <2>1, FlowAssumption DEF ImplementerStarts, TakeLease, Run
    <3> QED BY <2>1, <3>1, <1>2, LeaseIs
  <2>2. CASE lease[t] # 0
    BY <2>2, <1>2 DEF ImplementerStarts, TakeLease, FlowInv, BoardShape
  <2> QED BY <2>1, <2>2
<1>5. unmerged' \in [Task -> BOOLEAN]
  BY DEF ImplementerStarts, Steps, FlowInv, BoardShape
<1> QED BY <1>1, <1>2, <1>3, <1>4, <1>5, MoveKeeps DEF Implementing, Recording, Reviewing

\* So does the reviewer.
LEMMA ReviewerStartsKeeps ==
    ASSUME FlowInv, NEW r \in Run, NEW t \in Task, ReviewerStarts(r, t)
    PROVE  FlowInv'
<1>1. UNCHANGED <<status, claim, closeBad, landed, receipt, fin, oldEvent, moved, rehomed,
                  stolen, log, plannedBy, nextBatch, rank, phase, bat, sel, remaining, held, mres, quiet>>
  BY DEF ReviewerStarts, TakeLease, Steps, board
<1>2. PICK s \in {"reviewer", "failingReview"} :
        phase[r] = "working" /\ step[r][t] = "review" /\ Go(r, t, s) /\ s = (IF lease[t] = 0 THEN "reviewer" ELSE "failingReview")
  BY DEF ReviewerStarts, TakeLease, At
<1>3. s \in StepNames /\ step' \in [Run -> [Task -> StepNames]] /\ Goes(r, t, s)
  BY <1>2, StepKinds, GoesIs DEF Implementing, Reviewing
<1>4. /\ lease' \in [Task -> 0 .. NRuns] /\ \A u \in Task : u # t => lease'[u] = lease[u]
      /\ \/ s = "reviewer" /\ lease'[t] = r
         \/ s = "failingReview" /\ lease'[t] = lease[t]
  <2>1. CASE lease[t] = 0
    <3>1. lease' = [lease EXCEPT ![t] = r] /\ r \in 0 .. NRuns
      BY <2>1, FlowAssumption DEF ReviewerStarts, TakeLease, Run
    <3> QED BY <2>1, <3>1, <1>2, LeaseIs
  <2>2. CASE lease[t] # 0
    BY <2>2, <1>2 DEF ReviewerStarts, TakeLease, FlowInv, BoardShape
  <2> QED BY <2>1, <2>2
<1>5. unmerged' \in [Task -> BOOLEAN]
  BY DEF ReviewerStarts, Steps, FlowInv, BoardShape
<1> QED BY <1>1, <1>2, <1>3, <1>4, <1>5, MoveKeeps DEF Implementing, Recording, Reviewing

\* An agent is started again.
LEMMA RetryKeeps ==
    ASSUME FlowInv, NEW r \in Run, NEW t \in Task, ProviderRetry(r, t)
    PROVE  FlowInv'
<1>1. UNCHANGED <<status, claim, closeBad, landed, receipt, fin, oldEvent, moved, rehomed,
                  stolen, log, plannedBy, nextBatch, rank, phase, bat, sel, remaining, held, mres, quiet>>
  BY DEF ProviderRetry, Steps, board
<1>2. PICK s \in {"implement", "review"} :
        phase[r] = "working" /\ step[r][t] \in {"implementer", "reviewer"} /\ Go(r, t, s) /\ (s = "implement" <=> step[r][t] = "implementer")
  BY DEF ProviderRetry, At
<1>3. s \in StepNames /\ step' \in [Run -> [Task -> StepNames]] /\ Goes(r, t, s)
  BY <1>2, StepKinds, GoesIs DEF Implementing, Reviewing
<1>4. /\ lease' \in [Task -> 0 .. NRuns] /\ \A u \in Task : u # t => lease'[u] = lease[u]
      /\ lease'[t] = 0
  <2>1. lease' = [lease EXCEPT ![t] = 0] /\ 0 \in 0 .. NRuns
    BY FlowAssumption DEF ProviderRetry, ReleaseLease
  <2> QED BY <2>1, LeaseIs
<1>5. unmerged' \in [Task -> BOOLEAN]
  BY DEF ProviderRetry, Steps, FlowInv, BoardShape
<1> QED BY <1>1, <1>2, <1>3, <1>4, <1>5, MoveKeeps DEF Implementing, Recording, Reviewing

\* The reviewer ends.
LEMMA ReviewerKeeps ==
    ASSUME FlowInv, NEW r \in Run, NEW t \in Task, ReviewerEnds(r, t)
    PROVE  FlowInv'
<1>1. UNCHANGED <<status, claim, closeBad, landed, receipt, fin, oldEvent, moved, rehomed,
                  stolen, log, plannedBy, nextBatch, rank, phase, bat, sel, remaining, held, mres, quiet>>
  BY DEF ReviewerEnds, Steps, board
<1>2. PICK s \in {"reviewed", "failingReview"} :
        phase[r] = "working" /\ step[r][t] = "reviewer" /\ Go(r, t, s)
  BY DEF ReviewerEnds, At
<1>3. s \in StepNames /\ step' \in [Run -> [Task -> StepNames]] /\ Goes(r, t, s)
  BY <1>2, StepKinds, GoesIs DEF Implementing, Reviewing
<1>4. /\ lease' \in [Task -> 0 .. NRuns] /\ \A u \in Task : u # t => lease'[u] = lease[u]
      /\ lease'[t] = 0
  <2>1. lease' = [lease EXCEPT ![t] = 0] /\ 0 \in 0 .. NRuns
    BY FlowAssumption DEF ReviewerEnds, ReleaseLease
  <2> QED BY <2>1, LeaseIs
<1>5. unmerged' \in [Task -> BOOLEAN]
  BY DEF ReviewerEnds, Steps, FlowInv, BoardShape
<1> QED BY <1>1, <1>2, <1>3, <1>4, <1>5, MoveKeeps DEF Implementing, Recording, Reviewing

\* The implementer ends; work that was merged before has landed.
LEMMA ImplementerKeeps ==
    ASSUME FlowInv, NEW r \in Run, NEW t \in Task, ImplementerEnds(r, t)
    PROVE  FlowInv'
<1>1. UNCHANGED <<status, claim, closeBad, landed, receipt, fin, oldEvent, moved, rehomed,
                  stolen, log, plannedBy, nextBatch, rank, phase, bat, sel, remaining, held, mres, quiet>>
  BY DEF ImplementerEnds, Steps, board
<1>2. PICK s \in {"implemented", "already", "failing"} :
        phase[r] = "working" /\ step[r][t] = "implementer" /\ Go(r, t, s) /\ (s = "already" => landed[t])
  BY DEF ImplementerEnds, At
<1>3. s \in StepNames /\ step' \in [Run -> [Task -> StepNames]] /\ Goes(r, t, s)
  BY <1>2, StepKinds, GoesIs DEF Implementing, Reviewing
<1>4. /\ lease' \in [Task -> 0 .. NRuns] /\ \A u \in Task : u # t => lease'[u] = lease[u]
      /\ lease'[t] = 0
  <2>1. lease' = [lease EXCEPT ![t] = 0] /\ 0 \in 0 .. NRuns
    BY FlowAssumption DEF ImplementerEnds, ReleaseLease
  <2> QED BY <2>1, LeaseIs
<1>5. unmerged' \in [Task -> BOOLEAN]
  <2>1. PICK w \in {unmerged[t], TRUE} : unmerged' = [unmerged EXCEPT ![t] = w]
    BY DEF ImplementerEnds
  <2> QED BY <2>1 DEF FlowInv, BoardShape
<1> QED BY <1>1, <1>2, <1>3, <1>4, <1>5, MoveKeeps DEF Implementing, Recording, Reviewing

\* A claim is refused, or a new attempt begins.
LEMMA ClaimKeeps ==
    ASSUME FlowInv, NEW r \in Run, NEW t \in Task, Claim(r, t) PROVE FlowInv'
<1>1. CASE status[t] \in ClaimActive
  <2>1. phase[r] = "working" /\ step[r][t] = "gated" /\ Go(r, t, "bad")
    BY <1>1 DEF Claim, At
  <2>2. "bad" \in StepNames /\ step' \in [Run -> [Task -> StepNames]] /\ Goes(r, t, "bad")
    BY <2>1, StepKinds, GoesIs
  <2>3. UNCHANGED <<status, claim, closeBad, landed, receipt, fin, oldEvent, moved, rehomed,
                    stolen, log, plannedBy, nextBatch, rank, phase, bat, sel, remaining, held, mres, quiet>>
    BY <1>1 DEF Claim, Steps, board
  <2>4. UNCHANGED <<unmerged, lease>> /\ unmerged' \in [Task -> BOOLEAN] /\ lease' \in [Task -> 0 .. NRuns]
    BY DEF Claim, Steps, FlowInv, BoardShape
  <2> QED BY <2>1, <2>2, <2>3, <2>4, MoveKeeps DEF Implementing, Recording, Reviewing
<1>2. CASE status[t] \notin ClaimActive
  <2>1. UNCHANGED <<unmerged, landed, receipt, lease, moved, rehomed, stolen, log, plannedBy,
                    nextBatch, rank, phase, bat, sel, remaining, mres, quiet>>
    BY DEF Claim, Steps
  <2>2. /\ At(r, t, "gated") /\ UpdateStatus(t, "implementing", OwnClaim(r))
        /\ held' = [held EXCEPT ![r][t] = OwnClaim(r)] /\ fin' = [fin EXCEPT ![t] = "none"]
        /\ oldEvent' = [oldEvent EXCEPT ![t] = @ \/ LatestEvent(t) # NoEvent]
        /\ Go(r, t, "implement")
    BY <1>2 DEF Claim
  <2> QED BY <1>2, <2>1, <2>2, AttemptKeeps
<1> QED BY <1>1, <1>2

\* A resumed review finds the worktree busy, or takes over the claim.
LEMMA ResumeReviewKeeps ==
    ASSUME FlowInv, NEW r \in Run, NEW t \in Task, ResumeReview(r, t) PROVE FlowInv'
<1>1. CASE lease[t] # 0
  <2>1. phase[r] = "working" /\ step[r][t] = "resume" /\ Go(r, t, "bad")
    BY <1>1 DEF ResumeReview, At
  <2>2. "bad" \in StepNames /\ step' \in [Run -> [Task -> StepNames]] /\ Goes(r, t, "bad")
    BY <2>1, StepKinds, GoesIs
  <2>3. UNCHANGED <<status, claim, closeBad, landed, receipt, fin, oldEvent, moved, rehomed,
                    stolen, log, plannedBy, nextBatch, rank, phase, bat, sel, remaining, held, mres, quiet>>
    BY <1>1 DEF ResumeReview, Steps, board
  <2>4. UNCHANGED <<unmerged, lease>> /\ unmerged' \in [Task -> BOOLEAN] /\ lease' \in [Task -> 0 .. NRuns]
    BY DEF ResumeReview, Steps, FlowInv, BoardShape
  <2> QED BY <2>1, <2>2, <2>3, <2>4, MoveKeeps DEF Implementing, Recording, Reviewing
<1>2. CASE lease[t] = 0
  <2>1. UNCHANGED <<unmerged, landed, receipt, lease, fin, oldEvent, moved, stolen, log,
                    plannedBy,
                    nextBatch, rank, phase, bat, sel, remaining, mres, quiet>>
    BY DEF ResumeReview, Steps
  <2>2. /\ At(r, t, "resume") /\ status' = [status EXCEPT ![t] = "reviewing"]
        /\ claim' = [claim EXCEPT ![t] = RehomedClaim(r)]
        /\ closeBad' = [closeBad EXCEPT ![t] = FALSE]
        /\ held' = [held EXCEPT ![r][t] = RehomedClaim(r)]
        /\ rehomed' = [rehomed EXCEPT ![t] = TRUE] /\ Go(r, t, "review")
    BY <1>2 DEF ResumeReview
  <2> QED BY <2>1, <2>2, TakeOverKeeps
<1> QED BY <1>1, <1>2

\* What is logged.
LEMMA SuccessKeeps ==
    ASSUME FlowInv, NEW r \in Run, NEW t \in Task, NEW s, NEW x, NEW f, LogSuccess(r, t, x, f, s),
           phase[r] = "working",
           \/ /\ step[r][t] = "implemented" /\ s = "implementedLogged"
              /\ x = PostImplementation /\ f = "implemented"
           \/ /\ step[r][t] = "reviewed" /\ s = "reviewedLogged"
              /\ x = "waiting_for_merge" /\ f = "reviewed"
           \/ /\ step[r][t] = "already" /\ s = "alreadyLogged"
              /\ x = "waiting_for_merge" /\ f = "reviewed"
    PROVE  FlowInv'
<1> DEFINE e == [status |-> x, batch |-> bat[r]]
<1>1. UNCHANGED <<status, claim, closeBad, unmerged, landed, receipt, lease, oldEvent, moved,
                  rehomed, stolen, plannedBy, nextBatch, rank, phase, bat, sel, remaining, held, mres,
                  quiet>>
  BY DEF LogSuccess, Steps, board
<1>2. e \in Events /\ e.status = x
  BY DEF Events, PostImplementation, FlowInv, RunShape
<1>3. log' = [log EXCEPT ![r][t] = e] /\ log \in [Run -> [Task -> Events]]
  BY DEF LogSuccess, FlowInv, RunShape
<1>4. /\ log' \in [Run -> [Task -> Events]]
      /\ \A q \in Run, u \in Task : log'[q][u] = IF q = r /\ u = t THEN e ELSE log[q][u]
  BY <1>2, <1>3, CellIs
<1>5. s \in StepNames /\ f \in {"implemented", "reviewed"}
  BY StepKinds DEF Recording, Reviewing
<1>6. step' \in [Run -> [Task -> StepNames]] /\ Goes(r, t, s) /\ fin' = [fin EXCEPT ![t] = f]
  BY <1>5, GoesIs DEF LogSuccess
<1> HIDE DEF e
<1> QED BY <1>1, <1>2, <1>4, <1>5, <1>6, LogKeeps

\* What is shown.
LEMMA ShownKeeps ==
    ASSUME FlowInv, NEW r \in Run, NEW t \in Task, NEW s, NEW x,
           UpdateStatus(t, x, held[r][t]), Go(r, t, s), phase[r] = "working",
           UNCHANGED <<Steps, landed, lease, log, held, faults, fin, oldEvent, rehomed>>,
           \/ step[r][t] = "implementedLogged" /\ s = "review" /\ x = "reviewing" /\ HasReviewer
           \/ step[r][t] = "implementedLogged" /\ s = "ok" /\ x = "waiting_for_merge" /\ ~HasReviewer
           \/ step[r][t] = "reviewedLogged" /\ s = "ok" /\ x = "waiting_for_merge"
           \/ step[r][t] = "alreadyLogged" /\ s = "alreadyClosing" /\ x = "waiting_for_merge"
           \/ step[r][t] = "alreadyClosing" /\ s = "ok" /\ x = "done"
           \/ step[r][t] \in {"failing", "failingReview"} /\ s = "bad" /\ x = "failed"
    PROVE  FlowInv'
<1>1. UNCHANGED <<unmerged, landed, receipt, lease, fin, oldEvent, moved, rehomed, stolen, log,
                  plannedBy, nextBatch, rank, phase, bat, sel, remaining, held, mres, quiet>>
  BY DEF Steps
<1>2. s \in StepNames /\ x \in Status
  BY StepKinds DEF Reviewing, Status
<1>3. step' \in [Run -> [Task -> StepNames]] /\ Goes(r, t, s)
  BY <1>2, GoesIs
<1> QED BY <1>1, <1>2, <1>3, ShowKeeps

\* The implementation and the review of a task.
LEMMA TaskStepKeeps ==
    ASSUME FlowInv, NEW r \in Run, NEW t \in Task, TaskStep(r, t) PROVE FlowInv'
<1>1. CASE Gate(r, t) \/ Claim(r, t) \/ ResumeReview(r, t)
  BY <1>1, GateKeeps, ClaimKeeps, ResumeReviewKeeps
<1>2. CASE ImplementerStarts(r, t) \/ ImplementerEnds(r, t)
  BY <1>2, ImplementerStartsKeeps, ImplementerKeeps
<1>3. CASE ReviewerStarts(r, t) \/ ReviewerEnds(r, t)
  BY <1>3, ReviewerStartsKeeps, ReviewerKeeps
<1>4. CASE ImplementedEvent(r, t)
  BY <1>4, SuccessKeeps DEF ImplementedEvent, At
<1>5. CASE ReviewedEvent(r, t)
  BY <1>5, SuccessKeeps DEF ReviewedEvent, At
<1>6. CASE At(r, t, "already") /\ LogSuccess(r, t, "waiting_for_merge", "reviewed", "alreadyLogged")
  BY <1>6, SuccessKeeps DEF At
<1>7. CASE ImplementedStatus(r, t)
  <2>1. /\ phase[r] = "working" /\ step[r][t] = "implementedLogged"
        /\ UpdateStatus(t, PostImplementation, held[r][t])
        /\ Go(r, t, IF HasReviewer THEN "review" ELSE "ok")
        /\ UNCHANGED <<Steps, landed, lease, log, held, faults, fin, oldEvent, rehomed>>
    BY <1>7 DEF ImplementedStatus, ShowSuccess, At
  <2> QED BY <2>1, ShownKeeps DEF PostImplementation
<1>8. CASE ReviewedStatus(r, t)
  <2>1. /\ phase[r] = "working" /\ step[r][t] = "reviewedLogged"
        /\ UpdateStatus(t, "waiting_for_merge", held[r][t]) /\ Go(r, t, "ok")
        /\ UNCHANGED <<Steps, landed, lease, log, held, faults, fin, oldEvent, rehomed>>
    BY <1>8 DEF ReviewedStatus, ShowSuccess, At
  <2> QED BY <2>1, ShownKeeps
<1>9. CASE At(r, t, "alreadyLogged") /\ ShowSuccess(r, t, "waiting_for_merge", "alreadyClosing")
  <2>1. /\ phase[r] = "working" /\ step[r][t] = "alreadyLogged"
        /\ UpdateStatus(t, "waiting_for_merge", held[r][t]) /\ Go(r, t, "alreadyClosing")
        /\ UNCHANGED <<Steps, landed, lease, log, held, faults, fin, oldEvent, rehomed>>
    BY <1>9 DEF ShowSuccess, At
  <2> QED BY <2>1, ShownKeeps
<1>10. CASE AlreadyMergedCloses(r, t)
  <2>1. /\ phase[r] = "working" /\ step[r][t] = "alreadyClosing" /\ Go(r, t, "ok")
        /\ UNCHANGED <<Steps, landed, lease, log, held, faults, fin, oldEvent, rehomed>>
    BY <1>10 DEF AlreadyMergedCloses, At
  <2>2. UpdateStatus(t, "done", held[r][t])
    BY <1>10 DEF AlreadyMergedCloses, UpdateStatus, TransitionClaim, ClaimPreserving
  <2> QED BY <2>1, <2>2, ShownKeeps
<1>11. CASE ImplementationFails(r, t) \/ ReviewFails(r, t)
  <2>1. /\ phase[r] = "working" /\ step[r][t] \in {"failing", "failingReview"}
        /\ UpdateStatus(t, "failed", held[r][t]) /\ Go(r, t, "bad")
        /\ UNCHANGED <<Steps, landed, lease, log, held, faults, fin, oldEvent, rehomed>>
    BY <1>11 DEF ImplementationFails, ReviewFails, ShowFailure, At
  <2> QED BY <2>1, ShownKeeps
<1> QED BY <1>1, <1>2, <1>3, <1>4, <1>5, <1>6, <1>7, <1>8, <1>9, <1>10, <1>11
        DEF TaskStep, AlreadyMerged, RecordReview

-----------------------------------------------------------------------------
(* The merge phase *)

\* While a run is alive no other one is alone, and no earlier one was the last.
LEMMA LiveAlone ==
    ASSUME FlowInv, NEW r \in Run, Live(r)
    PROVE  \A p \in Run : ~LastQuietRun(p) /\ (quiet[p] /\ Live(p) => p = r)
<1>1. r \in Nat /\ phase[r] \notin {"off", "ended"} /\ \A p \in Run : p \in Nat
  BY FlowAssumption DEF Live, Run
<1>2. ASSUME NEW p \in Run, quiet[p], Live(p) PROVE p = r
  BY <1>1, <1>2 DEF FlowInv, Alone, Live
<1>3. ASSUME NEW p \in Run, LastQuietRun(p) PROVE FALSE
  <2>1. quiet[p] /\ phase[p] = "ended" /\ p # r /\ (r > p => phase[r] = "off")
    BY <1>1, <1>3 DEF LastQuietRun
  <2>2. r < p
    BY <1>1, <2>1
  <2> QED BY <2>1, <2>2 DEF FlowInv, Alone
<1> QED BY <1>2, <1>3

\* A task of the merge phase has a new status and a new result.
LEMMA ResultKeeps ==
    ASSUME FlowInv, NEW r \in Run, NEW t \in Task, NEW x \in Status, NEW m \in Results, NEW c \in Claims,
           NEW p \in {"entering", "merging"},
           phase[r] \in {"entering", "merging"}, phase[r] = "merging" => p = "merging",
           mres[r][t] # "none", m # "none", c # NoClaim,
           /\ status' \in [Task -> Status] /\ claim' \in [Task -> Claims]
           /\ closeBad' \in [Task -> BOOLEAN] /\ Shows(t, x, c),
           c = held[r][t],
           x \in {"merging", "waiting_for_merge", "failed", "blocked", "done"},
           x = "merging" => m = "merging",
           x = "done" => mres[r][t] = "landed",
           mres[r][t] = "enter" => t \in remaining[r],
           m # "landed",
           m # "enter",
           mres' = [mres EXCEPT ![r][t] = m],
           phase' = [phase EXCEPT ![r] = p],
           remaining' \in [Run -> SUBSET Task],
           \A q \in Run : q # r => remaining'[q] = remaining[q],
           remaining'[r] \subseteq remaining[r], t \in remaining'[r] => phase[r] = "merging",
           receipt' \in [Task -> BOOLEAN], \A u \in Task : receipt'[u] => receipt[u],
           UNCHANGED <<unmerged, landed, lease, fin, oldEvent, moved, rehomed, stolen, log,
                       plannedBy,
                       nextBatch, rank, bat, sel, step, held, quiet>>
    PROVE  FlowInv'
<1>1. UNCHANGED <<unmerged, landed, lease, fin, oldEvent, moved, rehomed, stolen, log, plannedBy,
                  nextBatch, rank, bat, sel, step, held, quiet>>
  OBVIOUS
<1>2. /\ mres' \in [Run -> [Task -> Results]]
      /\ \A q \in Run, u \in Task : mres'[q][u] = IF q = r /\ u = t THEN m ELSE mres[q][u]
  BY CellIs DEF FlowInv, RunShape
<1>3. phase' \in [Run -> Pcs] /\ \A q \in Run : phase'[q] = IF q = r THEN p ELSE phase[q]
  BY DEF FlowInv, RunShape, Pcs
<1>4. \A u \in Task : status'[u] = IF u = t THEN x ELSE status[u]
  BY DEF Shows
<1>5. /\ \A u \in Task : u # t => claim'[u] = claim[u]
      /\ claim'[t] \in {claim[t], c, NoClaim} /\ (claim'[t] # NoClaim <=> x \in ClaimPreserving)
  BY DEF Shows
<1>6. \A q \in Run : /\ phase'[q] \in {"planning", "planned"} <=> phase[q] \in {"planning", "planned"}
                     /\ phase'[q] = "working" <=> phase[q] = "working"
                     /\ phase'[q] = "off" <=> phase[q] = "off"
                     /\ phase'[q] = "ended" <=> phase[q] = "ended"
                     /\ Live(q)' <=> Live(q)
  BY <1>3 DEF Live
<1>7. \A u \in Task : /\ HasEvent(u)' <=> HasEvent(u)
                      /\ Excused(u)' <=> Excused(u)
                      /\ Started(u)' <=> Started(u)
                      /\ Finished(u)' <=> Finished(u)
  BY <1>1 DEF HasEvent, Excused, Started, Finished
<1>8. Started(t) /\ (Finished(t) \/ Excused(t)) /\ (Excused(t) \/ \A q \in Run : step[q][t] \notin Implementing)
  <2>1. Started(t)
    BY DEF FlowInv, StartedFirst
  <2>2. Finished(t) \/ Excused(t)
    BY DEF FlowInv, ReadyFinished
  <2> QED BY <2>1, <2>2 DEF Started, FlowInv, OneImplements
<1>9. Live(r) /\ \A q \in Run : ~LastQuietRun(q) /\ (quiet[q] /\ Live(q) => q = r)
  <2>1. Live(r)
    BY DEF Live
  <2> QED BY <2>1, LiveAlone
<1>10. x = "done" => landed[t]
  BY DEF FlowInv, ClosedLanded
<1>11. BoardShape'
  BY <1>1 DEF FlowInv, BoardShape
<1>12. RunShape'
  BY <1>1, <1>2, <1>3 DEF FlowInv, RunShape
<1>13. RunPhases'
  BY <1>1, <1>2, <1>3 DEF FlowInv, RunPhases, Implementing, Recording, Reviewing
<1>14. BatchesUnique'
  BY <1>1, <1>6 DEF FlowInv, BatchesUnique
<1>15. ClaimsPlanned'
  BY <1>1, <1>5 DEF FlowInv, ClaimsPlanned
<1>16. ClaimsShown'
  BY <1>1, <1>4, <1>5 DEF FlowInv, ClaimsShown, ClaimPreserving, ClaimActive
<1>17. Leases'
  BY <1>1 DEF FlowInv, Leases
<1>18. EventsCurrent'
  BY <1>1, <1>7 DEF FlowInv, EventsCurrent
<1>19. StartedFirst'
  BY <1>1, <1>2, <1>4, <1>7, <1>8 DEF FlowInv, StartedFirst
<1>20. OneImplements'
  BY <1>1, <1>4, <1>7, <1>8 DEF FlowInv, OneImplements
<1>21. ReadyFinished'
  BY <1>1, <1>2, <1>4, <1>7, <1>8 DEF FlowInv, ReadyFinished
<1>22. ClosedLanded'
  BY <1>1, <1>2, <1>4, <1>10 DEF FlowInv, ClosedLanded
<1>23. Alone'
  BY <1>1, <1>6 DEF FlowInv, Alone
<1>24. Accounted'
  <2> SUFFICES ASSUME NEW q \in Run, NEW u \in Task, quiet'[q], Live(q)',
                      status'[u] \in {"implementing", "merging"}
               PROVE  \/ phase'[q] = "detecting"
                      \/ phase'[q] = "recovering" /\ u \in remaining'[q]
                      \/ status'[u] = "implementing" /\ step'[q][u] \in Implementing \cup Recording
                      \/ status'[u] = "merging" /\ mres'[q][u] \in {"merging", "landed"}
    BY DEF Accounted
  <2>1. q = r /\ quiet[r] /\ Live(r) /\ phase[r] \notin {"detecting", "recovering"}
    BY <1>1, <1>6, <1>9
  <2>2. CASE u = t
    BY <2>1, <2>2, <1>2, <1>4
  <2>3. CASE u # t
    BY <2>1, <2>3, <1>1, <1>2, <1>4 DEF FlowInv, Accounted
  <2> QED BY <2>2, <2>3
<1>25. Quieted'
  <2>1. \A q \in Run : LastQuietRun(q)' => LastQuietRun(q)
    BY <1>1, <1>6 DEF LastQuietRun
  <2> QED BY <1>9, <2>1 DEF Quieted
<1> QED BY <1>11, <1>12, <1>13, <1>14, <1>15, <1>16, <1>17, <1>18, <1>19, <1>20, <1>21, <1>22,
           <1>23, <1>24, <1>25 DEF FlowInv

\* A candidate lands.
LEMMA LandKeeps ==
    ASSUME FlowInv, NEW r \in Run, NEW t \in Task, Land(r, t) PROVE FlowInv'
<1>1. UNCHANGED <<status, claim, closeBad, lease, fin, oldEvent, moved, rehomed, stolen, log,
                  plannedBy, nextBatch, rank, phase, bat, sel, remaining, step, held, quiet>>
  BY DEF Land, board, ghosts
<1>2. /\ mres' \in [Run -> [Task -> Results]]
      /\ \A q \in Run, u \in Task : mres'[q][u] = IF q = r /\ u = t THEN "landed" ELSE mres[q][u]
  BY CellIs DEF Land, Results, FlowInv, RunShape
<1>3. phase[r] = "merging" /\ mres[r][t] = "merging"
  BY DEF Land, Taken
<1>4. /\ unmerged' \in [Task -> BOOLEAN] /\ landed' \in [Task -> BOOLEAN] /\ receipt' \in [Task -> BOOLEAN]
      /\ landed'[t] /\ \A u \in Task : u # t => landed'[u] = landed[u] /\ receipt'[u] = receipt[u]
  BY DEF Land, FlowInv, BoardShape
<1>5. Live(r) /\ \A q \in Run : ~LastQuietRun(q) /\ (quiet[q] /\ Live(q) => q = r)
  <2>1. Live(r)
    BY <1>3 DEF Live
  <2> QED BY <2>1, LiveAlone
<1>6. \A u \in Task : /\ HasEvent(u)' <=> HasEvent(u)
                      /\ Excused(u)' <=> Excused(u)
                      /\ Started(u)' <=> Started(u)
                      /\ Finished(u)' <=> Finished(u)
  BY <1>1 DEF HasEvent, Excused, Started, Finished
<1>7. BoardShape'
  BY <1>1, <1>2, <1>3, <1>4 DEF FlowInv, BoardShape, Status
<1>8. RunShape'
  BY <1>1, <1>2, <1>3 DEF FlowInv, RunShape, Pcs, StepNames, Results, Implementing, Recording,
     Reviewing
<1>9. RunPhases'
  BY <1>1, <1>2, <1>3 DEF FlowInv, RunPhases, Implementing, Recording, Reviewing
<1>10. BatchesUnique'
  BY <1>1, <1>2, <1>3 DEF FlowInv, BatchesUnique
<1>11. ClaimsPlanned'
  BY <1>1, <1>2, <1>3 DEF FlowInv, ClaimsPlanned
<1>12. ClaimsShown'
  BY <1>1, <1>2, <1>3 DEF FlowInv, ClaimsShown, ClaimPreserving, ClaimActive
<1>13. Leases'
  BY <1>1, <1>2, <1>3 DEF FlowInv, Leases
<1>14. EventsCurrent'
  BY <1>1, <1>6 DEF FlowInv, EventsCurrent
<1>15. StartedFirst'
  BY <1>1, <1>2, <1>3, <1>4, <1>6, SMTT(30) DEF FlowInv, StartedFirst
<1>16. OneImplements'
  BY <1>1, <1>6 DEF FlowInv, OneImplements
<1>17. ReadyFinished'
  BY <1>1, <1>2, <1>3, <1>6 DEF FlowInv, ReadyFinished
<1>18. ClosedLanded'
  BY <1>1, <1>2, <1>3, <1>4 DEF FlowInv, ClosedLanded
<1>19. Alone'
  BY <1>1, <1>2, <1>3 DEF FlowInv, Alone, Live
<1>20. Accounted'
  BY <1>1, <1>2, <1>3 DEF FlowInv, Accounted, Live, Implementing, Recording
<1>21. Quieted'
  BY <1>1, <1>5 DEF Quieted, LastQuietRun
<1> QED BY <1>7, <1>8, <1>9, <1>10, <1>11, <1>12, <1>13, <1>14, <1>15, <1>16, <1>17, <1>18,
           <1>19, <1>20, <1>21 DEF FlowInv

\* The tasks of a batch enter the merge phase.
LEMMA EnterKeeps ==
    ASSUME FlowInv, NEW r \in Run, EnterMergePhase(r) PROVE FlowInv'
<1>1. PICK t \in remaining[r] :
        /\ UpdateStatus(t, "merging", held[r][t])
        /\ remaining' = [remaining EXCEPT ![r] = remaining[r] \ {t}]
        /\ mres' = [mres EXCEPT ![r][t] = "merging"]
        /\ phase' = [phase EXCEPT ![r] = IF remaining[r] = {t} THEN "merging" ELSE phase[r]]
  BY DEF EnterMergePhase
<1>2. phase[r] = "entering" /\ t \in Task
  BY DEF EnterMergePhase, FlowInv, RunShape
<1>3. mres[r][t] = "enter" /\ held[r][t] # NoClaim /\ held[r][t] \in Claims
  BY <1>2 DEF FlowInv, RunPhases, RunShape
<1>4. /\ status' \in [Task -> Status] /\ claim' \in [Task -> Claims]
      /\ closeBad' \in [Task -> BOOLEAN] /\ Shows(t, "merging", held[r][t])
  BY <1>1, <1>2, <1>3, ShowsIs DEF FlowInv, Status
<1>5. PICK p \in {"entering", "merging"} : phase' = [phase EXCEPT ![r] = p]
  BY <1>1, <1>2
<1>6. /\ remaining' \in [Run -> SUBSET Task] /\ \A q \in Run : q # r => remaining'[q] = remaining[q]
      /\ remaining'[r] \subseteq remaining[r] /\ t \notin remaining'[r]
  BY <1>1 DEF FlowInv, RunShape
<1>7. UNCHANGED <<unmerged, landed, receipt, lease, fin, oldEvent, moved, rehomed, stolen, log,
                  plannedBy, nextBatch, rank, bat, sel, step, held, quiet>>
      /\ receipt' \in [Task -> BOOLEAN]
  BY DEF EnterMergePhase, FlowInv, BoardShape
<1>8. "merging" \in Status \cap Results
  BY DEF Status, Results
<1> QED BY <1>1, <1>2, <1>3, <1>4, <1>5, <1>6, <1>7, <1>8, ResultKeeps

\* A merge ends, with or without a landing.
LEMMA OutcomeKeeps ==
    ASSUME FlowInv, NEW r \in Run, NEW t \in Task, NEW x, NEW m,
           phase[r] = "merging", mres[r][t] \in {"merging", "landed"},
           \/ x \in {"waiting_for_merge", "failed", "blocked"} /\ m \in {"pending", "bad"}
           \/ x = "done" /\ m = "merged" /\ mres[r][t] = "landed",
           /\ status' \in [Task -> Status] /\ claim' \in [Task -> Claims]
           /\ closeBad' \in [Task -> BOOLEAN] /\ Shows(t, x, held[r][t]),
           mres' = [mres EXCEPT ![r][t] = m],
           receipt' \in [Task -> BOOLEAN], \A u \in Task : receipt'[u] => receipt[u],
           UNCHANGED MergeSteps
    PROVE  FlowInv'
<1>1. held[r][t] \in Claims /\ held[r][t] # NoClaim
  BY DEF FlowInv, RunShape, RunPhases
<1>2. x \in Status /\ m \in Results \ {"none", "landed", "enter"}
  BY DEF Status, Results
<1>3. phase' = [phase EXCEPT ![r] = "merging"] /\ remaining' \in [Run -> SUBSET Task]
  BY DEF MergeSteps, FlowInv, RunShape
<1>4. UNCHANGED <<unmerged, landed, lease, fin, oldEvent, moved, rehomed, stolen, log, plannedBy,
                  nextBatch, rank, bat, sel, step, held, quiet, remaining>>
  BY DEF MergeSteps
<1>5. "merging" \in {"entering", "merging"}
  OBVIOUS
<1> QED BY <1>1, <1>2, <1>3, <1>4, <1>5, ResultKeeps

\* The steps of the merge.
LEMMA MergeStepKeeps ==
    ASSUME FlowInv, NEW r \in Run, NEW t \in Task, MergeStep(r, t) PROVE FlowInv'
<1>1. CASE Land(r, t)
  BY <1>1, LandKeeps
<1>2. ASSUME NEW x \in {"waiting_for_merge", "failed", "blocked"}, NEW m \in {"pending", "bad"},
             NotLanded(r, t, x, m)
      PROVE  FlowInv'
  <2>1. phase[r] = "merging" /\ mres[r][t] = "merging" /\ mres' = [mres EXCEPT ![r][t] = m]
        /\ UpdateStatus(t, x, held[r][t]) /\ UNCHANGED MergeSteps /\ UNCHANGED receipt
    BY <1>2 DEF NotLanded, Taken
  <2>2. held[r][t] \in Claims /\ x \in Status
    BY DEF FlowInv, RunShape, Status
  <2>3. /\ status' \in [Task -> Status] /\ claim' \in [Task -> Claims]
        /\ closeBad' \in [Task -> BOOLEAN] /\ Shows(t, x, held[r][t])
    BY <2>1, <2>2, ShowsIs DEF FlowInv
  <2>4. receipt' \in [Task -> BOOLEAN]
    BY <2>1 DEF FlowInv, BoardShape
  <2> QED BY <2>1, <2>3, <2>4, OutcomeKeeps
<1>3. CASE CloseLanded(r, t)
  <2>1. phase[r] = "merging" /\ mres[r][t] = "landed" /\ mres' = [mres EXCEPT ![r][t] = "merged"]
        /\ UpdateStatus(t, "done", NoClaim) /\ UNCHANGED MergeSteps
        /\ receipt' = [receipt EXCEPT ![t] = FALSE]
    BY <1>3 DEF CloseLanded
  <2>2. UpdateStatus(t, "done", held[r][t])
    BY <2>1 DEF UpdateStatus, TransitionClaim, ClaimPreserving
  <2>3. held[r][t] \in Claims /\ "done" \in Status
    BY DEF FlowInv, RunShape, Status
  <2>4. /\ status' \in [Task -> Status] /\ claim' \in [Task -> Claims]
        /\ closeBad' \in [Task -> BOOLEAN] /\ Shows(t, "done", held[r][t])
    BY <2>2, <2>3, ShowsIs DEF FlowInv
  <2>5. receipt' \in [Task -> BOOLEAN] /\ \A u \in Task : receipt'[u] => receipt[u]
    BY <2>1 DEF FlowInv, BoardShape
  <2> QED BY <2>1, <2>4, <2>5, OutcomeKeeps
<1>4. CASE CloseFails(r, t)
  <2>1. phase[r] = "merging" /\ mres[r][t] = "landed" /\ mres' = [mres EXCEPT ![r][t] = "bad"]
        /\ UNCHANGED MergeSteps /\ UNCHANGED receipt
        /\ status' = [status EXCEPT ![t] = "failed"]
        /\ claim' = [claim EXCEPT ![t] = TransitionClaim(t, "failed", held[r][t])]
        /\ closeBad' = [closeBad EXCEPT ![t] = TRUE]
    BY <1>4 DEF CloseFails
  <2>2. held[r][t] \in Claims
    BY DEF FlowInv, RunShape
  <2>3. TransitionClaim(t, "failed", held[r][t]) = (IF claim[t] # NoClaim THEN claim[t] ELSE held[r][t])
    BY DEF TransitionClaim, ClaimPreserving
  <2>4. /\ status' \in [Task -> Status] /\ claim' \in [Task -> Claims]
        /\ closeBad' \in [Task -> BOOLEAN]
    BY <2>1, <2>2, <2>3 DEF FlowInv, BoardShape, Status
  <2>5. Shows(t, "failed", held[r][t])
    BY <2>1, <2>3 DEF Shows, FlowInv, BoardShape, ClaimPreserving
  <2>6. receipt' \in [Task -> BOOLEAN]
    BY <2>1 DEF FlowInv, BoardShape
  <2> QED BY <2>1, <2>4, <2>5, <2>6, OutcomeKeeps
<1>5. CASE MergePending(r, t) \/ MergeFails(r, t) \/ RepairExhausted(r, t)
  BY <1>2, <1>5 DEF MergePending, MergeFails, RepairExhausted
<1> QED BY <1>1, <1>3, <1>4, <1>5 DEF MergeStep

-----------------------------------------------------------------------------
(* Recovery, and what the user does *)

\* A task is shown in another status, by recovery or by the user.
LEMMA StatusKeeps ==
    ASSUME FlowInv, NEW t \in Task, NEW x \in Status \ {"implementing", "merging"},
           /\ status' \in [Task -> Status] /\ claim' \in [Task -> Claims]
           /\ closeBad' \in [Task -> BOOLEAN] /\ Shows(t, x, NoClaim),
           /\ landed' \in [Task -> BOOLEAN] /\ stolen' \in [Task -> BOOLEAN]
           /\ moved' \in [Task -> BOOLEAN] /\ remaining' \in [Run -> SUBSET Task],
           \A u \in Task : /\ landed[u] => landed'[u]
                           /\ stolen[u] => stolen'[u]
                           /\ moved[u] => moved'[u],
           \A q \in Run : remaining'[q] \subseteq remaining[q] /\ remaining[q] \subseteq remaining'[q] \cup {t},
           x \in ClaimActive => claim[t] # NoClaim,
           x = "reviewing" => HasReviewer,
           x \in {"reviewing", "waiting_for_merge"} => Started(t)',
           x = "waiting_for_merge" => Finished(t) \/ Excused(t)',
           x = "done" => landed'[t],
           Excused(t)' \/ \A q \in Run : step[q][t] \notin Implementing,
           UNCHANGED <<unmerged, receipt, lease, fin, oldEvent, rehomed, log, plannedBy,
                       nextBatch,
                       rank, phase, bat, sel, step, held, mres, quiet>>
    PROVE  FlowInv'
<1>1. UNCHANGED <<unmerged, receipt, lease, fin, oldEvent, rehomed, log, plannedBy, nextBatch,
                  rank, phase, bat, sel, step, held, mres, quiet>>
  OBVIOUS
<1>2. \A u \in Task : /\ HasEvent(u)' <=> HasEvent(u)
                      /\ Finished(u)' <=> Finished(u)
                      /\ Excused(u) => Excused(u)'
                      /\ Started(u) => Started(u)'
  BY <1>1 DEF HasEvent, Excused, Started, Finished
<1>3. /\ \A u \in Task : status'[u] = IF u = t THEN x ELSE status[u]
      /\ \A u \in Task : u # t => claim'[u] = claim[u]
      /\ claim'[t] \in {claim[t], NoClaim}
      /\ x \in ClaimPreserving => claim'[t] = claim[t]
      /\ x \notin ClaimPreserving => claim'[t] = NoClaim
  BY DEF Shows
<1>4. BoardShape'
  BY <1>1 DEF FlowInv, BoardShape, Status
<1>5. RunShape'
  BY <1>1 DEF FlowInv, RunShape, Pcs, StepNames, Results, Implementing, Recording, Reviewing
<1>6. RunPhases'
  BY <1>1 DEF FlowInv, RunPhases, Implementing, Recording, Reviewing
<1>7. BatchesUnique'
  BY <1>1 DEF FlowInv, BatchesUnique
<1>8. ClaimsPlanned'
  BY <1>1, <1>3 DEF FlowInv, ClaimsPlanned
<1>9. ClaimsShown'
  BY <1>1, <1>3 DEF FlowInv, ClaimsShown, ClaimPreserving, ClaimActive
<1>10. Leases'
  BY <1>1 DEF FlowInv, Leases
<1>11. EventsCurrent'
  BY <1>1, <1>2 DEF FlowInv, EventsCurrent
<1>12. StartedFirst'
  BY <1>1, <1>2, <1>3 DEF FlowInv, StartedFirst
<1>13. OneImplements'
  <2> SUFFICES ASSUME NEW q \in Run, NEW u \in Task, step'[q][u] \in Implementing, ~Excused(u)'
               PROVE  /\ ~HasEvent(u)' /\ status'[u] = "implementing"
                      /\ \A p \in Run : step'[p][u] \in Implementing => p = q
    BY DEF OneImplements
  <2>1. step[q][u] \in Implementing /\ ~Excused(u)
    BY <1>1, <1>2
  <2>2. /\ ~HasEvent(u) /\ status[u] = "implementing"
        /\ \A p \in Run : step[p][u] \in Implementing => p = q
    BY <2>1 DEF FlowInv, OneImplements
  <2>3. u # t
    BY <2>1, <2>2
  <2> QED BY <2>1, <2>2, <2>3, <1>1, <1>2, <1>3
<1>14. ReadyFinished'
  <2> SUFFICES ASSUME NEW u \in Task, ~Finished(u)', ~Excused(u)'
               PROVE  /\ status'[u] \notin {"waiting_for_merge", "merging"}
                      /\ \A q \in Run :
                           /\ log'[q][u].status # "waiting_for_merge"
                           /\ step'[q][u] \notin {"reviewedLogged", "alreadyLogged", "alreadyClosing"}
                           /\ ~HasReviewer => step'[q][u] # "implementedLogged"
                           /\ mres'[q][u] = "none"
    BY DEF ReadyFinished
  <2>1. ~Finished(u) /\ ~Excused(u)
    BY <1>2
  <2> QED BY <2>1, <1>1, <1>3 DEF FlowInv, ReadyFinished
<1>15. ClosedLanded'
  BY <1>1, <1>3 DEF FlowInv, ClosedLanded
<1>16. Alone'
  BY <1>1 DEF FlowInv, Alone, Live
<1>17. Accounted'
  BY <1>1, <1>3 DEF FlowInv, Accounted, Live
<1>18. Quieted'
  BY <1>1, <1>3 DEF FlowInv, Quieted, LastQuietRun
<1> QED BY <1>4, <1>5, <1>6, <1>7, <1>8, <1>9, <1>10, <1>11, <1>12, <1>13, <1>14, <1>15, <1>16,
           <1>17, <1>18 DEF FlowInv

\* Where recovery sends a task.
LEMMA RecoverIs ==
    ASSUME FlowInv, NEW t \in Task, RecoverTask(t)
    PROVE  /\ landed' \in [Task -> BOOLEAN] /\ \A u \in Task : landed[u] => landed'[u]
           /\ \E x \in {"done", "waiting_for_merge", "ready_for_agent", "reviewing"} :
                /\ UpdateStatus(t, x, NoClaim)
                /\ x = "done" => landed'[t]
                /\ x \in ClaimActive => claim[t] # NoClaim
                /\ x = "reviewing" => HasReviewer
                /\ x \in {"reviewing", "waiting_for_merge"} => HasEvent(t) \/ status[t] = "failed"
                /\ x = "waiting_for_merge" => Finished(t) \/ Excused(t) \/ status[t] = "failed"
<1> DEFINE X(x) == /\ UpdateStatus(t, x, NoClaim)
                   /\ x = "done" => landed'[t]
                   /\ x \in ClaimActive => claim[t] # NoClaim
                   /\ x = "reviewing" => HasReviewer
                   /\ x \in {"reviewing", "waiting_for_merge"} => HasEvent(t) \/ status[t] = "failed"
                   /\ x = "waiting_for_merge" => Finished(t) \/ Excused(t) \/ status[t] = "failed"
           G == landed' \in [Task -> BOOLEAN] /\ \A u \in Task : landed[u] => landed'[u]
<1>1. CASE RecoverCloseFailed(t)
  <2>1. G /\ landed'[t]
    BY <1>1 DEF RecoverCloseFailed, FlowInv, BoardShape
  <2>2. X("done")
    BY <1>1, <2>1 DEF RecoverCloseFailed, ClaimActive
  <2> QED BY <2>1, <2>2
<1>2. CASE RecoverGenericFailed(t)
  <2>1. G /\ status[t] = "failed"
    BY <1>2 DEF RecoverGenericFailed, FlowInv, BoardShape
  <2>2. CASE unmerged[t] /\ claim[t] # NoClaim
    <3>1. X("waiting_for_merge")
      BY <1>2, <2>1, <2>2 DEF RecoverGenericFailed
    <3> QED BY <2>1, <3>1
  <2>3. CASE ~(unmerged[t] /\ claim[t] # NoClaim)
    <3>1. X("ready_for_agent")
      BY <1>2, <2>1, <2>3 DEF RecoverGenericFailed, ClaimActive
    <3> QED BY <2>1, <3>1
  <2> QED BY <2>2, <2>3
<1>3. CASE RecoverStale(t)
  <2>1. G /\ status[t] \in InterruptedStatuses /\ UpdateStatus(t, RouteStatus(t), NoClaim)
    BY <1>3 DEF RecoverStale, FlowInv, BoardShape
  <2>2. claim[t] # NoClaim
    BY <2>1 DEF InterruptedStatuses, FlowInv, ClaimsShown, ClaimActive
  <2>3. RouteStatus(t) \in {"waiting_for_merge", "ready_for_agent", "reviewing"} /\ X(RouteStatus(t))
    BY <2>1, <2>2, RouteFacts DEF ClaimActive
  <2> QED BY <2>1, <2>3
<1> QED BY <1>1, <1>2, <1>3 DEF RecoverTask

\* One of the interrupted tasks is recovered.
LEMMA RecoverKeeps ==
    ASSUME FlowInv, NEW r \in Run, RecoverOne(r) PROVE FlowInv'
<1>1. PICK t \in remaining[r] :
        /\ remaining' = [remaining EXCEPT ![r] = remaining[r] \ {t}]
        /\ IF Recoverable(t) THEN RecoverTask(t) ELSE UNCHANGED <<board, landed>>
        /\ stolen' = [stolen EXCEPT ![t] =
             stolen[t] \/ status[t] \notin InterruptedStatuses \/ \E q \in Run : BusyWith(q, t)]
  BY DEF RecoverOne
<1>2. t \in Task
  BY DEF FlowInv, RunShape
<1>3. UNCHANGED <<unmerged, receipt, lease, fin, oldEvent, rehomed, log, plannedBy, nextBatch,
                  rank, phase, bat, sel, step, held, mres, quiet>> /\ UNCHANGED moved
  BY DEF RecoverOne
<1>4. /\ stolen' \in [Task -> BOOLEAN] /\ moved' \in [Task -> BOOLEAN] /\ remaining' \in [Run -> SUBSET Task]
      /\ \A u \in Task : (stolen[u] => stolen'[u]) /\ (moved[u] => moved'[u])
      /\ \A q \in Run : remaining'[q] \subseteq remaining[q] /\ remaining[q] \subseteq remaining'[q] \cup {t}
  BY <1>1, <1>2, <1>3 DEF FlowInv, BoardShape, RunShape
<1>5. status[t] \notin InterruptedStatuses \/ (\E q \in Run : BusyWith(q, t)) => stolen'[t]
  BY <1>1, <1>2 DEF FlowInv, BoardShape
<1>6. Excused(t)' \/ \A q \in Run : step[q][t] \notin Implementing
  BY <1>5 DEF BusyWith, Implementing, Excused
<1>7. /\ HasEvent(t) => Started(t)'
      /\ Excused(t) \/ status[t] = "failed" => Excused(t)' /\ Started(t)'
  BY <1>3, <1>4, <1>2, <1>5 DEF HasEvent, Started, Excused, InterruptedStatuses
<1>8. CASE Recoverable(t)
  <2>1. /\ landed' \in [Task -> BOOLEAN] /\ \A u \in Task : landed[u] => landed'[u]
        /\ \E x \in {"done", "waiting_for_merge", "ready_for_agent", "reviewing"} :
             /\ UpdateStatus(t, x, NoClaim)
             /\ x = "done" => landed'[t]
             /\ x \in ClaimActive => claim[t] # NoClaim
             /\ x = "reviewing" => HasReviewer
             /\ x \in {"reviewing", "waiting_for_merge"} => HasEvent(t) \/ status[t] = "failed"
             /\ x = "waiting_for_merge" => Finished(t) \/ Excused(t) \/ status[t] = "failed"
    BY <1>1, <1>2, <1>8, RecoverIs
  <2>2. PICK x \in {"done", "waiting_for_merge", "ready_for_agent", "reviewing"} :
          /\ UpdateStatus(t, x, NoClaim)
          /\ x = "done" => landed'[t]
          /\ x \in ClaimActive => claim[t] # NoClaim
          /\ x = "reviewing" => HasReviewer
          /\ x \in {"reviewing", "waiting_for_merge"} => HasEvent(t) \/ status[t] = "failed"
          /\ x = "waiting_for_merge" => Finished(t) \/ Excused(t) \/ status[t] = "failed"
    BY <2>1
  <2>3. x \in Status \ {"implementing", "merging"} /\ NoClaim \in Claims
    BY DEF Status, Claims
  <2>4. /\ status' \in [Task -> Status] /\ claim' \in [Task -> Claims]
        /\ closeBad' \in [Task -> BOOLEAN] /\ Shows(t, x, NoClaim)
    BY <1>2, <2>2, <2>3, ShowsIs DEF FlowInv
  <2> QED BY <1>2, <1>3, <1>4, <1>6, <1>7, <2>1, <2>2, <2>3, <2>4, StatusKeeps
<1>9. CASE ~Recoverable(t)
  <2>1. UNCHANGED <<status, claim, closeBad, landed>>
    BY <1>1, <1>9 DEF board
  <2>2. status[t] \in Status \ {"implementing", "merging"}
    BY <1>2, <1>9 DEF Recoverable, InterruptedStatuses, FlowInv, BoardShape
  <2>3. /\ status' \in [Task -> Status] /\ claim' \in [Task -> Claims]
        /\ closeBad' \in [Task -> BOOLEAN] /\ landed' \in [Task -> BOOLEAN]
    BY <2>1 DEF FlowInv, BoardShape
  <2>4. Shows(t, status[t], NoClaim)
    BY <1>2, <2>1 DEF Shows, FlowInv, ClaimsShown
  <2>5. /\ status[t] \in ClaimActive => claim[t] # NoClaim
        /\ status[t] = "reviewing" => HasReviewer
    BY <1>2 DEF FlowInv, ClaimsShown
  <2>6. /\ status[t] \in {"reviewing", "waiting_for_merge"} => Started(t)'
        /\ status[t] = "waiting_for_merge" => Finished(t) \/ Excused(t)'
    BY <1>2, <1>7 DEF FlowInv, StartedFirst, Started, ReadyFinished
  <2>7. status[t] = "done" => landed'[t]
    BY <1>2, <2>1 DEF FlowInv, ClosedLanded
  <2> QED BY <1>2, <1>3, <1>4, <1>6, <2>1, <2>2, <2>3, <2>4, <2>5, <2>6, <2>7, StatusKeeps
<1> QED BY <1>8, <1>9

\* The user recovers a failed task.
LEMMA UserRecoverKeeps ==
    ASSUME FlowInv, NEW t \in Task, UserRecover(t) PROVE FlowInv'
<1>1. UNCHANGED <<unmerged, receipt, lease, fin, oldEvent, rehomed, log, plannedBy, nextBatch,
                  rank, phase, bat, sel, step, held, mres, quiet, stolen, remaining>>
  BY DEF UserRecover, runVars
<1>2. /\ stolen' \in [Task -> BOOLEAN] /\ moved' \in [Task -> BOOLEAN] /\ remaining' \in [Run -> SUBSET Task]
      /\ moved'[t] /\ \A u \in Task : moved[u] => moved'[u]
  BY <1>1 DEF UserRecover, FlowInv, BoardShape, RunShape
<1>3. Excused(t)' /\ Started(t)'
  BY <1>2 DEF Excused, Started
<1>4. RecoverTask(t)
  BY DEF UserRecover
<1>5. /\ landed' \in [Task -> BOOLEAN] /\ \A u \in Task : landed[u] => landed'[u]
      /\ \E x \in {"done", "waiting_for_merge", "ready_for_agent", "reviewing"} :
           /\ UpdateStatus(t, x, NoClaim)
           /\ x = "done" => landed'[t]
           /\ x \in ClaimActive => claim[t] # NoClaim
           /\ x = "reviewing" => HasReviewer
  BY <1>4, RecoverIs
<1>6. PICK x \in {"done", "waiting_for_merge", "ready_for_agent", "reviewing"} :
        /\ UpdateStatus(t, x, NoClaim)
        /\ x = "done" => landed'[t]
        /\ x \in ClaimActive => claim[t] # NoClaim
        /\ x = "reviewing" => HasReviewer
  BY <1>5
<1>7. x \in Status \ {"implementing", "merging"} /\ NoClaim \in Claims
  BY DEF Status, Claims
<1>8. /\ status' \in [Task -> Status] /\ claim' \in [Task -> Claims]
      /\ closeBad' \in [Task -> BOOLEAN] /\ Shows(t, x, NoClaim)
  BY <1>6, <1>7, ShowsIs DEF FlowInv
<1> QED BY <1>1, <1>2, <1>3, <1>5, <1>6, <1>7, <1>8, StatusKeeps

\* The user makes a task ready again.
LEMMA ReopenKeeps ==
    ASSUME FlowInv, NEW t \in Task, UserReopen(t) PROVE FlowInv'
<1>1. UNCHANGED <<unmerged, landed, receipt, lease, fin, oldEvent, moved, rehomed, stolen, log,
                  plannedBy, nextBatch, rank, phase, bat, sel, step, held, mres, quiet, remaining>>
  BY DEF UserReopen, runVars
<1>2. /\ stolen' \in [Task -> BOOLEAN] /\ moved' \in [Task -> BOOLEAN]
      /\ landed' \in [Task -> BOOLEAN] /\ remaining' \in [Run -> SUBSET Task]
  BY <1>1 DEF FlowInv, BoardShape, RunShape
<1>3. "ready_for_agent" \in Status /\ NoClaim \in Claims /\ "ready_for_agent" \notin ClaimActive
  BY DEF Status, Claims, ClaimActive
<1>4. status[t] \in {"blocked", "done"} /\ UpdateStatus(t, "ready_for_agent", NoClaim)
  BY DEF UserReopen
<1>5. /\ status' \in [Task -> Status] /\ claim' \in [Task -> Claims]
      /\ closeBad' \in [Task -> BOOLEAN] /\ Shows(t, "ready_for_agent", NoClaim)
  BY <1>3, <1>4, ShowsIs DEF FlowInv
<1>6. Excused(t)' \/ \A q \in Run : step[q][t] \notin Implementing
  BY <1>1, <1>4 DEF Excused, FlowInv, OneImplements
<1> QED BY <1>1, <1>2, <1>3, <1>5, <1>6, StatusKeeps

\* The user recovers every interrupted task.
LEMMA StaleKeeps ==
    ASSUME FlowInv, UserRecoverStale PROVE FlowInv'
<1>1. UNCHANGED <<unmerged, landed, receipt, lease, fin, oldEvent, moved, rehomed, log, plannedBy,
                  nextBatch, rank, phase, bat, sel, remaining, step, held, mres, quiet>>
  BY DEF UserRecoverStale, runVars
<1>2. \A t \in Task : /\ RouteStatus(t) \in {"ready_for_agent", "reviewing", "waiting_for_merge"}
                      /\ TransitionClaim(t, RouteStatus(t), NoClaim) \in {claim[t], NoClaim}
                      /\ TransitionClaim(t, RouteStatus(t), NoClaim) =
                           IF RouteStatus(t) = "ready_for_agent" THEN NoClaim ELSE claim[t]
  BY RouteFacts DEF TransitionClaim, ClaimPreserving
<1>3. /\ \A u \in Task : status'[u] = IF u \in Interrupted THEN RouteStatus(u) ELSE status[u]
      /\ \A u \in Task : claim'[u] = IF u \in Interrupted /\ RouteStatus(u) = "ready_for_agent"
                                     THEN NoClaim ELSE claim[u]
  BY <1>2 DEF UserRecoverStale
<1>4. /\ status' \in [Task -> Status] /\ claim' \in [Task -> Claims] /\ closeBad' \in [Task -> BOOLEAN]
  <2>1. status' = [t \in Task |-> IF t \in Interrupted THEN RouteStatus(t) ELSE status[t]]
        /\ \A t \in Task : (IF t \in Interrupted THEN RouteStatus(t) ELSE status[t]) \in Status
    BY <1>2 DEF UserRecoverStale, FlowInv, BoardShape, Status
  <2>2. claim' = [t \in Task |-> IF t \in Interrupted
                                 THEN TransitionClaim(t, RouteStatus(t), NoClaim) ELSE claim[t]]
        /\ \A t \in Task : (IF t \in Interrupted
                            THEN TransitionClaim(t, RouteStatus(t), NoClaim) ELSE claim[t]) \in Claims
    BY <1>2 DEF UserRecoverStale, FlowInv, BoardShape, Claims
  <2>3. closeBad' \in [Task -> BOOLEAN]
    BY DEF UserRecoverStale, FlowInv, BoardShape
  <2> QED BY <2>1, <2>2, <2>3
<1>5. /\ stolen' \in [Task -> BOOLEAN] /\ \A u \in Task : stolen[u] => stolen'[u]
      /\ \A u \in Interrupted : (\E q \in Run : BusyWith(q, u)) => stolen'[u]
  BY DEF UserRecoverStale, FlowInv, BoardShape, Interrupted
<1>6. \A u \in Task : /\ HasEvent(u)' <=> HasEvent(u)
                      /\ Finished(u)' <=> Finished(u)
                      /\ Excused(u) => Excused(u)'
                      /\ Started(u) => Started(u)'
  BY <1>1, <1>5 DEF HasEvent, Excused, Started, Finished
<1>7. \A u \in Interrupted : u \in Task /\ status[u] \in {"implementing", "reviewing", "merging"}
  BY DEF Interrupted, InterruptedStatuses
<1>8. \A u \in Task : /\ RouteStatus(u) = "reviewing" => HasReviewer /\ HasEvent(u)
                      /\ RouteStatus(u) = "waiting_for_merge" => HasEvent(u) /\ (Finished(u) \/ Excused(u))
  BY RouteFacts
<1>9. \A u \in Interrupted : Excused(u)' \/ \A q \in Run : step[q][u] \notin Implementing
  BY <1>5, <1>7 DEF BusyWith, Implementing, Excused
<1>10. BoardShape'
  BY <1>1, <1>4, <1>5 DEF FlowInv, BoardShape, Status
<1>11. RunShape'
  BY <1>1 DEF FlowInv, RunShape, Pcs, StepNames, Results, Implementing, Recording, Reviewing
<1>12. RunPhases'
  BY <1>1 DEF FlowInv, RunPhases, Implementing, Recording, Reviewing
<1>13. BatchesUnique'
  BY <1>1 DEF FlowInv, BatchesUnique
<1>14. ClaimsPlanned'
  BY <1>1, <1>3 DEF FlowInv, ClaimsPlanned
<1>15. ClaimsShown'
  BY <1>1, <1>2, <1>3, <1>7, <1>8 DEF FlowInv, ClaimsShown, ClaimPreserving, ClaimActive
<1>16. Leases'
  BY <1>1 DEF FlowInv, Leases
<1>17. EventsCurrent'
  BY <1>1, <1>6 DEF FlowInv, EventsCurrent
<1>18. StartedFirst'
  BY <1>1, <1>2, <1>3, <1>6, <1>8 DEF FlowInv, StartedFirst, Started
<1>19. OneImplements'
  <2> SUFFICES ASSUME NEW q \in Run, NEW u \in Task, step'[q][u] \in Implementing, ~Excused(u)'
               PROVE  /\ ~HasEvent(u)' /\ status'[u] = "implementing"
                      /\ \A p \in Run : step'[p][u] \in Implementing => p = q
    BY DEF OneImplements
  <2>1. step[q][u] \in Implementing /\ ~Excused(u)
    BY <1>1, <1>6
  <2>2. /\ ~HasEvent(u) /\ status[u] = "implementing"
        /\ \A p \in Run : step[p][u] \in Implementing => p = q
    BY <2>1 DEF FlowInv, OneImplements
  <2>3. u \notin Interrupted
    BY <2>1, <2>2, <1>1, <1>9
  <2> QED BY <2>1, <2>2, <2>3, <1>1, <1>3, <1>6
<1>20. ReadyFinished'
  <2> SUFFICES ASSUME NEW u \in Task, ~Finished(u)', ~Excused(u)'
               PROVE  /\ status'[u] \notin {"waiting_for_merge", "merging"}
                      /\ \A q \in Run :
                           /\ log'[q][u].status # "waiting_for_merge"
                           /\ step'[q][u] \notin {"reviewedLogged", "alreadyLogged", "alreadyClosing"}
                           /\ ~HasReviewer => step'[q][u] # "implementedLogged"
                           /\ mres'[q][u] = "none"
    BY DEF ReadyFinished
  <2>1. ~Finished(u) /\ ~Excused(u)
    BY <1>6
  <2> QED BY <2>1, <1>1, <1>2, <1>3, <1>8 DEF FlowInv, ReadyFinished
<1>21. ClosedLanded'
  BY <1>1, <1>2, <1>3 DEF FlowInv, ClosedLanded
<1>22. Alone'
  BY <1>1 DEF FlowInv, Alone, Live
<1>23. Accounted'
  BY <1>1, <1>2, <1>3 DEF FlowInv, Accounted, Live
<1>24. Quieted'
  BY <1>1, <1>2, <1>3 DEF FlowInv, Quieted, LastQuietRun
<1> QED BY <1>10, <1>11, <1>12, <1>13, <1>14, <1>15, <1>16, <1>17, <1>18, <1>19, <1>20, <1>21,
           <1>22, <1>23, <1>24 DEF FlowInv

-----------------------------------------------------------------------------
(* The steps of a run *)

\* What has landed is closed.
LEMMA ReconcileIs ==
    ASSUME FlowInv, ReconcileClose
    PROVE  /\ status' \in [Task -> Status] /\ claim' \in [Task -> Claims]
           /\ closeBad' \in [Task -> BOOLEAN] /\ receipt' \in [Task -> BOOLEAN]
           /\ \A u \in Task : /\ ~receipt'[u]
                              /\ receipt[u] => status'[u] = "done" /\ claim'[u] = NoClaim
                              /\ ~receipt[u] => status'[u] = status[u] /\ claim'[u] = claim[u]
<1>1. "done" \in Status /\ NoClaim \in Claims
  BY DEF Status, Claims
<1> QED BY <1>1 DEF ReconcileClose, FlowInv, BoardShape

\* What belongs to a landed task is not changed by its close.
LEMMA ReceiptAlone ==
    ASSUME FlowInv, NEW u \in Task, receipt[u]
    PROVE  landed[u] /\ (Excused(u) \/ \A q \in Run : step[q][u] \notin Implementing)
BY DEF FlowInv, ClosedLanded, StartedFirst, Started, OneImplements

\* A run starts.
LEMMA RunStartKeeps ==
    ASSUME FlowInv, NEW r \in Run, StartRun(r) PROVE FlowInv'
<1>1. UNCHANGED <<unmerged, landed, lease, fin, oldEvent, moved, rehomed, stolen, log, plannedBy,
                  nextBatch, rank, bat, sel, remaining, step, held, mres>>
  BY DEF StartRun
<1>2. /\ status' \in [Task -> Status] /\ claim' \in [Task -> Claims]
      /\ closeBad' \in [Task -> BOOLEAN] /\ receipt' \in [Task -> BOOLEAN]
      /\ \A u \in Task : /\ ~receipt'[u]
                         /\ receipt[u] => status'[u] = "done" /\ claim'[u] = NoClaim
                         /\ ~receipt[u] => status'[u] = status[u] /\ claim'[u] = claim[u]
  BY ReconcileIs DEF StartRun
<1>3. \A u \in Task : /\ HasEvent(u)' <=> HasEvent(u)
                      /\ Excused(u)' <=> Excused(u)
                      /\ Started(u)' <=> Started(u)
                      /\ Finished(u)' <=> Finished(u)
  BY <1>1 DEF HasEvent, Excused, Started, Finished
<1>4. /\ phase' \in [Run -> Pcs] /\ quiet' \in [Run -> BOOLEAN] /\ phase[r] = "off"
      /\ \A q \in Run : phase'[q] = IF q = r THEN "detecting" ELSE phase[q]
  BY DEF StartRun, CreateRunContext, FlowInv, RunShape, Pcs
<1>5. /\ \A q \in Run : q \in Nat /\ (q < r => phase[q] # "off")
      /\ \A q \in Run : phase[q] # "off" => q < r
  <2>1. \A q \in Run : q \in Nat
    BY FlowAssumption DEF Run
  <2>2. \A q \in Run : q < r => phase[q] # "off"
    BY DEF StartRun, CreateRunContext
  <2>3. \A q \in Run : q > r => phase[q] = "off"
    BY <1>4, <2>1 DEF FlowInv, Alone
  <2> QED BY <1>4, <2>1, <2>2, <2>3
<1>6. /\ quiet'[r] => \A p \in Run : ~Live(p)
      /\ \A q \in Run : q # r => (quiet'[q] <=> quiet[q] /\ ~Live(q))
      /\ \A q \in Run : q # r => (Live(q)' <=> Live(q))
  BY <1>4 DEF StartRun, Live
<1>7. BoardShape'
  BY <1>1, <1>2 DEF FlowInv, BoardShape, Status
<1>8. RunShape'
  BY <1>1, <1>4 DEF FlowInv, RunShape, Pcs, StepNames, Results, Implementing, Recording,
     Reviewing
<1>9. RunPhases'
  BY <1>1, <1>4 DEF FlowInv, RunPhases, Implementing, Recording, Reviewing
<1>10. BatchesUnique'
  BY <1>1, <1>4 DEF FlowInv, BatchesUnique
<1>11. ClaimsPlanned'
  BY <1>1, <1>2 DEF FlowInv, ClaimsPlanned
<1>12. ClaimsShown'
  BY <1>1, <1>2 DEF FlowInv, ClaimsShown, ClaimPreserving, ClaimActive
<1>13. Leases'
  BY <1>1 DEF FlowInv, Leases
<1>14. EventsCurrent'
  BY <1>1, <1>3 DEF FlowInv, EventsCurrent
<1>15. StartedFirst'
  BY <1>1, <1>2, <1>3 DEF FlowInv, StartedFirst
<1>16. OneImplements'
  <2> SUFFICES ASSUME NEW q \in Run, NEW u \in Task, step'[q][u] \in Implementing, ~Excused(u)'
               PROVE  /\ ~HasEvent(u)' /\ status'[u] = "implementing"
                      /\ \A p \in Run : step'[p][u] \in Implementing => p = q
    BY DEF OneImplements
  <2>1. step[q][u] \in Implementing /\ ~Excused(u)
    BY <1>1, <1>3
  <2>2. /\ ~HasEvent(u) /\ status[u] = "implementing"
        /\ \A p \in Run : step[p][u] \in Implementing => p = q
    BY <2>1 DEF FlowInv, OneImplements
  <2>3. ~receipt[u]
    BY <2>1, <2>2, ReceiptAlone
  <2> QED BY <2>1, <2>2, <2>3, <1>1, <1>2, <1>3
<1>17. ReadyFinished'
  BY <1>1, <1>2, <1>3 DEF FlowInv, ReadyFinished
<1>18. ClosedLanded'
  BY <1>1, <1>2, ReceiptAlone DEF FlowInv, ClosedLanded
<1>19. Alone'
  <2>1. \A q, p \in Run : q < p /\ phase'[p] # "off" => phase'[q] # "off"
    <3>1. \A q \in Run : q < r => phase[q] # "off"
      BY <1>5
    <3> QED BY <1>4, <3>1 DEF FlowInv, Alone
  <2>2. ASSUME NEW p \in Run, quiet'[p]
        PROVE  /\ phase'[p] # "off" /\ \A q \in Run : q < p => ~Live(q)'
               /\ Live(p)' => \A q \in Run : q > p => phase'[q] = "off"
    <3>1. CASE p = r
      BY <3>1, <2>2, <1>4, <1>5, <1>6 DEF Run
    <3>2. CASE p # r
      <4>1. quiet[p] /\ ~Live(p) /\ phase[p] # "off"
        BY <3>2, <2>2, <1>6 DEF FlowInv, Alone
      <4>2. p < r
        BY <3>2, <4>1, <1>5
      <4>3. \A q \in Run : q < p => q # r
        BY <4>2, <1>5
      <4> QED BY <3>2, <4>1, <4>3, <1>4, <1>6 DEF FlowInv, Alone, Live
    <3> QED BY <3>1, <3>2
  <2> QED BY <2>1, <2>2 DEF Alone
<1>20. Accounted'
  BY <1>4, <1>6 DEF FlowInv, Accounted, Live
<1>21. Quieted'
  <2> SUFFICES ASSUME NEW p \in Run, LastQuietRun(p)' PROVE FALSE
    BY DEF Quieted
  <2>1. phase'[p] = "ended" /\ \A q \in Run : q > p => phase'[q] = "off"
    BY DEF LastQuietRun
  <2>2. p # r /\ phase[p] = "ended" /\ phase'[r] # "off"
    BY <2>1, <1>4
  <2>3. p < r
    BY <2>2, <1>5
  <2> QED BY <2>1, <2>2, <2>3, <1>5
<1> QED BY <1>7, <1>8, <1>9, <1>10, <1>11, <1>12, <1>13, <1>14, <1>15, <1>16, <1>17, <1>18,
           <1>19, <1>20, <1>21 DEF FlowInv

\* A run ends.
LEMMA EndKeeps ==
    ASSUME FlowInv, NEW r \in Run, EndRun(r) PROVE FlowInv'
<1>1. UNCHANGED <<unmerged, landed, lease, fin, oldEvent, moved, rehomed, stolen, log, plannedBy,
                  nextBatch, rank, bat, remaining, step, mres, quiet>>
  BY DEF EndRun
<1>2. /\ status' \in [Task -> Status] /\ claim' \in [Task -> Claims]
      /\ closeBad' \in [Task -> BOOLEAN] /\ receipt' \in [Task -> BOOLEAN]
      /\ \A u \in Task : /\ ~receipt'[u]
                         /\ receipt[u] => status'[u] = "done" /\ claim'[u] = NoClaim
                         /\ ~receipt[u] => status'[u] = status[u] /\ claim'[u] = claim[u]
  BY ReconcileIs DEF EndRun
<1>3. \A u \in Task : /\ HasEvent(u)' <=> HasEvent(u)
                      /\ Excused(u)' <=> Excused(u)
                      /\ Started(u)' <=> Started(u)
                      /\ Finished(u)' <=> Finished(u)
  BY <1>1 DEF HasEvent, Excused, Started, Finished
<1>4. /\ phase' \in [Run -> Pcs] /\ phase[r] = "closing"
      /\ \A q \in Run : phase'[q] = IF q = r THEN "ended" ELSE phase[q]
  BY DEF EndRun, FlowInv, RunShape, Pcs
<1>5. /\ sel' \in [Run -> SUBSET Task] /\ held' \in [Run -> [Task -> Claims]]
      /\ \A q \in Run : q # r => sel'[q] = sel[q] /\ held'[q] = held[q]
      /\ \A u \in Task : held'[r][u] = NoClaim
  <2>1. [t \in Task |-> NoClaim] \in [Task -> Claims]
    BY DEF Claims
  <2> QED BY <2>1 DEF EndRun, FlowInv, RunShape
<1>6. \A u \in Task : step[r][u] = "none" /\ mres[r][u] = "none"
  BY <1>4 DEF FlowInv, RunPhases
<1>7. BoardShape'
  BY <1>1, <1>2 DEF FlowInv, BoardShape, Status
<1>8. RunShape'
  BY <1>1, <1>4, <1>5 DEF FlowInv, RunShape, Pcs, StepNames, Results, Implementing, Recording,
     Reviewing
<1>9. RunPhases'
  BY <1>1, <1>4, <1>5, <1>6 DEF FlowInv, RunPhases, Implementing, Recording, Reviewing
<1>10. BatchesUnique'
  BY <1>1, <1>4 DEF FlowInv, BatchesUnique
<1>11. ClaimsPlanned'
  <2>1. \A u \in Task : claim'[u] # NoClaim => plannedBy[claim'[u].batch] = claim'[u].run \/ rehomed[u]
    BY <1>2 DEF FlowInv, ClaimsPlanned
  <2>2. \A q \in Run, u \in Task : held'[q][u] # NoClaim => held'[q][u] = held[q][u]
    BY <1>5
  <2>3. \A q \in Run, u \in Task :
          held'[q][u] # NoClaim => plannedBy[held'[q][u].batch] = held'[q][u].run \/ rehomed[u]
    BY <2>2 DEF FlowInv, ClaimsPlanned
  <2> QED BY <2>1, <2>3, <1>1 DEF ClaimsPlanned
<1>12. ClaimsShown'
  BY <1>1, <1>2 DEF FlowInv, ClaimsShown, ClaimPreserving, ClaimActive
<1>13. Leases'
  BY <1>1 DEF FlowInv, Leases
<1>14. EventsCurrent'
  BY <1>1, <1>3 DEF FlowInv, EventsCurrent
<1>15. StartedFirst'
  BY <1>1, <1>2, <1>3 DEF FlowInv, StartedFirst
<1>16. OneImplements'
  <2> SUFFICES ASSUME NEW q \in Run, NEW u \in Task, step'[q][u] \in Implementing, ~Excused(u)'
               PROVE  /\ ~HasEvent(u)' /\ status'[u] = "implementing"
                      /\ \A p \in Run : step'[p][u] \in Implementing => p = q
    BY DEF OneImplements
  <2>1. step[q][u] \in Implementing /\ ~Excused(u)
    BY <1>1, <1>3
  <2>2. /\ ~HasEvent(u) /\ status[u] = "implementing"
        /\ \A p \in Run : step[p][u] \in Implementing => p = q
    BY <2>1 DEF FlowInv, OneImplements
  <2>3. ~receipt[u]
    BY <2>1, <2>2, ReceiptAlone
  <2> QED BY <2>1, <2>2, <2>3, <1>1, <1>2, <1>3
<1>17. ReadyFinished'
  BY <1>1, <1>2, <1>3 DEF FlowInv, ReadyFinished
<1>18. ClosedLanded'
  BY <1>1, <1>2, ReceiptAlone DEF FlowInv, ClosedLanded
<1>19. Alone'
  BY <1>1, <1>4 DEF FlowInv, Alone, Live
<1>20. Accounted'
  BY <1>1, <1>2, <1>4 DEF FlowInv, Accounted, Live
<1>21. Quieted'
  <2> SUFFICES ASSUME NEW p \in Run, LastQuietRun(p)', NEW t \in Task
               PROVE  ~receipt'[t] /\ status'[t] \notin {"implementing", "merging"}
    BY DEF Quieted
  <2>1. quiet[p] /\ phase'[p] = "ended" /\ \A q \in Run : q > p => phase'[q] = "off"
    BY <1>1 DEF LastQuietRun
  <2>2. CASE p = r
    <3>1. status[t] \notin {"implementing", "merging"}
      BY <2>1, <2>2, <1>4, <1>6 DEF FlowInv, Accounted, Live, Implementing, Recording
    <3> QED BY <3>1, <1>2
  <2>3. CASE p # r
    <3>1. LastQuietRun(p)
      BY <2>1, <2>3, <1>4 DEF LastQuietRun
    <3> QED BY <3>1, <1>2 DEF FlowInv, Quieted
  <2> QED BY <2>2, <2>3
<1> QED BY <1>7, <1>8, <1>9, <1>10, <1>11, <1>12, <1>13, <1>14, <1>15, <1>16, <1>17, <1>18,
           <1>19, <1>20, <1>21 DEF FlowInv

\* The interrupted tasks are listed.
LEMMA DetectKeeps ==
    ASSUME FlowInv, NEW r \in Run, DetectInterrupted(r) PROVE FlowInv'
<1>1. UNCHANGED <<status, claim, closeBad, unmerged, landed, receipt, lease, fin, oldEvent, moved,
                  rehomed, log, plannedBy, nextBatch, rank, bat, sel, step, held, mres, quiet>>
  BY DEF DetectInterrupted, board
<1>2. /\ phase' \in [Run -> Pcs] /\ phase[r] = "detecting"
      /\ \A q \in Run : phase'[q] = IF q = r THEN "recovering" ELSE phase[q]
      /\ remaining' \in [Run -> SUBSET Task] /\ remaining'[r] = Interrupted
      /\ \A q \in Run : q # r => remaining'[q] = remaining[q]
  <2>1. Interrupted \subseteq Task
    BY DEF Interrupted
  <2> QED BY <2>1 DEF DetectInterrupted, FlowInv, RunShape, Pcs
<1>3. /\ stolen' \in [Task -> BOOLEAN] /\ \A u \in Task : stolen[u] => stolen'[u]
  BY DEF DetectInterrupted, FlowInv, BoardShape
<1>4. \A u \in Task : /\ HasEvent(u)' <=> HasEvent(u)
                      /\ Finished(u)' <=> Finished(u)
                      /\ Excused(u) => Excused(u)'
                      /\ Started(u) => Started(u)'
  BY <1>1, <1>3 DEF HasEvent, Excused, Started, Finished
<1>5. \A p \in Run : ~LastQuietRun(p) /\ (quiet[p] /\ Live(p) => p = r)
  <2>1. Live(r)
    BY <1>2 DEF Live
  <2> QED BY <2>1, LiveAlone
<1>6. BoardShape'
  BY <1>1, <1>3 DEF FlowInv, BoardShape, Status
<1>7. RunShape'
  BY <1>1, <1>2 DEF FlowInv, RunShape, Pcs, StepNames, Results, Implementing, Recording,
     Reviewing
<1>8. RunPhases'
  BY <1>1, <1>2 DEF FlowInv, RunPhases, Implementing, Recording, Reviewing
<1>9. BatchesUnique'
  BY <1>1, <1>2 DEF FlowInv, BatchesUnique
<1>10. ClaimsPlanned'
  BY <1>1 DEF FlowInv, ClaimsPlanned
<1>11. ClaimsShown'
  BY <1>1 DEF FlowInv, ClaimsShown, ClaimPreserving, ClaimActive
<1>12. Leases'
  BY <1>1 DEF FlowInv, Leases
<1>13. EventsCurrent'
  BY <1>1, <1>4 DEF FlowInv, EventsCurrent
<1>14. StartedFirst'
  BY <1>1, <1>4 DEF FlowInv, StartedFirst
<1>15. OneImplements'
  <2> SUFFICES ASSUME NEW q \in Run, NEW u \in Task, step'[q][u] \in Implementing, ~Excused(u)'
               PROVE  /\ ~HasEvent(u)' /\ status'[u] = "implementing"
                      /\ \A p \in Run : step'[p][u] \in Implementing => p = q
    BY DEF OneImplements
  <2>1. step[q][u] \in Implementing /\ ~Excused(u)
    BY <1>1, <1>4
  <2>2. /\ ~HasEvent(u) /\ status[u] = "implementing"
        /\ \A p \in Run : step[p][u] \in Implementing => p = q
    BY <2>1 DEF FlowInv, OneImplements
  <2> QED BY <2>1, <2>2, <1>1, <1>4
<1>16. ReadyFinished'
  <2> SUFFICES ASSUME NEW u \in Task, ~Finished(u)', ~Excused(u)'
               PROVE  /\ status'[u] \notin {"waiting_for_merge", "merging"}
                      /\ \A q \in Run :
                           /\ log'[q][u].status # "waiting_for_merge"
                           /\ step'[q][u] \notin {"reviewedLogged", "alreadyLogged", "alreadyClosing"}
                           /\ ~HasReviewer => step'[q][u] # "implementedLogged"
                           /\ mres'[q][u] = "none"
    BY DEF ReadyFinished
  <2>1. ~Finished(u) /\ ~Excused(u)
    BY <1>4
  <2> QED BY <2>1, <1>1 DEF FlowInv, ReadyFinished
<1>17. ClosedLanded'
  BY <1>1 DEF FlowInv, ClosedLanded
<1>18. Alone'
  BY <1>1, <1>2 DEF FlowInv, Alone, Live
<1>19. Accounted'
  <2> SUFFICES ASSUME NEW q \in Run, NEW u \in Task, quiet[q], Live(q)',
                      status[u] \in {"implementing", "merging"}
               PROVE  phase'[q] = "recovering" /\ u \in remaining'[q]
    BY <1>1 DEF Accounted
  <2>1. q = r /\ Live(q)
    BY <1>2, <1>5 DEF Live
  <2>2. CASE lease[u] = 0
    BY <2>1, <2>2, <1>2 DEF Interrupted, InterruptedStatuses
  <2>3. CASE lease[u] # 0
    <3>1. lease[u] \in Run /\ phase[lease[u]] = "working"
      BY <2>3, LeaseRun DEF FlowInv, Leases, RunPhases
    <3>2. lease[u] = r
      <4>1. Live(lease[u])
        BY <3>1 DEF Live
      <4>2. \A p \in Run : ~LastQuietRun(p) /\ (quiet[p] /\ Live(p) => p = lease[u])
        BY <3>1, <4>1, LiveAlone, Zenon
      <4> QED BY <4>2, <2>1
    <3> QED BY <3>1, <3>2, <1>2
  <2> QED BY <2>2, <2>3
<1>20. Quieted'
  BY <1>1, <1>2, <1>5 DEF Quieted, LastQuietRun
<1> QED BY <1>6, <1>7, <1>8, <1>9, <1>10, <1>11, <1>12, <1>13, <1>14, <1>15, <1>16, <1>17,
           <1>18, <1>19, <1>20 DEF FlowInv

\* The oldest unfinished batch is one that was planned.
LEMMA OldestIs ==
    ASSUME FlowInv, Unfinished # {}
    PROVE  (CHOOSE x \in Unfinished : \A y \in Unfinished : x <= y) \in Batch
<1>1. Unfinished \subseteq Batch
  <2> SUFFICES ASSUME NEW t \in Task, Resumable(t) PROVE claim[t].batch \in Batch
    BY DEF Unfinished
  <2>1. claim[t] # NoClaim /\ claim[t] \in Claims
    BY DEF Resumable, FlowInv, BoardShape
  <2> QED BY <2>1 DEF Claims
<1>2. Unfinished \subseteq Nat
  BY <1>1, FlowAssumption DEF Batch
<1>3. \E x \in Unfinished : \A y \in Unfinished : x <= y
  BY <1>2, LeastNat
<1> QED BY <1>1, <1>3

\* A run takes a new batch id.
LEMMA NewBatchIs ==
    ASSUME FlowInv, NEW r \in Run, NewBatch(r), phase[r] \notin {"planning", "planned"}
    PROVE  /\ phase' \in [Run -> Pcs] /\ bat' \in [Run -> 0 .. NBatches]
           /\ \A q \in Run : phase'[q] = IF q = r THEN "planning" ELSE phase[q]
           /\ \A q \in Run : bat'[q] = IF q = r THEN nextBatch ELSE bat[q]
           /\ nextBatch \in Batch /\ nextBatch' = nextBatch + 1
           /\ nextBatch' \in 1 .. NBatches + 1 /\ plannedBy[nextBatch] = 0
<1>1. nextBatch \in 1 .. NBatches + 1 /\ nextBatch <= NBatches
  BY DEF NewBatch, FlowInv, RunShape
<1>2. nextBatch \in Batch /\ nextBatch + 1 \in 1 .. NBatches + 1 /\ nextBatch \in 0 .. NBatches
  BY <1>1, FlowAssumption DEF Batch
<1>3. plannedBy[nextBatch] = 0
  BY <1>2, FlowAssumption DEF FlowInv, BatchesUnique, Batch
<1> QED BY <1>2, <1>3 DEF NewBatch, FlowInv, RunShape, Pcs

\* Run r goes on to phase p, with nothing of its tasks under way.
Turned(r, p) ==
    /\ Live(r) /\ phase[r] # "detecting" /\ (phase[r] = "recovering" => remaining[r] = {})
    /\ phase' = [phase EXCEPT ![r] = p]
    /\ \A u \in Task : step[r][u] \in {"none", "ok", "bad"}
    /\ \A u \in Task : mres[r][u] \in {"none", "merged", "pending", "bad"}
    /\ bat' \in [Run -> 0 .. NBatches] /\ plannedBy' \in [Batch -> 0 .. NRuns]
    /\ nextBatch' \in 1 .. NBatches + 1 /\ nextBatch <= nextBatch'
    /\ sel' \in [Run -> SUBSET Task] /\ remaining' \in [Run -> SUBSET Task]
    /\ step' \in [Run -> [Task -> StepNames]] /\ held' \in [Run -> [Task -> Claims]]
    /\ mres' \in [Run -> [Task -> Results]]
    /\ \A q \in Run : q # r => /\ bat'[q] = bat[q] /\ sel'[q] = sel[q] /\ remaining'[q] = remaining[q]
                               /\ step'[q] = step[q] /\ held'[q] = held[q] /\ mres'[q] = mres[q]
    /\ \A u \in Task :
         /\ step'[r][u] \in {"none", "selected", "resume"}
         /\ step'[r][u] # "none" => p = "working" /\ u \in sel'[r]
         /\ step'[r][u] = "selected" => plannedBy'[bat'[r]] = r
         /\ step'[r][u] = "resume" => HasReviewer /\ status[u] = "reviewing"
         /\ mres'[r][u] \in {"none", "enter"}
         /\ mres'[r][u] = "enter" => /\ p = "entering" /\ status[u] = "waiting_for_merge"
                                     /\ held'[r][u] # NoClaim
         /\ p = "entering" /\ u \in remaining'[r] => mres'[r][u] = "enter"
         /\ held'[r][u] \in {held[r][u], claim[u], NoClaim}
    /\ p # "closing" => bat'[r] # 0
    /\ p \in {"planning", "planned"} =>
         /\ bat'[r] < nextBatch' /\ plannedBy'[bat'[r]] = 0
         /\ \A q \in Run : q # r /\ phase[q] \in {"planning", "planned"} => bat[q] # bat'[r]
    /\ \A b \in Batch :
         \/ plannedBy'[b] = plannedBy[b]
         \/ b = bat[r] /\ phase[r] = "planned" /\ plannedBy[b] = 0 /\ plannedBy'[b] = r
            /\ p \notin {"planning", "planned"}
    /\ UNCHANGED <<status, claim, closeBad, unmerged, landed, receipt, lease, fin, oldEvent,
                   moved, rehomed, stolen, log, rank, quiet>>

\* A run that turns to its next phase keeps the invariant.
LEMMA TurnKeeps ==
    ASSUME FlowInv, NEW r \in Run, NEW p, Turned(r, p),
           p \in {"planning", "planned", "working", "settling", "entering", "closing"}
    PROVE  FlowInv'
<1>1. UNCHANGED <<status, claim, closeBad, unmerged, landed, receipt, lease, fin, oldEvent, moved,
                  rehomed, stolen, log, rank, quiet>>
  BY DEF Turned
<1>2. phase' \in [Run -> Pcs] /\ \A q \in Run : phase'[q] = IF q = r THEN p ELSE phase[q]
  BY DEF Turned, FlowInv, RunShape, Pcs
<1>3. \A u \in Task : /\ HasEvent(u)' <=> HasEvent(u)
                      /\ Excused(u)' <=> Excused(u)
                      /\ Started(u)' <=> Started(u)
                      /\ Finished(u)' <=> Finished(u)
  BY <1>1 DEF HasEvent, Excused, Started, Finished
<1>4. \A q \in Run : q # r => /\ bat'[q] = bat[q] /\ sel'[q] = sel[q] /\ remaining'[q] = remaining[q]
                              /\ step'[q] = step[q] /\ held'[q] = held[q] /\ mres'[q] = mres[q]
  BY DEF Turned
<1>5. Live(r) /\ \A q \in Run : ~LastQuietRun(q) /\ (quiet[q] /\ Live(q) => q = r)
  BY LiveAlone DEF Turned
<1>6. \A q \in Run : (Live(q)' <=> Live(q)) /\ (phase'[q] = "off" <=> phase[q] = "off")
  BY <1>2, <1>5 DEF Live
<1>7. \A b \in Batch : plannedBy[b] # 0 => plannedBy'[b] = plannedBy[b]
  BY DEF Turned
<1>8. \A c \in Claims : c # NoClaim => c.batch \in Batch /\ c.run \in Run /\ c.run # 0
  BY FlowAssumption DEF Claims, Run
<1>9. \A q \in Run : q # r /\ phase[q] \in {"planning", "planned"} =>
        bat[q] \in Batch /\ plannedBy'[bat[q]] = 0
  <2> SUFFICES ASSUME NEW q \in Run, q # r, phase[q] \in {"planning", "planned"}
               PROVE  bat[q] \in Batch /\ plannedBy'[bat[q]] = 0
    OBVIOUS
  <2>1. bat[q] # 0 /\ bat[q] \in 0 .. NBatches /\ plannedBy[bat[q]] = 0
    <3>1. bat[q] \in 0 .. NBatches
      BY DEF FlowInv, RunShape
    <3>2. bat[q] # 0 /\ plannedBy[bat[q]] = 0
      BY DEF FlowInv, RunPhases
    <3> QED BY <3>1, <3>2
  <2>2. bat[q] \in Batch
    BY <2>1, FlowAssumption DEF Batch
  <2>3. phase[r] = "planned" => bat[q] # bat[r]
    BY DEF FlowInv, BatchesUnique
  <2> QED BY <2>1, <2>2, <2>3 DEF Turned
<1>10. \A q \in Run : q # r /\ bat[q] # 0 /\ plannedBy[bat[q]] = q => plannedBy'[bat[q]] = q
  <2> SUFFICES ASSUME NEW q \in Run, q # r, bat[q] # 0, plannedBy[bat[q]] = q
               PROVE  plannedBy'[bat[q]] = q
    OBVIOUS
  <2>1. bat[q] \in 0 .. NBatches
    BY DEF FlowInv, RunShape
  <2>2. bat[q] \in Batch /\ q # 0
    BY <2>1, FlowAssumption DEF Batch, Run
  <2> QED BY <2>2, <1>7
<1>11. \A q \in Run, u \in Task :
         \/ step'[q][u] = step[q][u]
         \/ /\ q = r /\ step'[q][u] \in {"none", "selected", "resume"}
            /\ step'[q][u] = "resume" => status[u] = "reviewing"
  BY <1>4 DEF Turned
<1>12. \A q \in Run, u \in Task :
         \/ mres'[q][u] = mres[q][u]
         \/ /\ q = r /\ mres'[q][u] \in {"none", "enter"}
            /\ mres'[q][u] = "enter" => status[u] = "waiting_for_merge"
  BY <1>4 DEF Turned
<1>13. \A u \in Task : lease[u] # 0 => lease[u] \in Run /\ lease[u] # r
  BY LeaseRun DEF FlowInv, Leases, Turned
<1>14. \A q \in Run, u \in Task : held'[q][u] \in {held[q][u], claim[u], NoClaim}
  BY <1>4 DEF Turned
<1>15. BoardShape'
  BY <1>1 DEF FlowInv, BoardShape, Status
<1>16. RunShape'
  BY <1>1, <1>2 DEF FlowInv, RunShape, Pcs, StepNames, Results, Implementing, Recording,
     Reviewing, Turned
<1>17. RunPhases'
  <2> SUFFICES ASSUME NEW q \in Run
               PROVE  /\ phase'[q] \notin {"off", "detecting", "recovering", "closing", "ended", "dead"} => bat'[q] # 0
                      /\ phase'[q] \in {"planning", "planned"} => bat'[q] < nextBatch' /\ plannedBy'[bat'[q]] = 0
                      /\ \A t \in Task :
                           /\ step'[q][t] # "none" => phase'[q] = "working" /\ t \in sel'[q]
                           /\ step'[q][t] \in {"selected", "gated"} => plannedBy'[bat'[q]] = q
                           /\ step'[q][t] = "resume" => HasReviewer
                           /\ mres'[q][t] # "none" => phase'[q] \in {"entering", "merging"}
                           /\ phase'[q] = "entering" /\ t \in remaining'[q] => mres'[q][t] = "enter"
                           /\ step'[q][t] \in Implementing \cup Recording \cup Reviewing \/ mres'[q][t] # "none"
                                => held'[q][t] # NoClaim
    BY DEF RunPhases
  <2>1. CASE q = r
    BY <2>1, <1>2 DEF Turned, Implementing, Recording, Reviewing
  <2>2. CASE q # r
    <3>1. phase'[q] = phase[q] /\ bat'[q] = bat[q] /\ sel'[q] = sel[q] /\ remaining'[q] = remaining[q]
          /\ step'[q] = step[q] /\ held'[q] = held[q] /\ mres'[q] = mres[q]
      BY <2>2, <1>2, <1>4
    <3>2. phase[q] \in {"planning", "planned"} => bat[q] < nextBatch' /\ plannedBy'[bat[q]] = 0
      BY <2>2, <1>9, FlowAssumption DEF Turned, FlowInv, RunPhases, RunShape
    <3>3. phase[q] = "working" /\ plannedBy[bat[q]] = q => plannedBy'[bat[q]] = q
      BY <2>2, <1>10 DEF FlowInv, RunPhases
    <3> QED BY <3>1, <3>2, <3>3 DEF FlowInv, RunPhases
  <2> QED BY <2>1, <2>2
<1>18. BatchesUnique'
  <2>1. ASSUME NEW b \in Batch, b >= nextBatch' PROVE plannedBy'[b] = 0
    <3>1. b >= nextBatch /\ b \in Nat
      BY <2>1, FlowAssumption DEF Turned, Batch, FlowInv, RunShape
    <3>2. plannedBy[b] = 0
      BY <3>1 DEF FlowInv, BatchesUnique
    <3>3. phase[r] = "planned" => bat[r] < nextBatch
      BY DEF FlowInv, RunPhases
    <3>4. phase[r] = "planned" => b # bat[r]
      BY <3>1, <3>3, FlowAssumption DEF FlowInv, RunShape
    <3> QED BY <3>2, <3>4 DEF Turned
  <2>2. ASSUME NEW q \in Run, NEW s \in Run, phase'[q] \in {"planning", "planned"},
               phase'[s] \in {"planning", "planned"}, q # s
        PROVE  bat'[q] # bat'[s]
    <3>1. \A z \in Run : z # r => phase'[z] = phase[z] /\ bat'[z] = bat[z]
      BY <1>2, <1>4
    <3>2. CASE q # r /\ s # r
      BY <3>1, <3>2, <2>2 DEF FlowInv, BatchesUnique
    <3>3. \A z \in Run : z # r /\ phase[z] \in {"planning", "planned"} /\ p \in {"planning", "planned"}
            => bat[z] # bat'[r]
      BY DEF Turned
    <3>4. CASE q = r
      BY <3>1, <3>3, <3>4, <2>2, <1>2
    <3>5. CASE s = r
      BY <3>1, <3>3, <3>5, <2>2, <1>2
    <3> QED BY <3>2, <3>4, <3>5
  <2> QED BY <2>1, <2>2 DEF BatchesUnique
<1>19. ClaimsPlanned'
  <2>1. \A c \in Claims : c # NoClaim /\ plannedBy[c.batch] = c.run => plannedBy'[c.batch] = c.run
    BY <1>7, <1>8
  <2>2. \A u \in Task : claim[u] # NoClaim => plannedBy'[claim[u].batch] = claim[u].run \/ rehomed[u]
    BY <2>1 DEF FlowInv, ClaimsPlanned, BoardShape
  <2>3. \A q \in Run, u \in Task :
          held[q][u] # NoClaim => plannedBy'[held[q][u].batch] = held[q][u].run \/ rehomed[u]
    <3>1. \A q \in Run, u \in Task : held[q][u] \in Claims
      BY DEF FlowInv, RunShape
    <3> QED BY <3>1, <2>1 DEF FlowInv, ClaimsPlanned
  <2>4. \A q \in Run, u \in Task :
          held'[q][u] # NoClaim => plannedBy'[held'[q][u].batch] = held'[q][u].run \/ rehomed[u]
    BY <2>2, <2>3, <1>14
  <2> QED BY <2>2, <2>4, <1>1 DEF ClaimsPlanned
<1>20. ClaimsShown'
  BY <1>1 DEF FlowInv, ClaimsShown, ClaimPreserving, ClaimActive
<1>21. Leases'
  BY <1>1, <1>4, <1>13 DEF FlowInv, Leases
<1>22. EventsCurrent'
  BY <1>1, <1>3 DEF FlowInv, EventsCurrent
<1>23. StartedFirst'
  BY <1>1, <1>3, <1>11, <1>12 DEF FlowInv, StartedFirst, Recording, Reviewing
<1>24. OneImplements'
  <2> SUFFICES ASSUME NEW q \in Run, NEW u \in Task, step'[q][u] \in Implementing, ~Excused(u)'
               PROVE  /\ ~HasEvent(u)' /\ status'[u] = "implementing"
                      /\ \A z \in Run : step'[z][u] \in Implementing => z = q
    BY DEF OneImplements
  <2>1. step[q][u] \in Implementing /\ ~Excused(u)
    BY <1>3, <1>11 DEF Implementing
  <2>2. /\ ~HasEvent(u) /\ status[u] = "implementing"
        /\ \A z \in Run : step[z][u] \in Implementing => z = q
    BY <2>1 DEF FlowInv, OneImplements
  <2>3. \A s \in Run : step'[s][u] \in Implementing => step[s][u] \in Implementing
    BY <2>1, <2>2, <1>11 DEF Implementing
  <2> QED BY <2>1, <2>2, <2>3, <1>1, <1>3
<1>25. ReadyFinished'
  BY <1>1, <1>3, <1>11, <1>12 DEF FlowInv, ReadyFinished
<1>26. ClosedLanded'
  BY <1>1, <1>11, <1>12 DEF FlowInv, ClosedLanded
<1>27. Alone'
  BY <1>1, <1>6 DEF FlowInv, Alone
<1>28. Accounted'
  <2> SUFFICES ASSUME NEW q \in Run, NEW u \in Task, quiet[q], Live(q)',
                      status[u] \in {"implementing", "merging"}
               PROVE  FALSE
    BY <1>1 DEF Accounted
  <2>1. q = r /\ quiet[r]
    BY <1>5, <1>6
  <2>2. /\ phase[r] # "detecting" /\ (phase[r] = "recovering" => remaining[r] = {})
        /\ step[r][u] \in {"none", "ok", "bad"} /\ mres[r][u] \in {"none", "merged", "pending", "bad"}
    BY DEF Turned
  <2> QED BY <2>1, <2>2, <1>5 DEF FlowInv, Accounted, Implementing, Recording
<1>29. Quieted'
  <2>1. \A q \in Run : LastQuietRun(q)' => LastQuietRun(q)
    BY <1>1, <1>2, <1>6 DEF LastQuietRun
  <2> QED BY <1>5, <2>1 DEF Quieted
<1> QED BY <1>15, <1>16, <1>17, <1>18, <1>19, <1>20, <1>21, <1>22, <1>23, <1>24, <1>25, <1>26,
           <1>27, <1>28, <1>29 DEF FlowInv

\* What the variables of the runs hold when a run is at rest.
LEMMA AtRest ==
    ASSUME FlowInv, NEW r \in Run, phase[r] \in {"recovering", "planning", "planned", "settling"}
    PROVE  /\ Live(r) /\ \A u \in Task : step[r][u] = "none" /\ mres[r][u] = "none"
           /\ phase[r] # "recovering" => bat[r] # 0 /\ bat[r] \in Batch
<1>1. \A u \in Task : step[r][u] = "none" /\ mres[r][u] = "none"
  BY DEF FlowInv, RunPhases
<1>2. phase[r] # "recovering" => bat[r] # 0
  BY DEF FlowInv, RunPhases
<1>3. bat[r] \in 0 .. NBatches
  BY DEF FlowInv, RunShape
<1> QED BY <1>1, <1>2, <1>3, FlowAssumption DEF Live, Batch

\* Tasks are selected.
LEMMA PlanKeeps ==
    ASSUME FlowInv, NEW r \in Run, PlanBatch(r) PROVE FlowInv'
<1>1. UNCHANGED <<status, claim, closeBad, unmerged, landed, receipt, lease, fin, oldEvent, moved,
                  rehomed, stolen, log, plannedBy, nextBatch, rank, bat, step, held, remaining, mres, quiet>>
  BY DEF PlanBatch, board, ghosts
<1>2. phase[r] = "planning" /\ phase' = [phase EXCEPT ![r] = "planned"]
  BY DEF PlanBatch
<1>3. /\ Live(r) /\ bat[r] # 0
      /\ \A u \in Task : step[r][u] = "none" /\ mres[r][u] = "none"
  BY <1>2, AtRest
<1>4. sel' \in [Run -> SUBSET Task] /\ \A q \in Run : q # r => sel'[q] = sel[q]
  BY DEF PlanBatch, Selections, FlowInv, RunShape
<1>5. /\ bat' \in [Run -> 0 .. NBatches] /\ plannedBy' \in [Batch -> 0 .. NRuns]
      /\ nextBatch' \in 1 .. NBatches + 1 /\ nextBatch <= nextBatch'
      /\ remaining' \in [Run -> SUBSET Task]
      /\ step' \in [Run -> [Task -> StepNames]] /\ held' \in [Run -> [Task -> Claims]]
      /\ mres' \in [Run -> [Task -> Results]]
  BY <1>1, FlowAssumption DEF FlowInv, RunShape
<1>6. /\ bat[r] < nextBatch /\ plannedBy[bat[r]] = 0
      /\ \A q \in Run : q # r /\ phase[q] \in {"planning", "planned"} => bat[q] # bat[r]
  BY <1>2 DEF FlowInv, RunPhases, BatchesUnique
<1>7. Turned(r, "planned")
  BY <1>1, <1>2, <1>3, <1>4, <1>5, <1>6 DEF Turned
<1> QED BY <1>7, TurnKeeps

\* The batch is planned by its run.
LEMMA FreshKeeps ==
    ASSUME FlowInv, NEW r \in Run, FreshValidate(r) PROVE FlowInv'
<1>1. UNCHANGED <<status, claim, closeBad, unmerged, landed, receipt, lease, fin, oldEvent, moved,
                  rehomed, stolen, log, nextBatch, rank, bat, held, remaining, mres, quiet>>
  BY DEF FreshValidate, board, ghosts
<1>2. phase[r] = "planned" /\ plannedBy' = [plannedBy EXCEPT ![bat[r]] = r]
  BY DEF FreshValidate
<1>3. PICK S \in FreshSelections(sel[r]) :
        /\ sel' = [sel EXCEPT ![r] = S]
        /\ step' = [step EXCEPT ![r] = [t \in Task |-> IF t \in S THEN "selected" ELSE "none"]]
        /\ phase' = [phase EXCEPT ![r] = IF S = {} THEN "closing" ELSE "working"]
  BY DEF FreshValidate
<1>4. S \in SUBSET Task
  <2>1. sel[r] \in SUBSET Task
    BY DEF FlowInv, RunShape
  <2>2. {t \in Task : Eligible(t)} \in SUBSET Task
    OBVIOUS
  <2> QED BY <2>1, <2>2 DEF FreshSelections
<1>5. /\ Live(r) /\ bat[r] # 0 /\ bat[r] \in Batch
      /\ \A u \in Task : step[r][u] = "none" /\ mres[r][u] = "none"
  BY <1>2, AtRest
<1>6. /\ sel' \in [Run -> SUBSET Task] /\ sel'[r] = S /\ \A q \in Run : q # r => sel'[q] = sel[q]
  BY <1>3, <1>4 DEF FlowInv, RunShape
<1>7. /\ step' \in [Run -> [Task -> StepNames]] /\ \A q \in Run : q # r => step'[q] = step[q]
      /\ \A u \in Task : step'[r][u] = IF u \in S THEN "selected" ELSE "none"
  <2>1. [t \in Task |-> IF t \in S THEN "selected" ELSE "none"] \in [Task -> StepNames]
    BY StepKinds
  <2> QED BY <2>1, <1>3 DEF FlowInv, RunShape
<1>8. /\ bat' \in [Run -> 0 .. NBatches]
      /\ nextBatch' \in 1 .. NBatches + 1 /\ nextBatch <= nextBatch'
      /\ remaining' \in [Run -> SUBSET Task] /\ held' \in [Run -> [Task -> Claims]]
      /\ mres' \in [Run -> [Task -> Results]]
  BY <1>1, FlowAssumption DEF FlowInv, RunShape
<1>9. plannedBy[bat[r]] = 0
  BY <1>2 DEF FlowInv, RunPhases
<1>10. /\ plannedBy' \in [Batch -> 0 .. NRuns] /\ plannedBy'[bat[r]] = r
       /\ \A b \in Batch : b # bat[r] => plannedBy'[b] = plannedBy[b]
  BY <1>2, <1>5, FlowAssumption DEF FlowInv, RunShape, Run
<1> DEFINE p == IF S = {} THEN "closing" ELSE "working"
<1>11. p \in {"working", "closing"} /\ (S # {} => p = "working") /\ phase' = [phase EXCEPT ![r] = p]
  BY <1>3
<1> HIDE DEF p
<1>12. \A u \in Task :
         /\ step'[r][u] \in {"none", "selected", "resume"} /\ step'[r][u] # "resume"
         /\ step'[r][u] # "none" => p = "working" /\ u \in sel'[r]
         /\ plannedBy'[bat'[r]] = r
         /\ mres'[r][u] = "none" /\ held'[r][u] = held[r][u] /\ p # "entering"
  BY <1>1, <1>5, <1>6, <1>7, <1>10, <1>11
<1>13. Turned(r, p)
  BY <1>1, <1>2, <1>5, <1>6, <1>7, <1>8, <1>9, <1>10, <1>11, <1>12 DEF Turned
<1> QED BY <1>11, <1>13, TurnKeeps

\* A batch is resumed, or a new one is planned.
LEMMA ResumeKeeps ==
    ASSUME FlowInv, NEW r \in Run, ResumeOrPlan(r) PROVE FlowInv'
<1>1. UNCHANGED <<status, claim, closeBad, unmerged, landed, receipt, lease, fin, oldEvent, moved,
                  rehomed, stolen, log, plannedBy, rank, held, remaining, mres, quiet>>
  BY DEF ResumeOrPlan, board, ghosts
<1>2. phase[r] = "recovering" /\ remaining[r] = {}
  BY DEF ResumeOrPlan
<1>3. /\ Live(r) /\ \A u \in Task : step[r][u] = "none" /\ mres[r][u] = "none"
  BY <1>2, AtRest
<1>4. /\ plannedBy' \in [Batch -> 0 .. NRuns] /\ remaining' \in [Run -> SUBSET Task]
      /\ held' \in [Run -> [Task -> Claims]] /\ mres' \in [Run -> [Task -> Results]]
      /\ nextBatch \in 1 .. NBatches + 1
  BY <1>1 DEF FlowInv, RunShape
<1>5. CASE Unfinished = {}
  <2>1. NewBatch(r) /\ UNCHANGED <<sel, step>>
    BY <1>5 DEF ResumeOrPlan
  <2>2. /\ bat' \in [Run -> 0 .. NBatches]
        /\ \A q \in Run : bat'[q] = IF q = r THEN nextBatch ELSE bat[q]
        /\ nextBatch \in Batch /\ nextBatch' = nextBatch + 1
        /\ nextBatch' \in 1 .. NBatches + 1 /\ plannedBy[nextBatch] = 0
    BY <2>1, <1>2, NewBatchIs
  <2>3. phase' = [phase EXCEPT ![r] = "planning"]
    BY <2>1 DEF NewBatch
  <2>4. /\ step' \in [Run -> [Task -> StepNames]] /\ sel' \in [Run -> SUBSET Task]
    BY <2>1 DEF FlowInv, RunShape
  <2>5. nextBatch < nextBatch' /\ nextBatch # 0 /\ nextBatch <= nextBatch'
    BY <2>2, <1>4, FlowAssumption
  <2>6. \A q \in Run : phase[q] \in {"planning", "planned"} => bat[q] # nextBatch
    <3>1. \A q \in Run : phase[q] \in {"planning", "planned"} => bat[q] < nextBatch
      BY DEF FlowInv, RunPhases
    <3> QED BY <3>1, <1>4, FlowAssumption DEF FlowInv, RunShape
  <2>7. Turned(r, "planning")
    BY <1>1, <1>2, <1>3, <1>4, <2>1, <2>2, <2>3, <2>4, <2>5, <2>6 DEF Turned
  <2> QED BY <2>7, TurnKeeps
<1>6. CASE Unfinished # {}
  <2> DEFINE b == CHOOSE x \in Unfinished : \A y \in Unfinished : x <= y
             R == IF HasReviewer THEN ClaimedReviewing(b) ELSE {}
  <2>1. b \in Batch /\ b \in 0 .. NBatches /\ b # 0
    <3>1. b \in Batch
      BY <1>6, OldestIs
    <3> HIDE DEF b
    <3> QED BY <3>1, FlowAssumption DEF Batch
  <2>2. /\ bat' = [bat EXCEPT ![r] = b] /\ phase' = [phase EXCEPT ![r] = "working"]
        /\ sel' = [sel EXCEPT ![r] = R]
        /\ step' = [step EXCEPT ![r] = [t \in Task |-> IF t \in R THEN "resume" ELSE "none"]]
        /\ UNCHANGED nextBatch
    BY <1>6 DEF ResumeOrPlan, ResumeReviewing
  <2>3. R \subseteq Task /\ \A t \in R : HasReviewer /\ status[t] = "reviewing"
    BY DEF ClaimedReviewing
  <2> HIDE DEF b, R
  <2>4. [t \in Task |-> IF t \in R THEN "resume" ELSE "none"] \in [Task -> StepNames]
    BY StepKinds
  <2>5. /\ bat' \in [Run -> 0 .. NBatches]
        /\ bat'[r] # 0 /\ \A q \in Run : q # r => bat'[q] = bat[q]
    BY <2>1, <2>2 DEF FlowInv, RunShape
  <2>6. /\ sel' \in [Run -> SUBSET Task] /\ sel'[r] = R /\ \A q \in Run : q # r => sel'[q] = sel[q]
        /\ step' \in [Run -> [Task -> StepNames]] /\ \A q \in Run : q # r => step'[q] = step[q]
        /\ \A u \in Task : step'[r][u] = IF u \in R THEN "resume" ELSE "none"
    BY <2>2, <2>3, <2>4 DEF FlowInv, RunShape
  <2>7. nextBatch' \in 1 .. NBatches + 1 /\ nextBatch <= nextBatch'
    BY <2>2, <1>4, FlowAssumption
  <2>8. Turned(r, "working")
    BY <1>1, <1>2, <1>3, <1>4, <2>2, <2>3, <2>5, <2>6, <2>7 DEF Turned
  <2> QED BY <2>8, TurnKeeps
<1> QED BY <1>5, <1>6

\* The merge selects what is ready.
LEMMA OverKeeps ==
    ASSUME FlowInv, NEW r \in Run, TasksOver(r) PROVE FlowInv'
<1>1. UNCHANGED <<status, claim, closeBad, unmerged, landed, receipt, lease, fin, oldEvent, moved,
                  rehomed, stolen, log, plannedBy, nextBatch, rank, bat, sel, quiet>>
  BY DEF TasksOver, board, ghosts
<1>2. phase[r] = "working" /\ \A t \in sel[r] : step[r][t] \in {"ok", "bad"}
  BY DEF TasksOver
<1>3. /\ Live(r) /\ \A u \in Task : step[r][u] \in {"none", "ok", "bad"} /\ mres[r][u] = "none"
  BY <1>2 DEF FlowInv, RunPhases, Live
<1>4. bat[r] # 0
  BY <1>2 DEF FlowInv, RunPhases
<1>5. /\ step' \in [Run -> [Task -> StepNames]] /\ \A q \in Run : q # r => step'[q] = step[q]
      /\ \A u \in Task : step'[r][u] = "none"
  <2>1. [t \in Task |-> "none"] \in [Task -> StepNames]
    BY StepKinds
  <2> QED BY <2>1 DEF TasksOver, FlowInv, RunShape
<1>6. /\ bat' \in [Run -> 0 .. NBatches] /\ plannedBy' \in [Batch -> 0 .. NRuns]
      /\ nextBatch' \in 1 .. NBatches + 1 /\ nextBatch <= nextBatch'
      /\ sel' \in [Run -> SUBSET Task]
  BY <1>1, FlowAssumption DEF FlowInv, RunShape
<1>7. CASE \E t \in sel[r] : step[r][t] = "bad"
  <2>1. phase' = [phase EXCEPT ![r] = "closing"] /\ UNCHANGED <<remaining, held, mres>>
    BY <1>7 DEF TasksOver
  <2>2. /\ remaining' \in [Run -> SUBSET Task] /\ held' \in [Run -> [Task -> Claims]]
        /\ mres' \in [Run -> [Task -> Results]]
    BY <2>1 DEF FlowInv, RunShape
  <2>3. Turned(r, "closing")
    BY <1>1, <1>2, <1>3, <1>4, <1>5, <1>6, <2>1, <2>2 DEF Turned
  <2> QED BY <2>3, TurnKeeps
<1>8. CASE ~\E t \in sel[r] : step[r][t] = "bad"
  <2> DEFINE M == MergeSelected(r)
             p == IF M = {} THEN "settling" ELSE "entering"
  <2>1. /\ remaining' = [remaining EXCEPT ![r] = M]
        /\ mres' = [mres EXCEPT ![r] = [t \in Task |-> IF t \in M THEN "enter" ELSE "none"]]
        /\ held' = [held EXCEPT ![r] = [t \in Task |-> IF t \in M THEN claim[t] ELSE held[r][t]]]
        /\ phase' = [phase EXCEPT ![r] = p]
    BY <1>8 DEF TasksOver
  <2>2. M \subseteq Task /\ \A t \in M : status[t] = "waiting_for_merge" /\ claim[t] # NoClaim
    BY DEF MergeSelected
  <2>3. p \in {"settling", "entering"} /\ \A t \in M : p = "entering"
    OBVIOUS
  <2> HIDE DEF M, p
  <2>4. /\ remaining' \in [Run -> SUBSET Task] /\ remaining'[r] = M /\ \A q \in Run : q # r => remaining'[q] = remaining[q]
    BY <2>1, <2>2 DEF FlowInv, RunShape
  <2>5. /\ mres' \in [Run -> [Task -> Results]] /\ \A q \in Run : q # r => mres'[q] = mres[q]
        /\ \A u \in Task : mres'[r][u] = IF u \in M THEN "enter" ELSE "none"
    <3>1. [t \in Task |-> IF t \in M THEN "enter" ELSE "none"] \in [Task -> Results]
      BY DEF Results
    <3> QED BY <3>1, <2>1 DEF FlowInv, RunShape
  <2>6. /\ held' \in [Run -> [Task -> Claims]] /\ \A q \in Run : q # r => held'[q] = held[q]
        /\ \A u \in Task : held'[r][u] = IF u \in M THEN claim[u] ELSE held[r][u]
    <3>1. [t \in Task |-> IF t \in M THEN claim[t] ELSE held[r][t]] \in [Task -> Claims]
      BY DEF FlowInv, RunShape, BoardShape
    <3> QED BY <3>1, <2>1 DEF FlowInv, RunShape
  <2>7. \A u \in Task :
          /\ mres'[r][u] \in {"none", "enter"}
          /\ mres'[r][u] = "enter" => /\ p = "entering" /\ status[u] = "waiting_for_merge"
                                      /\ held'[r][u] # NoClaim
          /\ u \in remaining'[r] => mres'[r][u] = "enter"
          /\ held'[r][u] \in {held[r][u], claim[u], NoClaim}
    BY <2>2, <2>3, <2>4, <2>5, <2>6
  <2>8. Turned(r, p)
    BY <1>1, <1>2, <1>3, <1>4, <1>5, <1>6, <2>1, <2>3, <2>4, <2>5, <2>6, <2>7 DEF Turned
  <2> QED BY <2>3, <2>8, TurnKeeps
<1> QED BY <1>7, <1>8

\* A batch is over.
LEMMA BatchKeeps ==
    ASSUME FlowInv, NEW r \in Run, BatchOver(r) PROVE FlowInv'
<1>1. UNCHANGED <<status, claim, closeBad, unmerged, landed, receipt, lease, fin, oldEvent, moved,
                  rehomed, stolen, log, plannedBy, rank, step, remaining, quiet>>
  BY DEF BatchOver, board, ghosts
<1>2. phase[r] \in {"settling", "merging"} /\ Live(r)
  BY DEF BatchOver, Live
<1>3. \A u \in Task : step[r][u] = "none" /\ mres[r][u] \in {"none", "merged", "pending", "bad"}
  BY <1>2 DEF BatchOver, Merged, FlowInv, RunPhases
<1>4. /\ sel' \in [Run -> SUBSET Task] /\ \A q \in Run : q # r => sel'[q] = sel[q]
  BY DEF BatchOver, FlowInv, RunShape
<1>5. /\ mres' \in [Run -> [Task -> Results]] /\ \A q \in Run : q # r => mres'[q] = mres[q]
      /\ \A u \in Task : mres'[r][u] = "none"
  <2>1. [t \in Task |-> "none"] \in [Task -> Results]
    BY DEF Results
  <2> QED BY <2>1 DEF BatchOver, FlowInv, RunShape
<1>6. /\ held' \in [Run -> [Task -> Claims]] /\ \A q \in Run : q # r => held'[q] = held[q]
      /\ \A u \in Task : held'[r][u] = NoClaim
  <2>1. [t \in Task |-> NoClaim] \in [Task -> Claims]
    BY DEF Claims
  <2> QED BY <2>1 DEF BatchOver, FlowInv, RunShape
<1>7. /\ plannedBy' \in [Batch -> 0 .. NRuns] /\ remaining' \in [Run -> SUBSET Task]
      /\ step' \in [Run -> [Task -> StepNames]] /\ nextBatch \in 1 .. NBatches + 1
      /\ bat \in [Run -> 0 .. NBatches]
  BY <1>1 DEF FlowInv, RunShape
<1>8. CASE NewBatch(r)
  <2>2. /\ bat' \in [Run -> 0 .. NBatches]
        /\ \A q \in Run : bat'[q] = IF q = r THEN nextBatch ELSE bat[q]
        /\ nextBatch \in Batch /\ nextBatch' = nextBatch + 1
        /\ nextBatch' \in 1 .. NBatches + 1 /\ plannedBy[nextBatch] = 0
    BY <1>8, <1>2, NewBatchIs
  <2>3. phase' = [phase EXCEPT ![r] = "planning"]
    BY <1>8 DEF NewBatch
  <2>4. nextBatch < nextBatch' /\ nextBatch # 0 /\ nextBatch <= nextBatch'
    BY <2>2, <1>7, FlowAssumption
  <2>5. \A q \in Run : phase[q] \in {"planning", "planned"} => bat[q] # nextBatch
    <3>1. \A q \in Run : phase[q] \in {"planning", "planned"} => bat[q] < nextBatch
      BY DEF FlowInv, RunPhases
    <3> QED BY <3>1, <1>7, FlowAssumption
  <2>6. Turned(r, "planning")
    BY <1>1, <1>2, <1>3, <1>4, <1>5, <1>6, <1>7, <2>2, <2>3, <2>4, <2>5 DEF Turned
  <2> QED BY <2>6, TurnKeeps
<1>9. CASE phase' = [phase EXCEPT ![r] = "closing"] /\ UNCHANGED <<bat, nextBatch>>
  <2>1. bat' \in [Run -> 0 .. NBatches] /\ nextBatch' \in 1 .. NBatches + 1 /\ nextBatch <= nextBatch'
    BY <1>7, <1>9, FlowAssumption
  <2>2. Turned(r, "closing")
    BY <1>1, <1>2, <1>3, <1>4, <1>5, <1>6, <1>7, <1>9, <2>1 DEF Turned
  <2> QED BY <2>2, TurnKeeps
<1> QED BY <1>8, <1>9 DEF BatchOver

\* A run is killed.
LEMMA CrashKeeps ==
    ASSUME FlowInv, NEW r \in Run, Crash(r) PROVE FlowInv'
<1>1. UNCHANGED <<status, claim, closeBad, unmerged, landed, receipt, fin, oldEvent, moved,
                  rehomed, stolen, log, plannedBy, nextBatch, rank, bat>>
  BY DEF Crash, board, ghosts
<1>2. /\ phase' \in [Run -> Pcs] /\ Live(r)
      /\ \A q \in Run : phase'[q] = IF q = r THEN "dead" ELSE phase[q]
  BY DEF Crash, FlowInv, RunShape, Pcs
<1>3. \A u \in Task : /\ HasEvent(u)' <=> HasEvent(u)
                      /\ Excused(u)' <=> Excused(u)
                      /\ Started(u)' <=> Started(u)
                      /\ Finished(u)' <=> Finished(u)
  BY <1>1 DEF HasEvent, Excused, Started, Finished
<1>4. /\ lease' \in [Task -> 0 .. NRuns]
      /\ \A u \in Task : lease'[u] = IF lease[u] = r THEN 0 ELSE lease[u]
  BY FlowAssumption DEF Crash, FlowInv, BoardShape
<1>5. /\ sel' \in [Run -> SUBSET Task] /\ remaining' \in [Run -> SUBSET Task]
      /\ step' \in [Run -> [Task -> StepNames]] /\ held' \in [Run -> [Task -> Claims]]
      /\ mres' \in [Run -> [Task -> Results]] /\ quiet' \in [Run -> BOOLEAN]
  <2>1. /\ [t \in Task |-> "none"] \in [Task -> StepNames] /\ [t \in Task |-> "none"] \in [Task -> Results]
        /\ [t \in Task |-> NoClaim] \in [Task -> Claims]
    BY StepKinds DEF Results, Claims
  <2> QED BY <2>1 DEF Crash, FlowInv, RunShape
<1>6. /\ \A q \in Run : q # r => /\ sel'[q] = sel[q] /\ remaining'[q] = remaining[q] /\ quiet'[q] = quiet[q]
                                 /\ step'[q] = step[q] /\ held'[q] = held[q] /\ mres'[q] = mres[q]
      /\ ~quiet'[r]
      /\ \A u \in Task : step'[r][u] = "none" /\ mres'[r][u] = "none" /\ held'[r][u] = NoClaim
  BY DEF Crash, FlowInv, RunShape
<1>7. \A q \in Run, u \in Task : /\ step'[q][u] \in {step[q][u], "none"}
                                 /\ mres'[q][u] \in {mres[q][u], "none"}
                                 /\ held'[q][u] \in {held[q][u], NoClaim}
  BY <1>6
<1>8. \A q \in Run : (Live(q)' => Live(q)) /\ (phase'[q] = "off" <=> phase[q] = "off") /\ (quiet'[q] => quiet[q] /\ q # r)
  BY <1>2, <1>6 DEF Live
<1>9. BoardShape'
  BY <1>1, <1>4 DEF FlowInv, BoardShape, Status
<1>10. RunShape'
  BY <1>1, <1>2, <1>5 DEF FlowInv, RunShape, Pcs, StepNames, Results, Implementing, Recording,
     Reviewing
<1>11. RunPhases'
  BY <1>1, <1>2, <1>6 DEF FlowInv, RunPhases, Implementing, Recording, Reviewing
<1>12. BatchesUnique'
  BY <1>1, <1>2 DEF FlowInv, BatchesUnique
<1>13. ClaimsPlanned'
  BY <1>1, <1>7 DEF FlowInv, ClaimsPlanned
<1>14. ClaimsShown'
  BY <1>1 DEF FlowInv, ClaimsShown, ClaimPreserving, ClaimActive
<1>15. Leases'
  <2> SUFFICES ASSUME NEW u \in Task, lease'[u] # 0 PROVE step'[lease'[u]][u] \in {"implementer", "reviewer"}
    BY DEF Leases
  <2>1. lease'[u] = lease[u] /\ lease[u] # r /\ lease[u] \in Run
    BY <1>4, LeaseRun
  <2> QED BY <2>1, <1>6 DEF FlowInv, Leases
<1>16. EventsCurrent'
  BY <1>1, <1>3 DEF FlowInv, EventsCurrent
<1>17. StartedFirst'
  BY <1>1, <1>3, <1>7 DEF FlowInv, StartedFirst, Recording, Reviewing
<1>18. OneImplements'
  <2> SUFFICES ASSUME NEW q \in Run, NEW u \in Task, step'[q][u] \in Implementing, ~Excused(u)'
               PROVE  /\ ~HasEvent(u)' /\ status'[u] = "implementing"
                      /\ \A p \in Run : step'[p][u] \in Implementing => p = q
    BY DEF OneImplements
  <2>1. step[q][u] \in Implementing /\ ~Excused(u)
    BY <1>3, <1>7 DEF Implementing
  <2>2. /\ ~HasEvent(u) /\ status[u] = "implementing"
        /\ \A p \in Run : step[p][u] \in Implementing => p = q
    BY <2>1 DEF FlowInv, OneImplements
  <2>3. \A s \in Run : step'[s][u] \in Implementing => step[s][u] \in Implementing
    BY <2>1, <2>2, <1>7 DEF Implementing
  <2> QED BY <2>1, <2>2, <2>3, <1>1, <1>3
<1>19. ReadyFinished'
  BY <1>1, <1>3, <1>7 DEF FlowInv, ReadyFinished
<1>20. ClosedLanded'
  BY <1>1, <1>7 DEF FlowInv, ClosedLanded
<1>21. Alone'
  BY <1>8 DEF FlowInv, Alone
<1>22. Accounted'
  BY <1>1, <1>2, <1>6, <1>8 DEF FlowInv, Accounted
<1>23. Quieted'
  <2>1. \A q \in Run : LastQuietRun(q)' => LastQuietRun(q)
    BY <1>2, <1>8 DEF LastQuietRun
  <2> QED BY <2>1, <1>1 DEF FlowInv, Quieted
<1> QED BY <1>9, <1>10, <1>11, <1>12, <1>13, <1>14, <1>15, <1>16, <1>17, <1>18, <1>19, <1>20,
           <1>21, <1>22, <1>23 DEF FlowInv

-----------------------------------------------------------------------------
(* The invariant and the theorems *)

\* The board, the runs and their logs start empty: the invariant holds.
LEMMA FlowInitial == FlowInit => FlowInv
<1> SUFFICES ASSUME FlowInit PROVE FlowInv
  OBVIOUS
<1>1. /\ landed = [t \in Task |-> FALSE] /\ receipt = [t \in Task |-> FALSE]
      /\ claim = [t \in Task |-> NoClaim] /\ lease = [t \in Task |-> 0]
      /\ log = [r \in Run |-> [t \in Task |-> NoEvent]] /\ plannedBy = [b \in Batch |-> 0]
      /\ phase = [r \in Run |-> "off"] /\ step = [r \in Run |-> [t \in Task |-> "none"]]
      /\ held = [r \in Run |-> [t \in Task |-> NoClaim]] /\ mres = [r \in Run |-> [t \in Task |-> "none"]]
      /\ fin = [t \in Task |-> "none"] /\ quiet = [r \in Run |-> FALSE]
  BY DEF FlowInit
<1>2. \A t \in Task : status[t] \in {"inbox", "ready_for_agent"}
  BY DEF FlowInit
<1>3. BoardShape
  BY FlowAssumption DEF FlowInit, BoardShape, Status, Claims
<1>4. RunShape
  <2>1. NoEvent \in Events /\ NoClaim \in Claims
    BY FlowAssumption DEF NoEvent, Events, Claims
  <2>2. [t \in Task |-> "none"] \in [Task -> StepNames] /\ [t \in Task |-> "none"] \in [Task -> Results]
    BY StepKinds DEF Results
  <2>3. rank \in [Run -> Run] /\ \A q, r \in Run : rank[q] = rank[r] => q = r
    BY DEF FlowInit
  <2>4. nextBatch \in 1 .. NBatches + 1 /\ 0 \in 0 .. NBatches /\ 0 \in 0 .. NRuns
    BY FlowAssumption DEF FlowInit
  <2> QED BY <1>1, <2>1, <2>2, <2>3, <2>4 DEF FlowInit, RunShape, Pcs
<1>5. RunPhases
  BY <1>1 DEF RunPhases, Implementing, Recording, Reviewing
<1>6. BatchesUnique /\ ClaimsPlanned /\ Leases /\ Alone /\ Quieted /\ Accounted
  BY <1>1 DEF BatchesUnique, ClaimsPlanned, Leases, Alone, Quieted, LastQuietRun, Accounted, Live
<1>7. ClaimsShown
  BY <1>1, <1>2 DEF ClaimsShown, ClaimActive, NoEvent
<1>8. EventsCurrent
  BY <1>1 DEF EventsCurrent, HasEvent, NoEvent
<1>9. StartedFirst /\ OneImplements /\ ReadyFinished
  BY <1>1, <1>2 DEF StartedFirst, OneImplements, ReadyFinished, Implementing, Recording,
     Reviewing, NoEvent
<1>10. ClosedLanded
  BY <1>1, <1>2 DEF ClosedLanded
<1> QED BY <1>3, <1>4, <1>5, <1>6, <1>7, <1>8, <1>9, <1>10 DEF FlowInv

\* Every step of a run and of its environment keeps the invariant: one step of the
\* proof for each action.
LEMMA FlowStep == FlowInv /\ [FlowNext]_flowVars => FlowInv'
<1> SUFFICES ASSUME FlowInv, [FlowNext]_flowVars PROVE FlowInv'
  OBVIOUS
<1>1. ASSUME NEW r \in Run, RunStep(r) PROVE FlowInv'
  <2>1. CASE DetectInterrupted(r) \/ RecoverOne(r) \/ ResumeOrPlan(r)
    BY <2>1, DetectKeeps, RecoverKeeps, ResumeKeeps
  <2>2. CASE PlanBatch(r) \/ FreshValidate(r) \/ TasksOver(r)
    BY <2>2, PlanKeeps, FreshKeeps, OverKeeps
  <2>3. CASE EnterMergePhase(r) \/ BatchOver(r) \/ EndRun(r)
    BY <2>3, EnterKeeps, BatchKeeps, EndKeeps
  <2>4. ASSUME NEW t \in Task, TaskStep(r, t) PROVE FlowInv'
    BY <2>4, TaskStepKeeps
  <2>5. ASSUME NEW t \in Task, MergeStep(r, t) PROVE FlowInv'
    BY <2>5, MergeStepKeeps
  <2> QED BY <1>1, <2>1, <2>2, <2>3, <2>4, <2>5 DEF RunStep
<1>2. CASE FlowEnvironment
  <2>1. ASSUME NEW r \in Run, StartRun(r) \/ Crash(r) PROVE FlowInv'
    BY <2>1, RunStartKeeps, CrashKeeps
  <2>2. ASSUME NEW r \in Run, NEW t \in Task, ProviderRetry(r, t) PROVE FlowInv'
    BY <2>2, RetryKeeps
  <2>3. CASE UserRecoverStale
    BY <2>3, StaleKeeps
  <2>4. ASSUME NEW t \in Task, UserRecover(t) \/ UserReopen(t) PROVE FlowInv'
    BY <2>4, UserRecoverKeeps, ReopenKeeps
  <2> QED BY <1>2, <2>1, <2>2, <2>3, <2>4 DEF FlowEnvironment
<1>3. CASE UNCHANGED flowVars
  <2>1. UNCHANGED <<status, claim, closeBad, unmerged, landed, receipt, lease, fin, oldEvent,
                    moved, rehomed, stolen, log, plannedBy, nextBatch, rank, phase, bat, sel, remaining, step,
                    held, mres, quiet>>
    BY <1>3 DEF flowVars, board, runVars, ghosts
  <2>2. (BoardShape /\ RunShape /\ RunPhases /\ BatchesUnique /\ ClaimsPlanned /\ ClaimsShown /\ Leases)'
    BY <2>1 DEF FlowInv, BoardShape, RunShape, RunPhases, BatchesUnique, ClaimsPlanned,
       ClaimsShown, Leases
  <2>3. \A u \in Task : /\ HasEvent(u)' <=> HasEvent(u)
                        /\ Excused(u)' <=> Excused(u)
                        /\ Started(u)' <=> Started(u)
                        /\ Finished(u)' <=> Finished(u)
    BY <2>1 DEF HasEvent, Excused, Started, Finished
  <2>4. (EventsCurrent /\ StartedFirst /\ OneImplements /\ ReadyFinished /\ ClosedLanded)'
    BY <2>1, <2>3 DEF FlowInv, EventsCurrent, StartedFirst, OneImplements, ReadyFinished,
       ClosedLanded
  <2>5. (Alone /\ Accounted /\ Quieted)'
    BY <2>1 DEF FlowInv, Alone, Accounted, Quieted, Live, LastQuietRun
  <2> QED BY <2>2, <2>4, <2>5 DEF FlowInv
<1> QED BY <1>1, <1>2, <1>3 DEF FlowNext

\* The invariant always holds (every process of hubFlowExecution.ts, at every point).
LEMMA FlowAlways == FlowSpec => []FlowInv
BY FlowInitial, FlowStep, PTL DEF FlowSpec

\* The board is consistent and what it says has happened: a merging task has finished the
\* phases of its flow, a done task has landed, and after a run that was alone nothing is
\* left half-way (runObservedHubFlow, recoverInterruptedHubTasks, recoverStaleExecutionStatus).
THEOREM BoardHolds == FlowSpec => []BoardIsTrue
<1>1. FlowInv => BoardIsTrue
  <2> SUFFICES ASSUME FlowInv PROVE BoardIsTrue
    OBVIOUS
  <2>1. FlowTypeOK
    <3>1. \A t \in Task : (claim[t] # NoClaim /\ status[t] # "failed") <=> status[t] \in ClaimActive
      BY DEF FlowInv, ClaimsShown, ClaimPreserving, ClaimActive
    <3> QED BY <3>1 DEF FlowTypeOK, FlowInv, BoardShape, Leases
  <2>2. MergedWasFinished
    BY DEF MergedWasFinished, FlowInv, ReadyFinished, Finished, Excused
  <2>3. NothingStranded
    <3> SUFFICES ASSUME NEW r \in Run, LastQuietRun(r), NEW t \in Task
                 PROVE  ~receipt[t] /\ (status[t] \in ClaimActive => Resumable(t) \/ rehomed[t])
      BY DEF NothingStranded
    <3>1. ~receipt[t] /\ status[t] \notin {"implementing", "merging"}
      BY DEF FlowInv, Quieted
    <3>2. status[t] \in ClaimActive => claim[t] # NoClaim /\ (status[t] = "reviewing" => HasReviewer)
      BY DEF FlowInv, ClaimsShown
    <3>3. claim[t] # NoClaim => plannedBy[claim[t].batch] = claim[t].run \/ rehomed[t]
      BY DEF FlowInv, ClaimsPlanned
    <3> QED BY <3>1, <3>2, <3>3 DEF Resumable, ClaimActive
  <2>4. DoneWasLanded
    BY DEF DoneWasLanded, FlowInv, ClosedLanded
  <2> QED BY <2>1, <2>2, <2>3, <2>4 DEF BoardIsTrue
<1> QED BY <1>1, FlowAlways, PTL

-----------------------------------------------------------------------------
(* Finished phases *)

\* Recovery along the log never makes a task ready again whose phase is logged.
LEMMA RecoveryForward ==
    ASSUME FlowInv, NEW t \in Task, RecoverTask(t), NEW u \in Task,
           status[u] \in InterruptedStatuses, fin[u] # "none"
    PROVE  status'[u] # "ready_for_agent"
<1>1. HasEvent(u) /\ RouteStatus(u) # "ready_for_agent"
  BY RouteFacts DEF FlowInv, EventsCurrent
<1>2. status[u] # "ready_for_agent" /\ status \in [Task -> Status]
  BY DEF InterruptedStatuses, FlowInv, BoardShape
<1>3. CASE RecoverStale(t)
  BY <1>1, <1>2, <1>3 DEF RecoverStale, UpdateStatus
<1>4. CASE RecoverCloseFailed(t)
  BY <1>2, <1>4 DEF RecoverCloseFailed, UpdateStatus
<1>5. CASE RecoverGenericFailed(t)
  BY <1>2, <1>5 DEF RecoverGenericFailed, UpdateStatus, InterruptedStatuses
<1> QED BY <1>3, <1>4, <1>5 DEF RecoverTask

\* A run makes no task ready again, but by recovery.
LEMMA TaskForward ==
    ASSUME FlowInv, NEW r \in Run, NEW t \in Task, TaskStep(r, t) \/ MergeStep(r, t), NEW u \in Task
    PROVE  status'[u] \in {status[u], "implementing", "reviewing", "waiting_for_merge", "failed",
                           "blocked", "done"}
<1> USE DEF FlowInv, BoardShape
<1>1. CASE \/ Gate(r, t) \/ ImplementerStarts(r, t) \/ ReviewerStarts(r, t) \/ ReviewerEnds(r, t)
           \/ ImplementedEvent(r, t) \/ ReviewedEvent(r, t)
  BY <1>1 DEF Gate, ImplementerStarts, ReviewerStarts, ReviewerEnds, ImplementedEvent,
     ReviewedEvent,
              LogSuccess, board
<1>2. CASE ImplementerEnds(r, t)
  BY <1>2 DEF ImplementerEnds, board
<1>3. CASE Claim(r, t)
  BY <1>3 DEF Claim, UpdateStatus, board
<1>4. CASE ResumeReview(r, t)
  BY <1>4 DEF ResumeReview, board
<1>5. CASE ImplementedStatus(r, t) \/ ReviewedStatus(r, t) \/ AlreadyMergedCloses(r, t)
  BY <1>5 DEF ImplementedStatus, ReviewedStatus, AlreadyMergedCloses, ShowSuccess, UpdateStatus,
              PostImplementation
<1>6. CASE AlreadyMerged(r, t)
  BY <1>6 DEF AlreadyMerged, LogSuccess, ShowSuccess, UpdateStatus, board
<1>7. CASE ImplementationFails(r, t) \/ ReviewFails(r, t)
  BY <1>7 DEF ImplementationFails, ReviewFails, ShowFailure, UpdateStatus
<1>8. CASE Land(r, t)
  BY <1>8 DEF Land, board
<1>9. CASE CloseLanded(r, t) \/ CloseFails(r, t)
  BY <1>9 DEF CloseLanded, CloseFails, UpdateStatus
<1>10. CASE MergePending(r, t) \/ MergeFails(r, t) \/ RepairExhausted(r, t)
  BY <1>10 DEF MergePending, MergeFails, RepairExhausted, NotLanded, UpdateStatus
<1> QED BY <1>1, <1>2, <1>3, <1>4, <1>5, <1>6, <1>7, <1>8, <1>9, <1>10
        DEF TaskStep, MergeStep, RecordReview

\* No step sends an interrupted task back to be implemented again when its implementation
\* is recorded as finished (recoverStaleExecutionStatus, routeInterruptedTaskRecovery).
THEOREM FinishedKept == FlowSpec => FinishedNotRedone
<1> DEFINE A == \A t \in Task : status[t] \in InterruptedStatuses /\ fin[t] # "none"
                  => status'[t] # "ready_for_agent"
<1>1. FlowInv /\ [FlowNext]_flowVars => A
  <2> SUFFICES ASSUME FlowInv, FlowNext \/ UNCHANGED flowVars, NEW u \in Task,
                      status[u] \in InterruptedStatuses, fin[u] # "none"
               PROVE  status'[u] # "ready_for_agent"
    OBVIOUS
  <2>1. status[u] # "ready_for_agent" /\ RouteStatus(u) # "ready_for_agent" /\ status \in [Task -> Status]
    BY RouteFacts DEF InterruptedStatuses, FlowInv, EventsCurrent, BoardShape
  <2>2. ASSUME NEW r \in Run, RunStep(r) PROVE status'[u] # "ready_for_agent"
    <3>1. CASE \/ DetectInterrupted(r) \/ ResumeOrPlan(r) \/ PlanBatch(r) \/ FreshValidate(r)
               \/ TasksOver(r) \/ BatchOver(r)
      BY <2>1, <3>1 DEF DetectInterrupted, ResumeOrPlan, PlanBatch, FreshValidate, TasksOver,
         BatchOver, board
    <3>2. CASE RecoverOne(r)
      <4>1. PICK t \in remaining[r] : IF Recoverable(t) THEN RecoverTask(t) ELSE UNCHANGED <<board, landed>>
        BY <3>2 DEF RecoverOne
      <4>2. t \in Task
        BY DEF FlowInv, RunShape
      <4> QED BY <2>1, <4>1, <4>2, RecoveryForward DEF board
    <3>3. CASE EnterMergePhase(r)
      BY <2>1, <3>3 DEF EnterMergePhase, UpdateStatus
    <3>4. CASE EndRun(r)
      BY <2>1, <3>4 DEF EndRun, ReconcileClose
    <3>5. ASSUME NEW t \in Task, TaskStep(r, t) \/ MergeStep(r, t) PROVE status'[u] # "ready_for_agent"
      BY <2>1, <3>5, TaskForward
    <3> QED BY <2>2, <3>1, <3>2, <3>3, <3>4, <3>5 DEF RunStep
  <2>3. CASE FlowEnvironment
    <3>1. ASSUME NEW r \in Run, StartRun(r) PROVE status'[u] # "ready_for_agent"
      BY <2>1, <3>1 DEF StartRun, ReconcileClose
    <3>2. ASSUME NEW r \in Run, Crash(r) PROVE status'[u] # "ready_for_agent"
      BY <2>1, <3>2 DEF Crash, board
    <3>3. ASSUME NEW r \in Run, NEW t \in Task, ProviderRetry(r, t) PROVE status'[u] # "ready_for_agent"
      BY <2>1, <3>3 DEF ProviderRetry, board
    <3>4. CASE UserRecoverStale
      BY <2>1, <3>4 DEF UserRecoverStale
    <3>5. ASSUME NEW t \in Task, UserRecover(t) PROVE status'[u] # "ready_for_agent"
      BY <3>5, RecoveryForward DEF UserRecover
    <3>6. ASSUME NEW t \in Task, UserReopen(t) PROVE status'[u] # "ready_for_agent"
      BY <2>1, <3>6 DEF UserReopen, UpdateStatus, InterruptedStatuses
    <3> QED BY <2>3, <3>1, <3>2, <3>3, <3>4, <3>5, <3>6 DEF FlowEnvironment
  <2>4. CASE UNCHANGED flowVars
    BY <2>1, <2>4 DEF flowVars, board
  <2> QED BY <2>2, <2>3, <2>4 DEF FlowNext
<1>2. FlowInv /\ [FlowNext]_flowVars => [A]_flowVars
  BY <1>1
<1> QED BY <1>2, FlowAlways, PTL DEF FlowSpec, FinishedNotRedone
=============================================================================
