----------------------------- MODULE WorktreeRun -----------------------------
(***************************************************************************)
(* Worktrees and their leases: src/src/WorktreeLease.ts (one lock file per *)
(* worktree name, created with O_EXCL, recovered when its owner is dead or *)
(* its worktree is gone), WorktreeManager.ts (prune, create, remove), and  *)
(* the three ways to use them: run() through SandboxFactory.ts,            *)
(* createWorktree() and createSandbox().  A process prunes, takes the      *)
(* lease and creates or reuses the worktree, in an order that depends on   *)
(* the entry point, works in it, removes or preserves it, and releases the *)
(* lease.                                                                  *)
(***************************************************************************)
EXTENDS Naturals, Sequences, FiniteSets

CONSTANTS
    Proc,         \* processes
    Entries,      \* the entry points in use, of "run", "worktree" and "sandbox"
    Branch,       \* explicit branches: two processes may name the same one
    Temporary,    \* processes that also work on temporary branches (merge-to-head)
    None,         \* no lease, no worktree
    MaxCrashes,   \* bound: crashes of processes
    MaxFailures   \* bound: prunes and git status commands that fail

ASSUME WorktreeAssumption ==
    /\ Entries \subseteq {"run", "worktree", "sandbox"} /\ None \notin Entries
    /\ Branch \cap Proc = {} /\ Temporary \subseteq Proc /\ None \notin Branch \cup Proc
    /\ None \notin [by : [proc : Proc, epoch : 0 .. MaxCrashes], written : BOOLEAN]
    /\ MaxCrashes \in Nat /\ MaxFailures \in Nat

\* A worktree is named after its branch; the timestamped branch of merge-to-head is
\* a name of the process's own.
Name == Branch \cup Temporary

VARIABLES
    dir,       \* the managed worktree exists and git knows it
    dirty,     \* it has uncommitted changes
    lease,     \* the lock file: who created it, and whether it names its owner yet
    epoch,     \* the incarnation of a process: its pid
    entry,     \* how a process uses the worktree, None when it uses none
    name,      \* which one
    at,        \* the phase of the entry point
    pc,        \* the step of the phase
    doomed,    \* the lock files a prune found stale
    mixed,     \* history: worktrees two processes have been in at once
    robbed,    \* history: the lease of this run was removed by another step than its release
    crashes, failures

world == <<dir, dirty, lease>>
who == <<epoch, entry, name>>
vars == <<world, who, at, pc, doomed, mixed, robbed, crashes, failures>>


Pid == [proc : Proc, epoch : 0 .. MaxCrashes]
Self(p) == [proc |-> p, epoch |-> epoch[p]]

\* The lock file of p, before and after its content is written.
Opened(p) == [by |-> Self(p), written |-> FALSE]
Lock(p) == [by |-> Self(p), written |-> TRUE]

\* Mutant of Alive: every pid answers.
AliveAlways(o) == TRUE

\* isProcessAlive: the process of that pid has not ended.
Alive(o) == o.epoch = epoch[o.proc]

\* The lock file names an owner (parseLeaseMetadata).
Written(n) == lease[n] # None /\ lease[n].written

-----------------------------------------------------------------------------
(* The order of the phases *)

\* run() with an explicit branch takes the lease first; createWorktree and
\* createSandbox prune first; the lease of a temporary branch comes last, when the
\* branch has its name (acquireLeasedWorktree).
Order(e, temp) ==
    CASE temp -> <<"prune", "create", "lease", "setup", "use", "clean", "release">>
      [] ~temp /\ e = "run" -> <<"lease", "prune", "create", "setup", "use", "clean", "release">>
      [] ~temp /\ e # "run" -> <<"prune", "lease", "create", "setup", "use", "clean", "release">>

Phase(p) == IF entry[p] = None THEN "idle" ELSE Order(entry[p], name[p] = p)[at[p]]

FirstStep(phase) ==
    CASE phase = "lease" -> "check"
      [] phase = "prune" -> "scan"
      [] OTHER -> "start"

At(p, phase, step) == Phase(p) = phase /\ pc[p] = step

NextPhase(p) ==
    /\ at' = [at EXCEPT ![p] = @ + 1]
    /\ pc' = [pc EXCEPT ![p] = FirstStep(Order(entry[p], name[p] = p)[at[p] + 1])]
    /\ UNCHANGED <<entry, name>>

GotoPhase(p, phase) ==
    LET o == Order(entry[p], name[p] = p) IN
    /\ at' = [at EXCEPT ![p] = CHOOSE i \in DOMAIN o : o[i] = phase]
    /\ pc' = [pc EXCEPT ![p] = FirstStep(phase)]
    /\ UNCHANGED <<entry, name>>

Step(p, s) == pc' = [pc EXCEPT ![p] = s] /\ UNCHANGED <<entry, name, at>>

\* The call ends, with a result or an error.
End(p) ==
    /\ entry' = [entry EXCEPT ![p] = None] /\ name' = [name EXCEPT ![p] = None]
    /\ at' = [at EXCEPT ![p] = 1] /\ pc' = [pc EXCEPT ![p] = "start"]

Init ==
    /\ dir = [n \in Name |-> FALSE] /\ dirty = [n \in Name |-> FALSE]
    /\ lease = [n \in Name |-> None]
    /\ epoch = [p \in Proc |-> 0]
    /\ entry = [p \in Proc |-> None] /\ name = [p \in Proc |-> None]
    /\ at = [p \in Proc |-> 1] /\ pc = [p \in Proc |-> "start"]
    /\ doomed = [p \in Proc |-> {}] /\ mixed = {} /\ robbed = {}
    /\ crashes = 0 /\ failures = 0

\* run(), createWorktree() or createSandbox(), for an explicit branch or, but for
\* createSandbox, for a temporary one.
Call(p, e, n) ==
    /\ entry[p] = None
    /\ e \in Entries /\ n \in Branch \cup (Temporary \cap {p}) /\ (n = p => e # "sandbox")
    /\ entry' = [entry EXCEPT ![p] = e] /\ name' = [name EXCEPT ![p] = n]
    /\ at' = [at EXCEPT ![p] = 1]
    /\ pc' = [pc EXCEPT ![p] = FirstStep(Order(e, n = p)[1])]
    /\ robbed' = robbed \ {p}
    /\ UNCHANGED <<world, epoch, doomed, mixed, crashes, failures>>

-----------------------------------------------------------------------------
(* The lease *)

\* The lock files ns go; whoever relied on one is robbed.
RemoveLeases(ns) ==
    /\ lease' = [n \in Name |-> IF n \in ns THEN None ELSE lease[n]]
    /\ robbed' = robbed \cup {q \in Proc : \E n \in ns : lease[n] = Lock(q) /\ name[q] = n}

\* recoverStaleWorktreeLeaseIfNeeded, up to its decision.  A lock file that cannot be
\* parsed, or names a live process, makes the acquisition fail.
Recover(p, available, remove) ==
    LET n == name[p] IN
    \/ lease[n] = None /\ Step(p, available)
    \/ lease[n] # None /\ ~dir[n] /\ Step(p, remove)
    \/ dir[n] /\ Written(n) /\ ~Alive(lease[n].by) /\ Step(p, remove)
    \/ dir[n] /\ Written(n) /\ Alive(lease[n].by) /\ End(p)
    \/ dir[n] /\ lease[n] # None /\ ~Written(n) /\ End(p)

\* ensureLeaseAvailableForAcquisition, before the first and the second attempt
CheckLease(p) ==
    /\ \/ At(p, "lease", "check") /\ Recover(p, "open", "remove")
       \/ At(p, "lease", "recheck") /\ Recover(p, "reopen", "reremove")
    /\ UNCHANGED <<world, epoch, doomed, mixed, robbed, crashes, failures>>

\* removeLeaseFile: whatever the file says by now
RemoveStale(p) ==
    /\ \/ At(p, "lease", "remove") /\ Step(p, "open")
       \/ At(p, "lease", "reremove") /\ Step(p, "reopen")
    /\ RemoveLeases({name[p]})
    /\ UNCHANGED <<dir, dirty, epoch, doomed, mixed, crashes, failures>>

\* Mutant of CanOpen: the lock file is opened with "w".
CanOpenAlways(n) == TRUE

\* open(path, "wx")
CanOpen(n) == lease[n] = None

\* createLeaseFileAtomic: EEXIST is tried again once
OpenLease(p) ==
    /\ Phase(p) = "lease" /\ pc[p] \in {"open", "reopen"}
    /\ LET n == name[p] IN
         \/ CanOpen(n) /\ lease' = [lease EXCEPT ![n] = Opened(p)] /\ Step(p, "write")
         \/ ~CanOpen(n) /\ pc[p] = "open" /\ Step(p, "recheck") /\ UNCHANGED lease
         \/ ~CanOpen(n) /\ pc[p] = "reopen" /\ End(p) /\ UNCHANGED lease
    /\ UNCHANGED <<dir, dirty, epoch, doomed, mixed, robbed, crashes, failures>>

\* The content is written through the open handle: lost when the file was removed.
WriteLease(p) ==
    /\ At(p, "lease", "write")
    /\ LET n == name[p] IN
         \/ lease[n] = Opened(p) /\ lease' = [lease EXCEPT ![n] = Lock(p)] /\ UNCHANGED robbed
         \/ lease[n] # Opened(p) /\ robbed' = robbed \cup {p} /\ UNCHANGED lease
    /\ NextPhase(p)
    /\ UNCHANGED <<dir, dirty, epoch, doomed, mixed, crashes, failures>>

-----------------------------------------------------------------------------
(* Prune and create *)

\* pruneOrphanWorktreeLeases and pruneStaleWorktreeLeases: the worktree is gone, or the
\* owner is dead.
Stale(n) == lease[n] # None /\ (~dir[n] \/ (Written(n) /\ ~Alive(lease[n].by)))

\* pruneStale looks at the lock files, the one its own process has just taken included.
PruneScan(p) ==
    /\ At(p, "prune", "scan")
    /\ doomed' = [doomed EXCEPT ![p] = {n \in Name : Stale(n)}]
    /\ Step(p, "remove")
    /\ UNCHANGED <<world, epoch, mixed, robbed, crashes, failures>>

\* A command of git that fails
Fail == failures < MaxFailures /\ failures' = failures + 1

\* Best effort: a prune that fails removes nothing.
PruneRemove(p) ==
    /\ At(p, "prune", "remove")
    /\ \/ RemoveLeases(doomed[p]) /\ UNCHANGED failures
       \/ Fail /\ UNCHANGED <<lease, robbed>>
    /\ doomed' = [doomed EXCEPT ![p] = {}]
    /\ NextPhase(p)
    /\ UNCHANGED <<dir, dirty, epoch, mixed, crashes>>

\* createWorktree and createSandbox release the lease they hold when they fail; run()
\* does not: its acquisition failed, and there is nothing to release.
FailSetup(p, releases) ==
    /\ \/ releases /\ entry[p] # "run" /\ GotoPhase(p, "release")
       \/ ~(releases /\ entry[p] # "run") /\ End(p)
    /\ UNCHANGED <<world, epoch, doomed, mixed, robbed, crashes, failures>>

\* The processes in the worktree n
Inside(n) == {p \in Proc : name[p] = n /\ Phase(p) \in {"setup", "use", "clean"}}

\* WorktreeManager.create: a managed worktree of the branch is reused, clean or dirty.
Create(p) ==
    /\ Phase(p) = "create"
    /\ dir' = [dir EXCEPT ![name[p]] = TRUE]
    /\ mixed' = mixed \cup (IF Inside(name[p]) = {} THEN {} ELSE {name[p]})
    /\ NextPhase(p)
    /\ UNCHANGED <<dirty, lease, epoch, doomed, robbed, crashes, failures>>

CreateFails(p) == Phase(p) = "create" /\ ~dir[name[p]] /\ FailSetup(p, name[p] # p)

\* copyToWorktree, the host.onWorktreeReady hooks and startSandbox
Setup(p) ==
    /\ Phase(p) = "setup"
    /\ NextPhase(p)
    /\ UNCHANGED <<world, epoch, doomed, mixed, robbed, crashes, failures>>

\* A hook or the sandbox fails: createSandbox is past its try block by then.
SetupFails(p) == Phase(p) = "setup" /\ FailSetup(p, entry[p] = "worktree")

-----------------------------------------------------------------------------
(* Use and release *)

Edit(p) ==
    /\ Phase(p) = "use" /\ dir[name[p]]
    /\ \E d \in BOOLEAN : dirty' = [dirty EXCEPT ![name[p]] = d]
    /\ UNCHANGED <<dir, lease, who, at, pc, doomed, mixed, robbed, crashes, failures>>

\* The agent ends, fails or is aborted; the handle is closed.
Finish(p) ==
    /\ Phase(p) = "use"
    /\ NextPhase(p)
    /\ UNCHANGED <<world, epoch, doomed, mixed, robbed, crashes, failures>>

\* Mutant of LooksDirty: uncommitted changes do not matter.
LooksDirtyNever(p) == FALSE

\* hasUncommittedChanges
LooksDirty(p) == dir[name[p]] /\ dirty[name[p]]

\* cleanupWorktree: a git status that fails reads as a clean worktree.
CheckDirty(p) ==
    /\ At(p, "clean", "start")
    /\ \/ LooksDirty(p) /\ NextPhase(p) /\ UNCHANGED failures
       \/ ~LooksDirty(p) /\ Step(p, "remove") /\ UNCHANGED failures
       \/ Fail /\ Step(p, "remove")
    /\ UNCHANGED <<world, epoch, doomed, mixed, robbed, crashes>>

\* git worktree remove --force.  When it fails, since another process has removed the
\* worktree, run() dies before it releases the lease.
RemoveWorktree(p) ==
    /\ At(p, "clean", "remove")
    /\ LET n == name[p] IN
         \/ /\ dir[n]
            /\ dir' = [dir EXCEPT ![n] = FALSE] /\ dirty' = [dirty EXCEPT ![n] = FALSE]
            /\ mixed' = mixed \ {n}
            /\ NextPhase(p)
         \/ ~dir[n] /\ entry[p] # "run" /\ NextPhase(p) /\ UNCHANGED <<dir, dirty, mixed>>
         \/ ~dir[n] /\ entry[p] = "run" /\ End(p) /\ UNCHANGED <<dir, dirty, mixed>>
    /\ UNCHANGED <<lease, epoch, doomed, robbed, crashes, failures>>

\* releaseHeldWorktreeLease removes the lock file, whoever it names.
Release(p) ==
    /\ Phase(p) = "release"
    /\ lease' = [lease EXCEPT ![name[p]] = None]
    /\ robbed' = robbed \cup {q \in Proc \ {p} : lease[name[p]] = Lock(q) /\ name[q] = name[p]}
    /\ End(p)
    /\ UNCHANGED <<dir, dirty, epoch, doomed, mixed, crashes, failures>>

\* The process ends at any point, by a crash, SIGINT or SIGTERM; a new one has another pid.
Crash(p) ==
    /\ entry[p] # None
    /\ crashes < MaxCrashes /\ crashes' = crashes + 1
    /\ epoch' = [epoch EXCEPT ![p] = @ + 1]
    /\ End(p)
    /\ doomed' = [doomed EXCEPT ![p] = {}]
    /\ UNCHANGED <<world, mixed, robbed, failures>>

-----------------------------------------------------------------------------
Progress(p) ==
    \/ CheckLease(p) \/ RemoveStale(p) \/ OpenLease(p) \/ WriteLease(p)
    \/ PruneScan(p) \/ PruneRemove(p) \/ Create(p) \/ Setup(p) \/ Finish(p)
    \/ CheckDirty(p) \/ RemoveWorktree(p) \/ Release(p)

Next ==
    \E p \in Proc :
        \/ \E e \in Entries, n \in Name : Call(p, e, n)
        \/ Progress(p) \/ CreateFails(p) \/ SetupFails(p) \/ Edit(p) \/ Crash(p)

Spec == Init /\ [][Next]_vars

\* A call goes on until it ends, and every process is called again and again for
\* every worktree.
FairSpec ==
    /\ Spec
    /\ \A p \in Proc : WF_vars(Progress(p))
    /\ \A p \in Proc, n \in Name : SF_vars(\E e \in Entries : Call(p, e, n))

-----------------------------------------------------------------------------
(* Properties *)

\* Every variable is of its type, and a process that uses no worktree keeps nothing of
\* an earlier call.
TypeOK ==
    /\ dir \in [Name -> BOOLEAN] /\ dirty \in [Name -> BOOLEAN]
    /\ lease \in [Name -> {None} \cup [by : Pid, written : BOOLEAN]]
    /\ epoch \in [Proc -> 0 .. MaxCrashes]
    /\ entry \in [Proc -> Entries \cup {None}] /\ name \in [Proc -> Name \cup {None}]
    /\ \A p \in Proc : entry[p] = None => name[p] = None /\ at[p] = 1 /\ doomed[p] = {}
    /\ at \in [Proc -> 1 .. 7]
    /\ pc \in [Proc -> {"start", "check", "remove", "recheck", "reremove", "open", "reopen",
                        "write", "scan"}]
    /\ doomed \in [Proc -> SUBSET Name] /\ mixed \subseteq Name /\ robbed \subseteq Proc
    /\ crashes \in 0 .. MaxCrashes /\ failures \in 0 .. MaxFailures

\* p has taken the lease of its worktree and has not given it up.
Holds(p) ==
    /\ entry[p] # None /\ name[p] # None
    /\ \E i \in 1 .. at[p] - 1 : Order(entry[p], name[p] = p)[i] = "lease"

\* Two processes hold a worktree together only after somebody removed a lease one of
\* them relied on: the exclusive create itself never hands it out twice
\* (createLeaseFileAtomic).
SharedOnlyIfRobbed ==
    \A p, q \in Proc : p # q /\ name[p] = name[q] /\ Holds(p) /\ Holds(q) => p \in robbed \/ q \in robbed

\* Uncommitted changes are removed with their worktree only when processes shared it, or
\* when git status failed (cleanupWorktree).
UncommittedWorkKept ==
    [][\A n \in Name : dir[n] /\ dirty[n] /\ ~dir'[n] =>
            n \in mixed \/ failures > 0]_vars

\* A lease whose owner is dead does not stay: a crashed process does not lock a worktree,
\* unless it crashed before the lock file was written (pruneStaleWorktreeLeases).
DeadLeaseGoes ==
    \A n \in Name : []<>~(Written(n) /\ lease[n].by.epoch # epoch[lease[n].by.proc])

\* A worktree has one owner at a time unless its lock was taken away from under it, and
\* nothing of a call outlives it: TypeOK and SharedOnlyIfRobbed (acquireWorktreeLease).
OneOwner == TypeOK /\ SharedOnlyIfRobbed
=============================================================================
