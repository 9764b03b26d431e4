----------------------------- MODULE TaskBranch -----------------------------
(***************************************************************************)
(* What happens to the branch and the record of a task around its agents:  *)
(* the claim and its ownership record (taskBoard.ts,                       *)
(* hubManagedBranchOwnership.ts), the agent's attempts with their private  *)
(* snapshot and the notes they leave (hubFlowExecution.ts,                 *)
(* hubTaskSnapshot.ts), the adoption of merges from before the landing     *)
(* transactions (hubLandingLegacyHistory.ts), and the clean-up of managed  *)
(* branches (hubManagedBranchCleanup.ts and its three callers).            *)
(*                                                                         *)
(* One run works on one task, Fresh, and finds another, Old, whose merge   *)
(* was recorded by an older version.  Beside it a user commits, merges and *)
(* cleans up.  Landing itself is the module LandingTransaction.            *)
(***************************************************************************)
EXTENDS Naturals, FiniteSets

CONSTANTS
    Old,          \* a task with historical merge events and no transaction
    Fresh,        \* a task the run implements
    Note,         \* the blocks of notes an agent may emit
    None,
    MaxCommits,   \* bound: commits of a branch
    MaxCalls,     \* attempts of the provider (resolveProviderRetryConfig)
    MaxCrashes,   \* bound: crashes of the run
    MaxFailures   \* bound: commands that fail

ASSUME TaskBranchAssumption ==
    /\ Old # Fresh /\ None \notin Note \cup {"created", "existed"} /\ None \notin 0 .. MaxCommits
    /\ MaxCommits \in Nat \ {0} /\ MaxCalls \in Nat \ {0} /\ MaxCrashes \in Nat /\ MaxFailures \in Nat

Task == {Old, Fresh}

\* A block that cannot be parsed, is too long, or names another task
Invalid == "invalid"

VARIABLES
    scene,      \* what the behaviour is about: one of Scenes
    tip,        \* the branch of a task: its own commits, None when it does not exist
    target,     \* how many of them the publish target contains
    head,       \* and how many the host checkout contains
    owner,      \* the latest claim of the branch: it "existed" before, or was "created" for it
    users,      \* history: the branches made by somebody else, before any claim
    lease,      \* the branches with a live lease
    wt,         \* the branches checked out in a worktree
    status,     \* of a task
    pc,         \* the step of the run
    listed,     \* Old was not closed in the listing of the run
    journal,    \* the rank of the last checkpoint of Old's adoption, 0 when there is none
    anchor,     \* its durable evidence: of "manifest", "ref" and "artifact"
    source,     \* the commits of Old's branch when it was adopted
    log,        \* the last block of notes in the log file of the attempt
    call,       \* attempts of the provider so far
    snapshots,  \* snapshot directories of attempts: of "current" and "orphan"
    applied,    \* the fingerprints on the task (hubAppliedNoteFingerprints)
    claimed,    \* those the claim read
    seen,       \* those the application of notes read
    begun, full,\* the blocks whose first, and whose last comment is on the task
    doubled,    \* history: blocks with a comment that was added twice
    excused,    \* history: an application was cut short, or a fingerprint taken back
    cl,         \* the clean-up: its step, scope, snapshots and lists
    crashes, failures

branches == <<tip, target, head, owner, users, lease, wt>>
adoption == <<listed, journal, anchor, source>>
notes == <<log, call, snapshots, applied, claimed, seen, begun, full, doubled, excused>>
vars == <<scene, branches, status, pc, adoption, notes, cl, crashes, failures>>

\* The checkpoints of a landing that an adoption writes, by rank
Created == 3
Verified == 4
TargetLanded == 5
TaskClosed == 6
Cleaned == 7

NoCleanup == [at |-> "idle", scope |-> {}, unowned |-> FALSE,
              head |-> [t \in Task |-> 0], owner |-> [t \in Task |-> None],
              wt |-> {}, lease |-> {}, todo |-> {}, plan |-> {}]

\* Bound: the adoption of Old, the notes of Fresh, and the branch of Fresh between the
\* run, the user and a clean-up share nothing but the steps of the run: one at a time.
Scenes == {"adoption", "notes", "branch"}

Goto(s) == pc' = s

\* A command of bd or git that fails
Fail == failures < MaxFailures /\ failures' = failures + 1

Init ==
    /\ scene \in Scenes
    /\ tip \in {f \in [Task -> {None, 1}] : (f[Old] # None <=> scene = "adoption") /\ (scene = "notes" => f[Fresh] = None)}
    /\ target = [t \in Task |-> 0] /\ head = [t \in Task |-> 0]
    /\ owner \in {f \in [Task -> {None, "created", "existed"}] : \A t \in Task : t = Fresh \/ tip[t] = None => f[t] = None}
    /\ users = {t \in Task : tip[t] # None /\ owner[t] # "created"}
    /\ lease = {} /\ wt = {}
    /\ status = [t \in Task |-> IF scene = "adoption" THEN (IF t = Old THEN "merging" ELSE "failed")
                                ELSE (IF t = Old THEN "done" ELSE "ready")]
    /\ pc = "idle" /\ listed = FALSE /\ journal = 0 /\ anchor = {} /\ source = 0
    /\ log = None /\ call = 0 /\ snapshots = {}
    /\ applied = {} /\ claimed = {} /\ seen = {} /\ begun = {} /\ full = {} /\ doubled = {}
    /\ excused = FALSE
    /\ cl = NoCleanup
    /\ crashes = 0 /\ failures = 0

-----------------------------------------------------------------------------
(* Adoption of legacy history, at the start and at the end of a run *)

\* A run loads the board once: both reconciliations use that listing.
StartRun ==
    /\ pc = "idle"
    /\ listed' = (status[Old] # "done")
    /\ Goto("adopt")
    /\ UNCHANGED <<scene, branches, status, journal, anchor, source, notes, cl, crashes, failures>>

Reconciling == {"adopt", "readopt"}

\* A transaction of the task exists, by its directory or by its ref.
HasTransaction == journal > 0 \/ anchor # {}

\* Mutant of IsContained: the host branch is not asked.
IsContainedPublished == tip[Old] <= target[Old]

\* isAncestor, of the host branch and of the publish target
IsContained == tip[Old] <= target[Old] \/ tip[Old] <= head[Old]

\* classifyTask.  Without its branch, or when no target contains it, the task is an
\* integrity incident of this run and stays as it is.
Classify ==
    /\ pc \in Reconciling
    /\ IF listed /\ ~HasTransaction /\ tip[Old] # None /\ IsContained
       THEN source' = tip[Old] /\ Goto(IF pc = "adopt" THEN "open" ELSE "reopen")
       ELSE UNCHANGED source /\ Goto(IF pc = "adopt" THEN "reconcile" ELSE "rereconcile")
    /\ UNCHANGED <<scene, branches, status, listed, journal, anchor, notes, cl, crashes, failures>>

\* The same steps follow at the start and at the end of the run.
Step(first, again) == pc \in {first, again}
Then(first, from, to, again) == Goto(IF pc = first THEN from ELSE to)

\* adoptContainedTask: opened, base_pinned and candidate_created
AppendOpening ==
    /\ Step("open", "reopen") /\ journal < Created
    /\ journal' = journal + 1
    /\ IF journal' = Created THEN Then("open", "anchor", "reanchor", "reopen") ELSE UNCHANGED pc
    /\ UNCHANGED <<scene, branches, status, listed, anchor, source, notes, cl, crashes, failures>>

\* persistAdoptedCandidate, then the verification artifact with its checkpoint
Persist ==
    /\ Step("anchor", "reanchor")
    /\ \/ "manifest" \notin anchor /\ anchor' = anchor \cup {"manifest"} /\ UNCHANGED <<journal, pc>>
       \/ anchor = {"manifest"} /\ anchor' = anchor \cup {"ref"} /\ UNCHANGED <<journal, pc>>
       \/ anchor = {"manifest", "ref"} /\ anchor' = anchor \cup {"artifact"} /\ UNCHANGED <<journal, pc>>
       \/ "artifact" \in anchor /\ journal' = Verified /\ UNCHANGED anchor /\ Then("anchor", "land", "reland", "reanchor")
    /\ UNCHANGED <<scene, branches, status, listed, source, notes, cl, crashes, failures>>

\* The checkpoint target_landed: no landing receipt is written.
AppendLanded ==
    /\ Step("land", "reland")
    /\ journal' = TargetLanded
    /\ Then("land", "close", "reclose", "reland")
    /\ UNCHANGED <<scene, branches, status, listed, anchor, source, notes, cl, crashes, failures>>

\* closeHubLandingTask: the close in Beads, then its checkpoint
CloseOld ==
    /\ Step("close", "reclose")
    /\ \/ status[Old] # "done" /\ status' = [status EXCEPT ![Old] = "done"] /\ UNCHANGED <<journal, pc>>
       \/ status[Old] = "done" /\ journal' = TaskClosed /\ UNCHANGED status
          /\ Then("close", "reconcile", "rereconcile", "reclose")
    /\ UNCHANGED <<scene, branches, listed, anchor, source, notes, cl, crashes, failures>>

\* reconcileHubLandingTransactions on the adopted transaction: without a receipt it is
\* not landed, so that only the checkpoints the evidence proves are added.
ReconcileAdopted ==
    /\ Step("reconcile", "rereconcile")
    /\ LET proven == (IF HasTransaction THEN {Created} ELSE {})
                     \cup (IF "artifact" \in anchor THEN {Verified} ELSE {})
                     \cup (IF HasTransaction /\ status[Old] = "done" THEN {TaskClosed, Cleaned} ELSE {})
           all == proven \cup {journal}
       IN  journal' = CHOOSE r \in all : \A q \in all : q <= r
    /\ Then("reconcile", "select", "idle", "rereconcile")
    /\ UNCHANGED <<scene, branches, status, listed, anchor, source, notes, cl, crashes, failures>>

-----------------------------------------------------------------------------
(* Claim and attempts of the agent *)

\* Mutant of Ownership: the claim does not look whether the branch is there.
OwnershipAlways == "created"

\* inspectHubManagedBranchClaimContext
Ownership == IF tip[Fresh] = None THEN "created" ELSE "existed"

\* claimHubTask: the task first, then the event that is the ownership record
Claim ==
    /\ pc = "select"
    /\ IF status[Fresh] = "ready"
       THEN /\ status' = [status EXCEPT ![Fresh] = "implementing"]
            /\ claimed' = applied /\ Goto("own")
       ELSE Goto("readopt") /\ UNCHANGED <<status, claimed>>
    /\ UNCHANGED <<scene, branches, adoption, log, call, snapshots, applied, seen, begun, full, doubled,
                   excused, cl, crashes, failures>>

RecordOwnership ==
    /\ pc = "own"
    /\ owner' = [owner EXCEPT ![Fresh] = Ownership]
    /\ log' = None /\ call' = 1 /\ Goto("snapshot")
    /\ UNCHANGED <<scene, tip, target, head, users, lease, wt, status, adoption, snapshots, applied, claimed,
                   seen, begun, full, doubled, excused, cl, crashes, failures>>

\* The protected directory of the snapshot beside an empty private store
WithSnapshot == snapshots \cup {"current"}

\* cleanupHubTaskSnapshot
WithoutSnapshot == snapshots \ {"current"}

\* createHubTaskSnapshot: the directory of the attempt and its empty private store.
\* On a failure both are removed, and the attempt fails for good.
Snapshot ==
    /\ pc = "snapshot"
    /\ \/ snapshots' = WithSnapshot /\ Goto("lease") /\ UNCHANGED failures
       \/ Fail /\ Goto("failed") /\ UNCHANGED snapshots
    /\ UNCHANGED <<scene, branches, status, adoption, log, call, applied, claimed, seen, begun, full, doubled,
                   excused, cl, crashes>>

\* run(): the lease, then the worktree and with it the branch when it is missing
TakeLease ==
    /\ pc = "lease"
    /\ lease' = lease \cup {Fresh} /\ Goto("worktree")
    /\ UNCHANGED <<scene, tip, target, head, owner, users, wt, status, adoption, notes, cl, crashes, failures>>

AddWorktree ==
    /\ pc = "worktree"
    /\ wt' = wt \cup {Fresh}
    /\ tip' = [tip EXCEPT ![Fresh] = IF @ = None THEN head[Fresh] ELSE @]
    /\ Goto("work")
    /\ UNCHANGED <<scene, target, head, owner, users, lease, status, adoption, notes, cl, crashes, failures>>

\* Mutant of GivenUp: the error is thrown before the notes are looked for.
GivenUpSilently == "released"

\* The catch block applies the notes of the log before it throws.
GivenUp == "failed"

\* resolveProviderRetryConfig
MayRetry == call < MaxCalls

Commit(t) == tip[t] # None /\ tip[t] < MaxCommits /\ tip' = [tip EXCEPT ![t] = @ + 1]

\* The agent commits and emits blocks of notes; its output goes to the log of the run.
AgentCommits ==
    /\ pc = "work" /\ Commit(Fresh)
    /\ UNCHANGED <<scene, target, head, owner, users, lease, wt, status, pc, adoption, notes, cl, crashes, failures>>

AgentNotes ==
    /\ scene = "notes" /\ pc = "work" /\ log' \in Note \cup {Invalid}
    /\ UNCHANGED <<scene, branches, status, pc, adoption, call, snapshots, applied, claimed, seen, begun, full,
                   doubled, excused, cl, crashes, failures>>

\* run() ends: with its result, with an error of the provider that is worth another
\* attempt, for good, or by the abort signal, which looks for no notes.  The worktree goes, the snapshot is removed in any case.
AgentEnds(outcome) ==
    /\ pc = "work"
    /\ lease' = lease \ {Fresh} /\ wt' = wt \ {Fresh}
    /\ snapshots' = WithoutSnapshot
    /\ \/ outcome = "result" /\ Goto("notes") /\ UNCHANGED <<call, failures>>
       \/ outcome = "transient" /\ MayRetry /\ Goto("snapshot") /\ call' = call + 1 /\ UNCHANGED failures
       \/ outcome = "transient" /\ ~MayRetry /\ Goto(GivenUp) /\ UNCHANGED <<call, failures>>
       \/ outcome = "fatal" /\ Fail /\ Goto(GivenUp) /\ UNCHANGED call
       \/ outcome = "aborted" /\ Fail /\ Goto("released") /\ UNCHANGED call
    /\ UNCHANGED <<scene, tip, target, head, owner, users, status, adoption, log, applied, claimed, seen, begun,
                   full, doubled, excused, cl, crashes>>

-----------------------------------------------------------------------------
(* Notes: after a result, and after the last failure *)

Applying == {"notes", "failed"}

\* The fingerprint of the block is on the task.
Replayed == log \in applied

\* applyHubTaskNotes: the last block of the output, if it is valid and new
LoadNotes ==
    /\ pc \in Applying
    /\ IF log \in Note /\ ~Replayed
       THEN seen' = applied /\ Goto(IF pc = "notes" THEN "first" ELSE "failFirst")
       ELSE UNCHANGED seen /\ Goto(IF pc = "notes" THEN "succeeded" ELSE "released")
    /\ UNCHANGED <<scene, branches, status, adoption, log, call, snapshots, applied, claimed, begun, full,
                   doubled, excused, cl, crashes, failures>>

AfterNotes == IF pc \in {"first", "last", "mark"} THEN "succeeded" ELSE "released"

\* A bd command that fails ends the application; the error is swallowed.
NotesFail ==
    /\ pc \in {"first", "last", "mark", "failFirst", "failLast", "failMark"}
    /\ Fail /\ Goto(AfterNotes)
    /\ excused' = TRUE
    /\ UNCHANGED <<scene, branches, status, adoption, log, call, snapshots, applied, claimed, seen, begun, full,
                   doubled, cl, crashes>>

\* appendHubTaskComment for the comments of the block, one after the other
AddComment ==
    /\ \/ /\ Step("first", "failFirst")
          /\ begun' = begun \cup {log} /\ UNCHANGED full
          /\ doubled' = IF log \in begun THEN doubled \cup {log} ELSE doubled
          /\ Then("first", "last", "failLast", "failFirst")
       \/ /\ Step("last", "failLast")
          /\ full' = full \cup {log} /\ UNCHANGED begun
          /\ doubled' = IF log \in full THEN doubled \cup {log} ELSE doubled
          /\ Then("last", "mark", "failMark", "failLast")
    /\ UNCHANGED <<scene, branches, status, adoption, log, call, snapshots, applied, claimed, seen, excused, cl,
                   crashes, failures>>

\* The list of fingerprints that was read is written back with the new one.
MarkApplied ==
    /\ Step("mark", "failMark")
    /\ applied' = seen \cup {log}
    /\ Goto(AfterNotes)
    /\ UNCHANGED <<scene, branches, status, adoption, log, call, snapshots, claimed, seen, begun, full, doubled,
                   excused, cl, crashes, failures>>

\* recordImplementationSuccess and -Failure write the metadata the claim had read: a
\* list of fingerprints that was there by then takes the place of the present one.
Restored == IF claimed = {} THEN applied ELSE claimed

Outcome ==
    /\ pc \in {"succeeded", "released"}
    /\ status' = [status EXCEPT ![Fresh] = IF pc = "succeeded" THEN "waiting" ELSE "failed"]
    /\ applied' = Restored
    /\ excused' = (excused \/ ~(applied \subseteq applied'))
    /\ claimed' = {} /\ seen' = {} /\ log' = None /\ call' = 0
    /\ Goto("readopt")
    /\ UNCHANGED <<scene, branches, adoption, snapshots, begun, full, doubled, cl, crashes, failures>>

\* The run ends in the middle.  Its lease names a dead process, its worktree stays and
\* so does its snapshot.
Crash ==
    /\ pc # "idle" /\ crashes < MaxCrashes /\ crashes' = crashes + 1
    /\ Goto("idle")
    /\ lease' = lease \ {Fresh}
    /\ snapshots' = IF snapshots = {} THEN {} ELSE {"orphan"}
    /\ excused' = (excused \/ pc \in {"first", "last", "mark", "failFirst", "failLast", "failMark"})
    /\ claimed' = {} /\ seen' = {} /\ log' = None /\ call' = 0
    /\ UNCHANGED <<scene, tip, target, head, owner, users, wt, status, adoption, applied, begun, full, doubled,
                   cl, failures>>

-----------------------------------------------------------------------------
(* The user, the landing and the checkout projection *)

\* A task that failed, or was left by a crash, is tried again; its preserved worktree
\* is given up.
Requeue ==
    /\ scene # "adoption" /\ pc = "idle" /\ status[Fresh] \in {"implementing", "failed"}
    /\ status' = [status EXCEPT ![Fresh] = "ready"] /\ wt' = wt \ {Fresh}
    /\ UNCHANGED <<scene, tip, target, head, owner, users, lease, pc, adoption, notes, cl, crashes, failures>>

\* The user commits to a branch nobody is at work on.
UserCommits(t) ==
    /\ scene # "notes" /\ t \notin wt /\ t \notin lease /\ Commit(t)
    /\ UNCHANGED <<scene, target, head, owner, users, lease, wt, status, pc, adoption, notes, cl, crashes, failures>>

\* The user merges the branch into the host branch by hand.
UserMerges(t) ==
    /\ scene # "notes" /\ tip[t] # None /\ head[t] < tip[t]
    /\ head' = [head EXCEPT ![t] = tip[t]]
    /\ UNCHANGED <<scene, tip, target, owner, users, lease, wt, status, pc, adoption, notes, cl, crashes, failures>>

\* The batch merge lands the task and closes it.
Land ==
    /\ scene # "notes" /\ status[Fresh] = "waiting" /\ tip[Fresh] # None
    /\ target' = [target EXCEPT ![Fresh] = tip[Fresh]]
    /\ status' = [status EXCEPT ![Fresh] = "done"]
    /\ UNCHANGED <<scene, tip, head, owner, users, lease, wt, pc, adoption, notes, cl, crashes, failures>>

Greater(i, j) == IF i > j THEN i ELSE j

\* The checkout is fast-forwarded to the publish target, or contributes to it.
Project ==
    /\ head' = [t \in Task |-> Greater(head[t], target[t])]
    /\ target' = [t \in Task |-> Greater(head[t], target[t])]
    /\ <<head, target>> # <<head', target'>>
    /\ UNCHANGED <<scene, tip, owner, users, lease, wt, status, pc, adoption, notes, cl, crashes, failures>>

-----------------------------------------------------------------------------
(* Clean-up of managed branches *)

\* `tasks cleanup`, with or without --include-unowned
CommandScopes == {[scope |-> Task, unowned |-> FALSE], [scope |-> Task, unowned |-> TRUE]}

\* attemptRecoveryCleanup, when a task is recovered
RecoveryScopes == IF status[Fresh] = "failed" THEN {[scope |-> {Fresh}, unowned |-> FALSE]} ELSE {}

\* defaultHubTaskBranchCleanup, when a task has been merged
MergeScopes == IF status[Fresh] = "done" THEN {[scope |-> {Fresh}, unowned |-> FALSE]} ELSE {}

\* The evaluation begins with HEAD and the ownership records.
StartCleanup ==
    /\ scene # "notes" /\ cl.at = "idle"
    /\ \E s \in CommandScopes \cup RecoveryScopes \cup MergeScopes :
        cl' = [NoCleanup EXCEPT !.at = "world", !.scope = s.scope, !.unowned = s.unowned,
                                !.head = head, !.owner = owner]
    /\ UNCHANGED <<scene, branches, status, pc, adoption, notes, crashes, failures>>

\* The worktrees and the leases, read once for all branches
ReadWorld ==
    /\ cl.at = "world"
    /\ cl' = [cl EXCEPT !.at = "evaluate", !.wt = wt, !.lease = lease, !.todo = Task]
    /\ UNCHANGED <<scene, branches, status, pc, adoption, notes, crashes, failures>>

\* Mutant of Blocked: a branch HEAD has just caught up with counts as ahead.
BlockedUpToDate(t) == tip[t] = None \/ tip[t] >= cl.head[t] \/ t \in cl.lease \/ t \in cl.wt

\* evaluateCandidate: the reasons that do not depend on who owns the branch
Blocked(t) == tip[t] = None \/ tip[t] > cl.head[t] \/ t \in cl.lease \/ t \in cl.wt

\* planHubManagedBranchCleanup: safe managed branches, and on request the branches no
\* claim is known of
Deletable(t) ==
    /\ t \in cl.scope /\ ~Blocked(t)
    /\ cl.owner[t] = "created" \/ (cl.owner[t] = None /\ cl.unowned)

Evaluate(t) ==
    /\ cl.at = "evaluate" /\ t \in cl.todo
    /\ cl' = [cl EXCEPT !.todo = @ \ {t}, !.plan = IF Deletable(t) THEN @ \cup {t} ELSE @,
                        !.at = IF cl.todo = {t} THEN "delete" ELSE @]
    /\ UNCHANGED <<scene, branches, status, pc, adoption, notes, crashes, failures>>

\* Mutant of GitDeletes: git branch -D
GitDeletesForced(t) == tip[t] # None /\ t \notin wt

\* git branch -d: not a branch that is checked out, nor one HEAD does not contain
GitDeletes(t) == tip[t] # None /\ t \notin wt /\ tip[t] <= head[t]

\* deleteGitBranch: the first branch git refuses ends the clean-up.
Delete(t) ==
    /\ cl.at = "delete" /\ t \in cl.plan
    /\ \/ GitDeletes(t) /\ tip' = [tip EXCEPT ![t] = None] /\ users' = users \ {t}
          /\ cl' = [cl EXCEPT !.plan = @ \ {t}]
       \/ ~GitDeletes(t) /\ cl' = NoCleanup /\ UNCHANGED <<tip, users>>
    /\ UNCHANGED <<scene, target, head, owner, lease, wt, status, pc, adoption, notes, crashes, failures>>

EndCleanup ==
    /\ cl.at = "delete" /\ cl.plan = {}
    /\ cl' = NoCleanup
    /\ UNCHANGED <<scene, branches, status, pc, adoption, notes, crashes, failures>>

-----------------------------------------------------------------------------
Adopt == Classify \/ AppendOpening \/ Persist \/ AppendLanded \/ CloseOld \/ ReconcileAdopted
ApplyNotes == LoadNotes \/ AddComment \/ MarkApplied
RunStep ==
    \/ StartRun \/ Adopt \/ Claim \/ RecordOwnership \/ Snapshot \/ TakeLease \/ AddWorktree
    \/ \E o \in {"result", "transient", "fatal", "aborted"} : AgentEnds(o)
    \/ ApplyNotes \/ Outcome
Cleanup == ReadWorld \/ EndCleanup \/ \E t \in Task : Evaluate(t) \/ Delete(t)

Next ==
    \/ RunStep \/ AgentCommits \/ AgentNotes \/ NotesFail \/ Crash
    \/ Requeue \/ Land \/ Project \/ \E t \in Task : UserCommits(t) \/ UserMerges(t)
    \/ StartCleanup \/ Cleanup

Spec == Init /\ [][Next]_vars

\* A run goes on until it ends and is started again; a clean-up goes on, and is asked
\* for again and again.
FairSpec == Spec /\ WF_vars(RunStep) /\ WF_vars(Cleanup) /\ WF_vars(StartCleanup)

-----------------------------------------------------------------------------
(* Properties *)

AdoptSteps == {"open", "anchor", "land", "close"}
ReadoptSteps == {"reopen", "reanchor", "reland", "reclose"}
Steps ==
    AdoptSteps \cup ReadoptSteps
    \cup {"idle", "adopt", "readopt", "reconcile", "rereconcile", "select", "own", "snapshot", "lease",
          "worktree", "work", "notes", "failed", "first", "last", "mark", "failFirst", "failLast",
          "failMark", "succeeded", "released"}

\* Every variable is of its type; a checkpoint of the adoption stands on the evidence
\* that was to be durable before it.
TypeOK ==
    /\ scene \in Scenes
    /\ tip \in [Task -> {None} \cup 0 .. MaxCommits]
    /\ target \in [Task -> 0 .. MaxCommits] /\ head \in [Task -> 0 .. MaxCommits]
    /\ owner \in [Task -> {None, "created", "existed"}] /\ users \subseteq Task
    /\ lease \subseteq Task /\ wt \subseteq Task
    /\ status \in [Task -> {"merging", "ready", "implementing", "waiting", "failed", "done"}]
    /\ pc \in Steps /\ listed \in BOOLEAN /\ journal \in 0 .. Cleaned
    /\ anchor \subseteq {"manifest", "ref", "artifact"} /\ source \in 0 .. MaxCommits
    /\ (journal = Verified => "artifact" \in anchor)
    /\ log \in Note \cup {None, Invalid} /\ call \in 0 .. MaxCalls
    /\ snapshots \subseteq {"current", "orphan"}
    /\ applied \subseteq Note /\ claimed \subseteq Note /\ seen \subseteq Note
    /\ begun \subseteq Note /\ full \subseteq begun /\ doubled \subseteq begun /\ excused \in BOOLEAN
    /\ crashes \in 0 .. MaxCrashes /\ failures \in 0 .. MaxFailures

\* A historical merge event is no proof: the adoption says that a task has landed only
\* when a target contains what its branch held (classifyTask).
AdoptedIsContained ==
    journal >= TargetLanded => source <= Greater(target[Old], head[Old])

\* Its adoption began and was interrupted: the transaction exists, so that no later run
\* adopts the task, and it has no receipt, so that none closes it.
Stranded == HasTransaction /\ pc \notin AdoptSteps \cup ReadoptSteps

Adoptable == status[Old] # "done" /\ tip[Old] # None /\ tip[Old] <= Greater(target[Old], head[Old])

\* A task whose work is in a target is adopted and closed, unless a run stopped half-way
\* through that or a clean-up took its branch first (adoptHubLegacyLandingHistory).
AdoptionSettles == []<>(Adoptable => Stranded)

\* No clean-up deletes commits the checkout does not contain, nor a branch that is
\* checked out, however old its evaluation is (deleteGitBranch).
UnmergedKept ==
    [][\A t \in Task : tip[t] # None /\ tip'[t] = None => tip[t] <= head[t] /\ t \notin wt]_vars

\* A branch that was there before the Hub first claimed it is deleted only on request,
\* and never once a clean-up knows of a claim (branchExistedBeforeClaim).
UsersBranchKept ==
    [][\A t \in users : tip[t] # None /\ tip'[t] = None => cl.unowned /\ cl.owner[t] = None]_vars

MergedBranch ==
    /\ status[Fresh] = "done" /\ owner[Fresh] = "created"
    /\ tip[Fresh] # None /\ tip[Fresh] <= head[Fresh] /\ Fresh \notin wt

\* The branch the Hub created for a task goes once it is merged and clean-ups are asked
\* for, though one of them may end at another branch (cleanupHubManagedBranches).
MergedBranchGoes == []<>~MergedBranch

\* No comment of a block is added twice, unless an application of notes was cut short or
\* the list of fingerprints was put back to what it was at the claim (applyHubTaskNotes).
CommentedOnce == doubled # {} => excused

\* A fingerprint on the task stands for comments that are all there (applyHubTaskNotes).
FingerprintIsBacked == applied \subseteq full

\* The last valid block of an agent is on the task by the time its outcome is recorded,
\* also of an agent that failed, unless a command failed or the run was aborted
\* (safeApplyNotes).
NotesReachTask ==
    pc \in {"succeeded", "released"} /\ log \in Note /\ failures = 0 => log \in applied
\* What is written about a task is backed by what happened: TypeOK, AdoptedIsContained,
\* CommentedOnce, FingerprintIsBacked and NotesReachTask (adoptContainedTask,
\* applyHubTaskNotes).
RecordsAreBacked ==
    TypeOK /\ AdoptedIsContained /\ CommentedOnce /\ FingerprintIsBacked /\ NotesReachTask

\* A clean-up deletes no branch that has something of its own, is checked out or belongs
\* to the user: UnmergedKept and UsersBranchKept.
BranchesKept == UnmergedKept /\ UsersBranchKept
=============================================================================
