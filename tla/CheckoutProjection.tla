------------------------- MODULE CheckoutProjection -------------------------
(***************************************************************************)
(* The checkout outbox of the Hub, src/src/hubCheckoutProjection.ts: every *)
(* landed candidate is enqueued, and passes over the outbox fast-forward   *)
(* the user's host branch to it, by a compare-and-swap of the ref when no  *)
(* user worktree has the branch checked out and by git merge --ff-only in  *)
(* the worktree that has.  Several runs share the outbox; the user commits,*)
(* resets, edits and switches branches at any moment.                      *)
(*                                                                         *)
(* A commit is the set of changes in its history (as in Publication), so   *)
(* that "is ancestor of" is inclusion.                                     *)
(***************************************************************************)
EXTENDS Naturals, Sequences, SequencesExt, FiniteSets

CONSTANTS
    Task,         \* the landed tasks; each is also the change it makes
    UserChange,   \* bound: the commits the user makes on the host branch
    Proc,         \* runs of the Hub
    Worktree,     \* the user's worktrees of the repository
    None,         \* no candidate, no worktree, no commit
    MaxFailures,  \* bound: git commands that fail for reasons of their own
    MaxCrashes,   \* bound: crashes of runs
    MaxUser       \* bound: the user's edits, resets and switches of branches

Commit == SUBSET (Task \cup UserChange)

ASSUME CheckoutAssumption ==
    /\ IsFiniteSet(Task) /\ IsFiniteSet(UserChange) /\ Task \cap UserChange = {}
    /\ None \notin Task /\ None \notin Worktree /\ \A c \in Commit : c # None
    /\ MaxFailures \in Nat /\ MaxCrashes \in Nat /\ MaxUser \in Nat

VARIABLES
    target,     \* the publish target
    candidate,  \* the commit a task landed as
    branch,     \* the tips of the host branch and of another branch of the user
    head,       \* the branch a worktree has checked out
    condition,  \* what git says of a worktree: operations, sparse checkout, changes
    outbox,     \* landing/checkout-outbox, in the order of createdAt
    pc,         \* where a run is
    list,       \* the items a run has listed
    at,         \* the item at hand
    current,    \* the tip of the host branch a run has read
    owner,      \* the worktree a run fast-forwards in; None: it swaps the ref
    reached,    \* history: tasks whose candidate the host branch has contained
    switched,   \* history: the user left the branch of a worktree while a run was at it
    failures, crashes, acts

repo == <<target, candidate>>
user == <<head, condition>>
local == <<list, at, current, owner>>
aux == <<failures, crashes>>
vars == <<repo, branch, user, outbox, pc, local, reached, switched, aux, acts>>

Branches == {"host", "other"}

\* What inspectOwningWorktreeSafety looks for.
Facts == {"operation", "sparse", "gitlink", "rename", "untracked", "staged", "unstaged"}

Reasons == {"none", "operation_in_progress", "sparse_checkout", "submodule", "rename_or_delete",
            "untracked_paths", "staged_changes", "unstaged_changes", "multiple_worktrees",
            "branch_diverged"}

Item == [task : Task, status : {"pending", "succeeded"}, reason : Reasons]

\* The states of a worktree the user leaves behind: one for each answer of the
\* inspection, with several facts at once where their order decides.
Conditions == {{}, {"operation", "staged"}, {"sparse"}, {"gitlink", "unstaged"},
               {"rename", "untracked", "staged"}, {"untracked", "staged"}, {"staged", "unstaged"},
               {"unstaged"}}

Init ==
    /\ target = {} /\ candidate = [t \in Task |-> None]
    /\ branch = [b \in Branches |-> {}]
    /\ head \in [Worktree -> Branches] /\ condition = [w \in Worktree |-> {}]
    /\ outbox = <<>>
    /\ pc = [p \in Proc |-> "idle"] /\ list = [p \in Proc |-> <<>>] /\ at = [p \in Proc |-> 1]
    /\ current = [p \in Proc |-> None] /\ owner = [p \in Proc |-> None]
    /\ reached = {} /\ switched = FALSE
    /\ failures = 0 /\ crashes = 0 /\ acts = 0

Goto(p, l) == pc' = [pc EXCEPT ![p] = l]

Landed == {t \in Task : candidate[t] # None}

Reach(tip) == reached' = reached \cup {t \in Landed : candidate[t] \subseteq tip}

-----------------------------------------------------------------------------
(* Landing and enqueue *)

\* A task lands on the publish target (LandingTransaction).
Land(t) ==
    /\ t \notin Landed
    /\ target' = target \cup {t}
    /\ candidate' = [candidate EXCEPT ![t] = target']
    /\ UNCHANGED <<branch, user, outbox, pc, local, reached, switched, aux, acts>>

\* The commits of the user reach the publish target (the landing queue's
\* reconcileHubHostTargetContribution).
Contribute ==
    /\ ~(branch["host"] \subseteq target)
    /\ target' = target \cup branch["host"]
    /\ UNCHANGED <<candidate, branch, user, outbox, pc, local, reached, switched, aux, acts>>

HasItem(t) == \E i \in DOMAIN outbox : outbox[i].task = t

\* enqueueHubCheckoutProjection, after the landing or, when the run crashed in
\* between, by the reconciliation: an item that exists is kept.
Enqueue(t) ==
    /\ t \in Landed
    /\ ~HasItem(t)
    /\ outbox' = Append(outbox, [task |-> t, status |-> "pending", reason |-> "none"])
    /\ UNCHANGED <<repo, branch, user, pc, local, reached, switched, aux, acts>>

-----------------------------------------------------------------------------
(* A pass over the outbox *)

\* listHubCheckoutOutboxItems
StartPass(p) ==
    /\ pc[p] = "idle" /\ outbox # <<>>
    /\ list' = [list EXCEPT ![p] = outbox] /\ at' = [at EXCEPT ![p] = 1]
    /\ Goto(p, "item")
    /\ UNCHANGED <<repo, branch, user, outbox, current, owner, reached, switched, aux, acts>>

AtHand(p) == list[p][at[p]]
Candidate(p) == candidate[AtHand(p).task]

\* The run forgets what it read.
Forget(p) ==
    /\ current' = [current EXCEPT ![p] = None]
    /\ owner' = [owner EXCEPT ![p] = None]
    /\ UNCHANGED list

NextItem(p) ==
    /\ at' = [at EXCEPT ![p] = @ + 1] /\ Forget(p)
    /\ Goto(p, "item")

\* The item as the run listed it, with a new status: what others wrote to the file
\* meanwhile is lost.
Write(p, status, reason) ==
    outbox' = [i \in DOMAIN outbox |->
                 IF outbox[i].task = AtHand(p).task
                 THEN [AtHand(p) EXCEPT !.status = status, !.reason = reason] ELSE outbox[i]]

MarkSucceeded(p) == Write(p, "succeeded", "none") /\ NextItem(p)
MarkPending(p, reason) == Write(p, "pending", reason) /\ NextItem(p)

\* Mutant of AlreadyContains: the ancestry the wrong way round.
AlreadyContainsReversed(p, tip) == tip \subseteq Candidate(p)

AlreadyContains(p, tip) == Candidate(p) \subseteq tip
IsFastForward(p, tip) == tip \subseteq Candidate(p)

\* Mutant of Settled: an item that failed once is not tried again.
SettledOnFailure(p) == AtHand(p).status = "succeeded" \/ AtHand(p).reason # "none"

Settled(p) == AtHand(p).status = "succeeded"

SkipSucceeded(p) ==
    /\ pc[p] = "item" /\ at[p] <= Len(list[p])
    /\ Settled(p)
    /\ NextItem(p)
    /\ UNCHANGED <<repo, branch, user, outbox, reached, switched, aux, acts>>

\* projectOneItem reads the host branch: it has the candidate already, it has
\* diverged from it, or the worktrees are looked at next.
Observe(p) ==
    /\ pc[p] = "item" /\ at[p] <= Len(list[p])
    /\ ~Settled(p)
    /\ LET tip == branch["host"] IN
         \/ AlreadyContains(p, tip) /\ MarkSucceeded(p)
         \/ ~AlreadyContains(p, tip) /\ ~IsFastForward(p, tip) /\ MarkPending(p, "branch_diverged")
         \/ /\ ~AlreadyContains(p, tip) /\ IsFastForward(p, tip)
            /\ current' = [current EXCEPT ![p] = tip]
            /\ Goto(p, "inspect")
            /\ UNCHANGED <<outbox, list, at, owner>>
    /\ UNCHANGED <<repo, branch, user, reached, switched, aux, acts>>

Owners == {w \in Worktree : head[w] = "host"}

\* classifyPorcelain
ClassifyPorcelain(facts) ==
    CASE "rename" \in facts -> "rename_or_delete"
      [] "rename" \notin facts /\ "untracked" \in facts -> "untracked_paths"
      [] facts \cap {"rename", "untracked"} = {} /\ "staged" \in facts -> "staged_changes"
      [] facts = {"unstaged"} -> "unstaged_changes"
      [] OTHER -> "none"

\* inspectOwningWorktreeSafety
Unsafe(w) ==
    LET facts == condition[w] IN
    IF "operation" \in facts THEN "operation_in_progress"
    ELSE IF "sparse" \in facts THEN "sparse_checkout"
    ELSE IF "gitlink" \in facts THEN "submodule"
    ELSE ClassifyPorcelain(facts)

\* The worktrees that have the host branch, and whether the only one is safe.
Inspect(p) ==
    /\ pc[p] = "inspect"
    /\ \/ Cardinality(Owners) > 1 /\ MarkPending(p, "multiple_worktrees")
       \/ Owners = {} /\ Goto(p, "swap") /\ UNCHANGED <<outbox, local>>
       \/ /\ Cardinality(Owners) = 1
          /\ LET w == CHOOSE v \in Owners : TRUE IN
               \/ Unsafe(w) # "none" /\ MarkPending(p, Unsafe(w))
               \/ /\ Unsafe(w) = "none"
                  /\ owner' = [owner EXCEPT ![p] = w]
                  /\ Goto(p, "merge")
                  /\ UNCHANGED <<outbox, list, at, current>>
    /\ UNCHANGED <<repo, branch, user, reached, switched, aux, acts>>

\* Mutant of SwapHolds: git update-ref without the old value.
SwapHoldsAlways(p) == TRUE

\* git update-ref <ref> <new> <old>
SwapHolds(p) == branch["host"] = current[p]

\* A git command that fails although nothing stands against it.
Fail == failures < MaxFailures /\ failures' = failures + 1

\* attemptCas
Swap(p) ==
    /\ pc[p] = "swap"
    /\ \/ /\ SwapHolds(p)
          /\ branch' = [branch EXCEPT !["host"] = Candidate(p)]
          /\ Reach(branch'["host"])
          /\ Goto(p, "done") /\ UNCHANGED failures
       \/ ~SwapHolds(p) /\ Goto(p, "failed") /\ UNCHANGED <<branch, reached, failures>>
       \/ Fail /\ Goto(p, "failed") /\ UNCHANGED <<branch, reached>>
    /\ UNCHANGED <<repo, user, outbox, local, switched, crashes, acts>>

\* git merge --ff-only advances the branch b to c.
MergeAdvances(b, c) == branch[b] \subseteq c

\* attemptFastForward, on whatever branch the worktree has by now.  Local changes
\* that stand in the way make git refuse; changes that do not are carried along.
Merge(p) ==
    /\ pc[p] = "merge"
    /\ LET b == head[owner[p]]
           c == Candidate(p)
           clean == condition[owner[p]] = {}
           ahead == c \subseteq branch[b]
           advances == ~ahead /\ MergeAdvances(b, c) /\ "operation" \notin condition[owner[p]]
       IN
       \/ ahead /\ Goto(p, "done") /\ UNCHANGED <<branch, reached, failures>>
       \/ /\ advances
          /\ branch' = [branch EXCEPT ![b] = c]
          /\ Reach(branch'["host"])
          /\ Goto(p, "done") /\ UNCHANGED failures
       \/ ~ahead /\ ~(advances /\ clean) /\ Goto(p, "failed") /\ UNCHANGED <<branch, reached, failures>>
       \/ Fail /\ Goto(p, "failed") /\ UNCHANGED <<branch, reached>>
    /\ UNCHANGED <<repo, user, outbox, local, switched, crashes, acts>>

\* casFailureReason, or the inspection once more: why the branch was not advanced
PendingReasonAfterFailure(p) ==
    IF owner[p] = None
    THEN IF IsFastForward(p, branch["host"]) THEN "operation_in_progress" ELSE "branch_diverged"
    ELSE IF Unsafe(owner[p]) = "none" THEN "operation_in_progress" ELSE Unsafe(owner[p])

\* advanceHostBranchWithCrashWindows after a failure: somebody else may have brought
\* the candidate to the host branch.
Recheck(p) ==
    /\ pc[p] = "failed"
    /\ \/ AlreadyContains(p, branch["host"]) /\ MarkSucceeded(p)
       \/ ~AlreadyContains(p, branch["host"]) /\ MarkPending(p, PendingReasonAfterFailure(p))
    /\ UNCHANGED <<repo, branch, user, reached, switched, aux, acts>>

Record(p) ==
    /\ pc[p] = "done"
    /\ MarkSucceeded(p)
    /\ UNCHANGED <<repo, branch, user, reached, switched, aux, acts>>

Leave(p) ==
    /\ Goto(p, "idle")
    /\ list' = [list EXCEPT ![p] = <<>>] /\ at' = [at EXCEPT ![p] = 1]
    /\ current' = [current EXCEPT ![p] = None] /\ owner' = [owner EXCEPT ![p] = None]

EndPass(p) ==
    /\ pc[p] = "item" /\ at[p] > Len(list[p])
    /\ Leave(p)
    /\ UNCHANGED <<repo, branch, user, outbox, reached, switched, aux, acts>>

Crash(p) ==
    /\ pc[p] # "idle"
    /\ crashes < MaxCrashes /\ crashes' = crashes + 1
    /\ Leave(p)
    /\ UNCHANGED <<repo, branch, user, outbox, reached, switched, failures, acts>>

-----------------------------------------------------------------------------
(* The user *)

Act == acts < MaxUser /\ acts' = acts + 1

UserCommit(u) ==
    /\ \A b \in Branches : u \notin branch[b]
    /\ u \notin target
    /\ branch' = [branch EXCEPT !["host"] = @ \cup {u}]
    /\ Act
    /\ UNCHANGED <<repo, user, outbox, pc, local, reached, switched, aux>>

\* git reset, or a branch made again from the commit everybody started from
UserReset ==
    /\ branch["host"] # {}
    /\ branch' = [branch EXCEPT !["host"] = {}]
    /\ Act
    /\ UNCHANGED <<repo, user, outbox, pc, local, reached, switched, aux>>

\* git switch in a worktree, maybe under a run that has just found it safe
UserSwitch(w) ==
    /\ head' = [head EXCEPT ![w] = IF @ = "host" THEN "other" ELSE "host"]
    /\ switched' = (switched \/ \E p \in Proc : owner[p] = w)
    /\ Act
    /\ UNCHANGED <<repo, branch, condition, outbox, pc, local, reached, aux>>

UserEdit(w) ==
    /\ \E c \in Conditions \ {condition[w]} : condition' = [condition EXCEPT ![w] = c]
    /\ Act
    /\ UNCHANGED <<repo, branch, head, outbox, pc, local, reached, switched, aux>>

-----------------------------------------------------------------------------
Step(p) ==
    \/ SkipSucceeded(p) \/ Observe(p) \/ Inspect(p) \/ Swap(p) \/ Merge(p)
    \/ Recheck(p) \/ Record(p) \/ EndPass(p)

UserNext ==
    \/ \E u \in UserChange : UserCommit(u)
    \/ UserReset
    \/ \E w \in Worktree : UserSwitch(w) \/ UserEdit(w)

Next ==
    \/ \E p \in Proc : StartPass(p) \/ Step(p) \/ Crash(p)
    \/ \E t \in Task : Land(t) \/ Enqueue(t)
    \/ Contribute
    \/ UserNext

Spec == Init /\ [][Next]_vars

\* A run goes on with its pass, and runs are started again and again: each run makes
\* a pass when it starts, after each landing and when it completes.
FairSpec == Spec /\ \A p \in Proc : WF_vars(StartPass(p) \/ Step(p))

-----------------------------------------------------------------------------
(* Properties *)

\* Every variable is of its type, and the outbox has one item per task.
TypeOK ==
    /\ target \in Commit /\ candidate \in [Task -> {None} \cup Commit]
    /\ branch \in [Branches -> Commit]
    /\ head \in [Worktree -> Branches] /\ condition \in [Worktree -> SUBSET Facts]
    /\ outbox \in Seq(Item) /\ IsInjective([i \in DOMAIN outbox |-> outbox[i].task])
    /\ pc \in [Proc -> {"idle", "item", "inspect", "swap", "merge", "failed", "done"}]
    /\ list \in [Proc -> Seq(Item)] /\ at \in [Proc -> Nat \ {0}]
    /\ current \in [Proc -> {None} \cup Commit] /\ owner \in [Proc -> {None} \cup Worktree]
    /\ reached \subseteq Task /\ switched \in BOOLEAN
    /\ failures \in 0 .. MaxFailures /\ crashes \in 0 .. MaxCrashes /\ acts \in 0 .. MaxUser

\* An item is recorded as projected only when the host branch has contained its
\* candidate, whatever failed, crashed or was written from a stale listing; unless
\* the user switched the worktree to another branch between the inspection and the
\* fast-forward, which then runs on that branch (projectOneItem, attemptFastForward).
SucceededWasProjected ==
    switched \/ \A i \in DOMAIN outbox : outbox[i].status = "succeeded" => outbox[i].task \in reached

\* No step of the Hub takes a commit off a branch of the user: the swap compares the
\* old value and the merge only fast-forwards, on whatever branch it runs (attemptCas,
\* attemptFastForward).
UserCommitsKept ==
    [][acts' = acts => \A b \in Branches : branch[b] \subseteq branch'[b]]_vars

\* Nothing keeps the Hub from projecting the task t.
Projectable(t) ==
    /\ t \in Landed
    /\ candidate[t] \subseteq branch["host"] \/ branch["host"] \subseteq candidate[t]
    /\ Cardinality(Owners) <= 1
    /\ \A w \in Owners : condition[w] = {}

\* An enqueued candidate that stays projectable is recorded as projected in the end: no
\* pending reason sticks and no failed command or crash loses the item ("Wait for the
\* automatic retry").
ProjectableIsProjected ==
    \A t \in Task :
        (<>[](Projectable(t) /\ \E i \in DOMAIN outbox : outbox[i].task = t))
        => <>[](\E i \in DOMAIN outbox : outbox[i].task = t /\ outbox[i].status = "succeeded")
\* The outbox is well formed and tells the truth: TypeOK and SucceededWasProjected
\* (enqueueHubCheckoutProjection, projectOneItem).
OutboxIsTrue == TypeOK /\ SucceededWasProjected
=============================================================================
