------------------------------ MODULE TaskBoard ------------------------------
(***************************************************************************)
(* One task of the Beads store at the level of its record, and the         *)
(* commands that read and write it: the transition every lifecycle change  *)
(* goes through (taskBoard.ts), a flow run (hubTaskLifecycle.ts), GitHub   *)
(* synchronisation (hubTaskSync.ts), conflict resolution                   *)
(* (hubTaskResolve.ts), the doctor and repair-state                        *)
(* (hubTaskStateDoctor.ts), recovery (hubTaskRecover.ts) and triage.       *)
(*                                                                         *)
(* Every call of bd or gh is one step.  Commands run in processes of their *)
(* own, so calls of two commands interleave, and a process may stop        *)
(* between two calls.  Metadata is a function from its keys to a value or  *)
(* NoValue; a reason with several spellings of its key is one key, and     *)
(* sync_conflict holds the local status that its reason text names.        *)
(***************************************************************************)
EXTENDS Naturals, Sequences, SequencesExt, FiniteSets, TLC

CONSTANTS
  Proc,           \* processes; a run's id is the process it runs in
  Command,        \* the commands that may be started
  MaxCommands,    \* bound: commands started
  MaxSwitches,    \* bound: steps at which a command is preempted by another
  MaxEdits,       \* bound: edits of the issue by people on GitHub
  MaxCrash,       \* bound: processes that stop half-way
  MaxRelabel,     \* bound: status labels added by hand with bd
  MaxMishaps      \* bound: edits, stops and relabels together

ASSUME BoardAssumption ==
  /\ IsFiniteSet(Proc)
  /\ Command \subseteq {"run", "sync", "resolve", "repair", "recover",
                        "triage", "delete"}
  /\ {MaxCommands, MaxSwitches, MaxEdits, MaxCrash, MaxRelabel, MaxMishaps}
       \subseteq Nat

NoValue == "none"

HUB_TASK_STATUSES ==
  {"inbox", "needs_info", "ready_for_agent", "ready_for_human", "blocked",
   "implementing", "reviewing", "waiting_for_merge", "merging", "publishing",
   "done", "wontfix", "failed", "sync_conflict"}

isCompletedHubStatus(s) == s \in {"done", "wontfix"}

CLAIM_REQUIRED_STATUSES ==
  {"implementing", "reviewing", "waiting_for_merge", "merging", "publishing"}

CLAIM_PRESERVING_STATUSES == CLAIM_REQUIRED_STATUSES \cup {"failed"}

LABEL_AUTHORITATIVE_STATUSES ==
  CLAIM_REQUIRED_STATUSES \cup {"failed", "done", "wontfix"}

isHubExecutionStatus(s) == s \in CLAIM_PRESERVING_STATUSES

isHubTaskClaimActive(s) ==
  s \in {"implementing", "reviewing", "waiting_for_merge", "merging"}

\* The rules in their order: the first reason that is present decides.
METADATA_STATUS_RULES ==
  <<"blocked", "needs_info", "failed", "sync_conflict", "wontfix", "done">>

MetaKey == {"hubStatus", "claim", "sync_state", "remote_updated_at"}
             \cup Range(METADATA_STATUS_RULES)

NoMeta == [k \in MetaKey |-> NoValue]

HUB_STATUS_BEADS_LIFECYCLE(s) ==
  CASE s \in CLAIM_REQUIRED_STATUSES   -> "in_progress"
    [] s \in {"blocked", "sync_conflict"} -> "blocked"
    [] isCompletedHubStatus(s)          -> "closed"
    [] OTHER                            -> "open"

VARIABLES
  task,      \* [exists, life, labels, meta]: the record in the store
  issue,     \* [open, labels, at]: the linked GitHub issue
  ready,     \* run of the latest merge-ready event of the task, or NoValue
  work,      \* the task's branch has commits the target does not have
  op,        \* op[p]: the command that runs in p
  turn, switches,                      \* the process that moved last; preemptions
  commands, edits, stops, relabels   \* what the bounds have used

bounds == <<commands, edits, stops, relabels>>
boardVars == <<task, issue, ready, work, op, turn, switches, bounds>>

(***************************************************************************)
(* The projection.                                                         *)
(***************************************************************************)
resolveStatusFromLabels(labels) ==
  IF labels = <<>> THEN NoValue ELSE Head(labels)

resolveStatusFromMetadataReasons(meta) ==
  LET present == {i \in DOMAIN METADATA_STATUS_RULES : meta[METADATA_STATUS_RULES[i]] # NoValue}
  IN IF present = {} THEN NoValue ELSE METADATA_STATUS_RULES[Min(present)]

resolveStatusFromTaskShape(t) ==
  LET label    == resolveStatusFromLabels(t.labels)
      recorded == t.meta["hubStatus"]
      reason   == resolveStatusFromMetadataReasons(t.meta)
  IN IF reason = "sync_conflict" /\ isCompletedHubStatus(recorded) THEN recorded
     ELSE IF reason # NoValue THEN reason
     ELSE IF label \in LABEL_AUTHORITATIVE_STATUSES THEN label
     ELSE IF recorded # NoValue THEN recorded
     ELSE IF /\ t.life = "in_progress"
             /\ label \in {"inbox", "needs_info", "ready_for_agent", "ready_for_human"}
          THEN "implementing"
     ELSE IF label # NoValue THEN label
     ELSE CASE t.life = "blocked"     -> "blocked"
            [] t.life = "closed"      -> "done"
            [] t.life = "in_progress" -> "implementing"
            [] OTHER                  -> "inbox"

Status(t) == resolveStatusFromTaskShape(t)

(***************************************************************************)
(* transitionHubTaskStatus.  A request tr is [to, patch, fail, repl]: the  *)
(* status, the caller's metadata, its failure reason, and whether the      *)
(* patch's claim replaces the one in the store.                            *)
(***************************************************************************)
\* Mutant: the conflict keys go whatever sync_state says.
ClearEveryReason(meta, to) ==
  [k \in MetaKey |->
     IF k \in Range(METADATA_STATUS_RULES) /\ to # k THEN NoValue ELSE meta[k]]

clearStaleHubStatusMetadata(meta, to) ==
  [k \in MetaKey |->
     IF \/ k \in {"failed", "blocked", "needs_info", "wontfix", "done"} /\ to # k
        \/ k = "sync_conflict" /\ to # k /\ meta["sync_state"] # "conflict"
     THEN NoValue ELSE meta[k]]

resolveTransitionClaim(existing, tr) ==
  IF tr.to \notin CLAIM_PRESERVING_STATUSES THEN NoValue
  ELSE IF existing # NoValue /\ ~(tr.repl /\ tr.patch["claim"] # NoValue) THEN existing
  ELSE tr.patch["claim"]

\* Spread of b over a: keys of b that are present win.
Over(a, b) == [k \in MetaKey |-> IF b[k] # NoValue THEN b[k] ELSE a[k]]

NextMetadata(base, tr) ==
  LET merged == [Over(base, tr.patch) EXCEPT !["hubStatus"] = tr.to]
  IN [clearStaleHubStatusMetadata(merged, tr.to) EXCEPT
        !["claim"]  = resolveTransitionClaim(base["claim"], tr),
        !["failed"] = tr.fail]

\* User labels aside, exactly the canonical label is left.
labelsToSetForHubStatus(labels, to) == <<to>>

\* bd update: the status and the labels are set, the metadata is merged.
UpdatedRecord(t, base, tr) ==
  [t EXCEPT !.life   = HUB_STATUS_BEADS_LIFECYCLE(tr.to),
            !.labels = labelsToSetForHubStatus(base.labels, tr.to),
            !.meta   = Over(t.meta, NextMetadata(base.meta, tr))]

removedMetadataKeys(previous, next) ==
  {k \in MetaKey : previous[k] # NoValue /\ next[k] = NoValue}

assertHubTaskTransition(t, to) ==
  /\ Status(t) = to
  /\ t.labels = <<to>>
  /\ to \notin CLAIM_PRESERVING_STATUSES => t.meta["claim"] = NoValue
  /\ to \in CLAIM_REQUIRED_STATUSES => t.meta["claim"] # NoValue
  /\ (to = "failed") <=> (t.meta["failed"] # NoValue)

(***************************************************************************)
(* The processes.                                                          *)
(***************************************************************************)
NoTask == [exists |-> FALSE, life |-> "open", labels |-> <<>>, meta |-> NoMeta]
\* A deleted task stays deleted: an issue imported again is a new task.
DeletedTask == [NoTask EXCEPT !.life = "closed"]
NoIssue == [open |-> FALSE, labels |-> <<>>, at |-> NoValue]
NoRequest == [to |-> "inbox", patch |-> NoMeta, fail |-> NoValue, repl |-> FALSE]

Idle == [cmd |-> NoValue, pc |-> "idle", arg |-> NoValue, snap |-> NoTask,
         iss |-> NoIssue, tr |-> NoRequest, base |-> NoTask, ret |-> "idle",
         plan |-> <<>>, clean |-> TRUE]

Running(p, cmd, step) == op[p].cmd = cmd /\ op[p].pc = step

\* The step of p; a command that another process has written under is no
\* longer clean.
Becomes(p, o) ==
  LET written == <<task, ready, work>>' # <<task, ready, work>>
  IN /\ op' = [q \in Proc |->
                 IF q = p THEN o
                 ELSE IF written /\ op[q] # Idle
                      THEN [op[q] EXCEPT !.clean = FALSE] ELSE op[q]]
     /\ turn' = p
     /\ switches' = switches + IF turn # p /\ op[turn] # Idle THEN 1 ELSE 0
     /\ switches' <= MaxSwitches

\* The call threw, or the command is over.
End(p) == Becomes(p, Idle)

\* Ask for the transition tr and go on at ret.
Transit(p, o, tr, ret) ==
  Becomes(p, [o EXCEPT !.pc = "t_load", !.tr = tr, !.ret = ret])

Request(to, patch) == [to |-> to, patch |-> patch, fail |-> NoValue, repl |-> FALSE]
Failure(patch, reason) == [Request("failed", patch) EXCEPT !.fail = reason]

Start(p, cmd, o) ==
  /\ op[p] = Idle /\ cmd \in Command /\ commands < MaxCommands
  /\ commands' = commands + 1
  /\ Becomes(p, [o EXCEPT !.cmd = cmd])
  /\ UNCHANGED <<edits, stops, relabels>>

\* A selector finds the task by its id or its exact title, or throws.
resolveHubTaskSelector == task.exists

\* The commands of the command line show what they would do and ask; what they then do
\* starts from the record as it is after the answer.
Ask(p, cmd, arg) ==
  /\ resolveHubTaskSelector \/ cmd = "sync"
  /\ UNCHANGED <<task, issue, ready, work>>
  /\ Start(p, cmd, [Idle EXCEPT !.pc = "confirm", !.arg = arg])

\* A dry run, a "no", or nobody there to answer.
Cancel(p) ==
  /\ op[p].pc = "confirm"
  /\ UNCHANGED <<task, issue, ready, work, bounds>>
  /\ End(p)

LoadForTransition(p) ==
  /\ op[p].pc = "t_load"
  /\ UNCHANGED <<task, issue, ready, work, bounds>>
  /\ IF resolveHubTaskSelector
     THEN Becomes(p, [op[p] EXCEPT !.pc = "t_update", !.base = task])
     ELSE End(p)

UpdateRecord(p) ==
  /\ op[p].pc = "t_update"
  /\ UNCHANGED <<issue, ready, work, bounds>>
  /\ IF ~task.exists
     THEN UNCHANGED task /\ End(p)
     ELSE /\ task' = UpdatedRecord(task, op[p].base, op[p].tr)
          /\ Becomes(p, [op[p] EXCEPT !.pc =
               IF removedMetadataKeys(op[p].base.meta,
                    NextMetadata(op[p].base.meta, op[p].tr)) = {}
               THEN "t_check" ELSE "t_unset"])

UnsetKeys(p) ==
  /\ op[p].pc = "t_unset"
  /\ UNCHANGED <<issue, ready, work, bounds>>
  /\ LET gone == removedMetadataKeys(op[p].base.meta,
                   NextMetadata(op[p].base.meta, op[p].tr))
     IN IF ~task.exists
        THEN UNCHANGED task /\ End(p)
        ELSE /\ task' = [task EXCEPT !.meta =
                           [k \in MetaKey |-> IF k \in gone THEN NoValue ELSE @[k]]]
             /\ Becomes(p, [op[p] EXCEPT !.pc = "t_check"])

\* The task is loaded again and asserted on; the caller gets what was loaded.
CheckTransition(p) ==
  /\ op[p].pc = "t_check"
  /\ UNCHANGED <<task, issue, ready, work, bounds>>
  /\ IF task.exists /\ assertHubTaskTransition(task, op[p].tr.to)
     THEN IF op[p].ret = "idle" THEN End(p)
          ELSE Becomes(p, [op[p] EXCEPT !.pc = op[p].ret, !.snap = task,
                                        !.tr = NoRequest, !.base = NoTask,
                                        !.ret = "idle"])
     ELSE End(p)

(***************************************************************************)
(* A flow run: claim, implement, merge.  HubFlow has the run as a whole;   *)
(* here are the writes it makes to one record.                             *)
(***************************************************************************)
\* The planner validated the task as ready_for_agent.
RunStart(p) ==
  /\ task.exists /\ Status(task) = "ready_for_agent"
  /\ UNCHANGED <<task, issue, ready, work>>
  /\ Start(p, "run", [Idle EXCEPT !.pc = "claim"])

claimHubTask(p) ==
  /\ Running(p, "run", "claim")
  /\ UNCHANGED <<task, issue, ready, work, bounds>>
  /\ IF ~task.exists \/ isHubTaskClaimActive(Status(task))
     THEN End(p)
     ELSE Transit(p, [op[p] EXCEPT !.snap = task],
            Request("implementing", [task.meta EXCEPT !["claim"] = p]), "implement")

\* The event is appended, then the status is written.
recordImplementationSuccess(p) ==
  /\ Running(p, "run", "implement")
  /\ ready' = p /\ work' = TRUE
  /\ UNCHANGED <<task, issue, bounds>>
  /\ Transit(p, op[p],
       Request("waiting_for_merge", [op[p].snap.meta EXCEPT !["claim"] = p]), "select")

recordImplementationFailure(p) ==
  /\ Running(p, "run", "implement")
  /\ work' \in {work, TRUE}
  /\ UNCHANGED <<task, issue, ready, bounds>>
  /\ Transit(p, op[p],
       Failure([op[p].snap.meta EXCEPT !["claim"] = p], "agent_failed"), "idle")

\* The merge phase selects from a board loaded anew.
enterMergePhase(p) ==
  /\ Running(p, "run", "select")
  /\ UNCHANGED <<task, issue, ready, work, bounds>>
  /\ IF ~task.exists \/ Status(task) # "waiting_for_merge"
     THEN End(p)
     ELSE Transit(p, [op[p] EXCEPT !.snap = task], Request("merging", task.meta), "merge")

recordMergePhaseFailure(p) ==
  /\ Running(p, "run", "merge")
  /\ UNCHANGED <<task, issue, ready, work, bounds>>
  /\ Transit(p, op[p], Failure(op[p].snap.meta, "merge_failed"), "idle")

recordRepairExhaustion(p) ==
  /\ Running(p, "run", "merge")
  /\ UNCHANGED <<task, issue, ready, work, bounds>>
  /\ Transit(p, op[p],
       Request("blocked", [op[p].snap.meta EXCEPT !["blocked"] = "yes"]), "idle")

revertTaskToWaitingForMerge(p) ==
  /\ Running(p, "run", "merge")
  /\ UNCHANGED <<task, issue, ready, work, bounds>>
  /\ Transit(p, op[p], Request("waiting_for_merge", op[p].snap.meta), "idle")

\* The target ref has moved; required publication holds the task back.
awaitRequiredPublicationBeforeClose(p) ==
  /\ Running(p, "run", "merge")
  /\ work' = FALSE
  /\ UNCHANGED <<task, issue, ready, bounds>>
  /\ Transit(p, op[p], Request("publishing", op[p].snap.meta), "close")

recordTaskClosure(p) ==
  /\ Running(p, "run", "merge") \/ Running(p, "run", "close")
  /\ work' = FALSE
  /\ UNCHANGED <<task, issue, ready, bounds>>
  /\ Transit(p, op[p],
       Request("done", [op[p].snap.meta EXCEPT !["done"] = "yes"]), "idle")

recordCloseFailure(p) ==
  /\ Running(p, "run", "merge") \/ Running(p, "run", "close")
  /\ work' = FALSE
  /\ UNCHANGED <<task, issue, ready, bounds>>
  /\ Transit(p, op[p], Failure(op[p].snap.meta, "close_failed"), "idle")

Run(p) ==
  \/ RunStart(p) \/ claimHubTask(p)
  \/ recordImplementationSuccess(p) \/ recordImplementationFailure(p)
  \/ enterMergePhase(p) \/ recordMergePhaseFailure(p)
  \/ recordRepairExhaustion(p) \/ revertTaskToWaitingForMerge(p)
  \/ awaitRequiredPublicationBeforeClose(p)
  \/ recordTaskClosure(p) \/ recordCloseFailure(p)

(***************************************************************************)
(* Synchronisation with GitHub.                                            *)
(***************************************************************************)
REMOTE_COLLABORATION_LABELS ==
  {"inbox", "needs_info", "ready_for_agent", "ready_for_human", "blocked",
   "wontfix", "sync_conflict"}

resolveRemoteCollaborationStatus(i) ==
  IF ~i.open THEN IF "wontfix" \in Range(i.labels) THEN "wontfix" ELSE "done"
  ELSE IF i.labels = <<>> THEN "inbox" ELSE Head(i.labels)

detectSemanticSyncConflict(local, remote) ==
  /\ local # remote
  /\ ~isHubExecutionStatus(local)
  /\ ~(isCompletedHubStatus(local) /\ ~isCompletedHubStatus(remote))

hasHubTaskSyncConflict(t) ==
  \/ Status(t) = "sync_conflict"
  \/ t.meta["sync_state"] = "conflict"
  \/ t.meta["sync_conflict"] # NoValue

\* Closed issues are listed on request, and for a push.
listIssues(mode, closed) ==
  IF issue.open \/ closed \/ mode = "push" THEN issue ELSE NoIssue

runHubTaskSyncCommand(p) == \E mode \in {"pull", "push", "sync"} : Ask(p, "sync", mode)

syncHubTasksWithGithub(p) ==
  /\ Running(p, "sync", "confirm")
  /\ UNCHANGED <<task, issue, ready, work, bounds>>
  /\ \E closed \in {FALSE, ~issue.open} :
       Becomes(p, [op[p] EXCEPT
         !.pc  = IF op[p].arg = "push" THEN "push_board" ELSE "pull_board",
         !.iss = listIssues(op[p].arg, closed)])

AfterPull(p) == IF op[p].arg = "sync"
                THEN Becomes(p, [op[p] EXCEPT !.pc = "push_board", !.snap = NoTask])
                ELSE End(p)

pullGithubIssues(p) ==
  /\ Running(p, "sync", "pull_board")
  /\ UNCHANGED <<task, issue, ready, work, bounds>>
  /\ IF op[p].iss = NoIssue THEN AfterPull(p)
     ELSE Becomes(p, [op[p] EXCEPT !.pc = "refresh", !.snap = task])

\* setHubTaskSyncMetadata: the metadata of the listing is written back whole.
setHubTaskSyncMetadata(t, snap, patch) ==
  [t EXCEPT !.meta = Over(Over(t.meta, snap.meta), patch)]

Patch(at, state) == [NoMeta EXCEPT !["remote_updated_at"] = at, !["sync_state"] = state]

importGithubIssueToBeads(i) ==
  LET remote == resolveRemoteCollaborationStatus(i)
  IN [exists |-> TRUE, life |-> "open",
      labels |-> <<IF remote = "done" THEN "inbox" ELSE remote>>,
      meta   |-> [Patch(i.at, "synced") EXCEPT !["hubStatus"] = remote]]

WriteFromPull(p, t) ==
  IF task.exists THEN task' = t /\ AfterPull(p) ELSE UNCHANGED task /\ End(p)

\* refreshLinkedGithubIssue: what the listing and the issue say decides,
\* whatever the record says by now.  A title or a body may differ at any
\* time; writing it also writes sync_state.
refreshLinkedGithubIssue(p) ==
  LET snap    == op[p].snap
      i       == op[p].iss
      state   == snap.meta["sync_state"]
      changed == i.at # snap.meta["remote_updated_at"]
      held    == \/ state \in {"push_pending", "local_only"}
                 \/ isHubExecutionStatus(Status(snap))
      clash   == /\ detectSemanticSyncConflict(Status(snap),
                      resolveRemoteCollaborationStatus(i))
                 /\ changed \/ state = "synced"
  IN /\ Running(p, "sync", "refresh") /\ snap.exists
     /\ UNCHANGED <<issue, ready, work, bounds>>
     /\ \/ /\ held /\ changed /\ state # "local_only"
           /\ WriteFromPull(p, setHubTaskSyncMetadata(task, snap, Patch(i.at, NoValue)))
        \/ /\ held /\ ~(changed /\ state # "local_only")
           /\ UNCHANGED task /\ AfterPull(p)
        \/ /\ ~held /\ clash
           /\ UNCHANGED task
           /\ Becomes(p, [op[p] EXCEPT !.pc = "conflict"])
        \/ /\ ~held /\ ~clash
           /\ WriteFromPull(p, setHubTaskSyncMetadata(task, snap, Patch(i.at, "synced")))
        \/ /\ ~held /\ ~clash /\ ~changed /\ state = "synced"
           /\ UNCHANGED task /\ AfterPull(p)

\* An issue without a task is imported.  (When two pulls import at the same
\* time the store gets a second task, which this one-task model leaves out.)
ImportIssue(p) ==
  /\ Running(p, "sync", "refresh") /\ ~op[p].snap.exists
  /\ UNCHANGED <<issue, ready, work, bounds>>
  /\ task' = IF task = NoTask THEN importGithubIssueToBeads(op[p].iss) ELSE task
  /\ AfterPull(p)

\* The task is loaded again; a completed one keeps its status.  The reason
\* names the local status of the listing.
recordHubTaskSyncConflict(p) ==
  /\ Running(p, "sync", "conflict")
  /\ UNCHANGED <<task, issue, ready, work, bounds>>
  /\ IF ~task.exists THEN End(p)
     ELSE Transit(p, [op[p] EXCEPT !.snap = task],
            Request(IF isCompletedHubStatus(Status(task))
                      THEN Status(task) ELSE "sync_conflict",
                    [Patch(NoValue, "conflict") EXCEPT
                       !["sync_conflict"] = Status(op[p].snap)]),
            IF op[p].arg = "sync" THEN "push_board" ELSE "idle")

pushHubTasks(p) ==
  /\ Running(p, "sync", "push_board")
  /\ UNCHANGED <<task, issue, ready, work, bounds>>
  /\ IF \/ ~task.exists
        \/ task.meta["sync_state"] = "conflict" \/ Status(task) = "sync_conflict"
        \/ isHubExecutionStatus(Status(task))
     THEN End(p)
     ELSE Becomes(p, [op[p] EXCEPT !.pc = "push", !.snap = task])

\* GitHub stamps an issue that an edit has changed (nine changes are told apart).
Stamp == <<"t1", "t2", "t3", "t4", "t5", "t6", "t7", "t8", "t9">>
NextStamp(at) ==
  CHOOSE next \in Range(Stamp) :
    \E n \in DOMAIN Stamp : Stamp[n] = at /\ next = Stamp[1 + (n % Len(Stamp))]
Restamped(old, new) == IF old = new THEN old ELSE [new EXCEPT !.at = NextStamp(old.at)]

\* The sequence without the members of a set.
Without(s, gone) ==
  LET kept[n \in 0..Len(s)] ==
        IF n = 0 THEN <<>>
        ELSE IF s[n] \in gone THEN kept[n - 1] ELSE Append(kept[n - 1], s[n])
  IN kept[Len(s)]

\* The labels to clear are those of the listing; an issue that was not
\* listed counts as open, with the labels of the task.  A completed task is
\* labelled first and closed in a second call.
LabelledIssue(snap, listing) ==
  LET local  == Status(snap)
      labels == IF listing = NoIssue THEN snap.labels ELSE listing.labels
      clear  == (Range(labels) \cap REMOTE_COLLABORATION_LABELS) \ {local}
      added(ls) == IF local \in Range(ls) THEN ls ELSE Append(ls, local)
  IN IF local = "done" \/ (local = "wontfix" /\ local \in Range(labels)) THEN issue
     ELSE [issue EXCEPT !.labels = added(IF local = "wontfix" THEN @ ELSE Without(@, clear))]

PushedIssue(snap, listing) ==
  [LabelledIssue(snap, listing) EXCEPT !.open =
     IF isCompletedHubStatus(Status(snap)) /\ (listing = NoIssue \/ listing.open)
     THEN FALSE ELSE @]

\* A gh call that fails, the first or the second, is push_pending.
pushHubTaskToGithub(p) ==
  /\ Running(p, "sync", "push")
  /\ UNCHANGED <<task, ready, work, bounds>>
  /\ \E to \in {PushedIssue(op[p].snap, op[p].iss)} \X {"synced"}
               \cup {issue, LabelledIssue(op[p].snap, op[p].iss)} \X {"push_pending"} :
       /\ issue' = Restamped(issue, to[1])
       /\ IF op[p].snap.meta["sync_state"] = to[2] THEN End(p)
          ELSE Becomes(p, [op[p] EXCEPT !.pc = "pushed", !.arg = to[2]])

updateHubTaskSyncState(p) ==
  /\ Running(p, "sync", "pushed")
  /\ UNCHANGED <<issue, ready, work, bounds>>
  /\ task' = IF task.exists
             THEN setHubTaskSyncMetadata(task, op[p].snap, Patch(NoValue, op[p].arg))
             ELSE task
  /\ End(p)

Sync(p) ==
  \/ runHubTaskSyncCommand(p) \/ syncHubTasksWithGithub(p) \/ pullGithubIssues(p) \/ refreshLinkedGithubIssue(p)
  \/ ImportIssue(p) \/ recordHubTaskSyncConflict(p) \/ pushHubTasks(p)
  \/ pushHubTaskToGithub(p) \/ updateHubTaskSyncState(p)

(***************************************************************************)
(* tasks resolve, tasks repair-state, tasks recover, triage and delete.    *)
(***************************************************************************)
tasksResolveCommand(p) == \E keep \in {"local", "remote"} :
  /\ hasHubTaskSyncConflict(task)
  /\ Ask(p, "resolve", keep)

resolveHubTaskSyncConflict(p) ==
  /\ Running(p, "resolve", "confirm")
  /\ UNCHANGED <<task, issue, ready, work, bounds>>
  /\ IF task.exists /\ hasHubTaskSyncConflict(task)
     THEN Becomes(p, [op[p] EXCEPT !.pc = "list", !.snap = task, !.clean = TRUE])
     ELSE End(p)

\* The status to restore is the one the reason names.
resolveLocalConflictHubStatus(t) ==
  IF Status(t) # "sync_conflict" THEN Status(t) ELSE t.meta["sync_conflict"]

buildConflictFieldValues(t, i) ==
  [local  |-> resolveLocalConflictHubStatus(t),
   remote |-> resolveRemoteCollaborationStatus(i)]

resolveHubTaskConflict(keep, values) ==
  [to |-> values[keep], sync |-> IF keep = "local" THEN "push_pending" ELSE "synced"]

\* Mutant: sync_state is not written.
ResolutionWithoutState(p) ==
  /\ Running(p, "resolve", "list") /\ task.exists
  /\ UNCHANGED <<task, issue, ready, work, bounds>>
  /\ Transit(p, op[p],
       Request(buildConflictFieldValues(op[p].snap, issue)[op[p].arg],
         Over([task.meta EXCEPT !["sync_conflict"] = NoValue],
              Patch(issue.at, NoValue))), "resolved")

\* The issue is read, then the task again: its metadata without the conflict
\* keys is the patch.  A sync_conflict without a reason throws.
applyHubTaskConflictResolution(p) ==
  LET kept == resolveHubTaskConflict(op[p].arg, buildConflictFieldValues(op[p].snap, issue))
  IN /\ Running(p, "resolve", "list")
     /\ UNCHANGED <<task, issue, ready, work, bounds>>
     /\ IF ~task.exists \/ resolveLocalConflictHubStatus(op[p].snap) = NoValue
        THEN End(p)
        ELSE Transit(p, op[p],
               Request(kept.to,
                 Over([task.meta EXCEPT !["sync_conflict"] = NoValue],
                      Patch(issue.at, kept.sync))), "resolved")

\* With the remote's title or body a last write follows, of the metadata the
\* transition returned.
FinishResolve(p) ==
  /\ Running(p, "resolve", "resolved")
  /\ UNCHANGED <<issue, ready, work, bounds>>
  /\ \/ UNCHANGED task
     \/ /\ op[p].arg = "remote" /\ task.exists
        /\ task' = setHubTaskSyncMetadata(task, op[p].snap, NoMeta)
  /\ End(p)

\* The diagnoses that can be repaired.
multipleStatusLabels(t) == Len(t.labels) > 1
terminalStaleExecutionMetadata(t) ==
  isCompletedHubStatus(Status(t)) /\ t.meta["claim"] # NoValue
staleHubStatusMetadata(t) == t.meta["hubStatus"] \notin {NoValue, Status(t)}

\* The claim is missing, or it is not the one of the merge-ready event.
hasStaleClaimFields(t) == t.meta["claim"] # ready

\* A merge-ready event and unmerged work, but the task is not waiting for its
\* merge.  Dirty source files in the checkout hide a claim that differs.
stateInconsistent(t, dirty) ==
  /\ ready # NoValue /\ ~isCompletedHubStatus(Status(t)) /\ work
  /\ Status(t) # "waiting_for_merge" \/ hasStaleClaimFields(t)
  /\ ~(dirty /\ Status(t) = "waiting_for_merge" /\ t.meta["claim"] # NoValue)

RepairIf(test, to, claim) == IF test THEN <<<<to, claim>>>> ELSE <<>>

\* The repairs in the order of the diagnoses: the status and the claim to write.
doctorHubTaskState(t, dirty) ==
  RepairIf(multipleStatusLabels(t), Status(t), NoValue)
  \o RepairIf(terminalStaleExecutionMetadata(t), Status(t), NoValue)
  \o RepairIf(staleHubStatusMetadata(t), Status(t), NoValue)
  \o RepairIf(stateInconsistent(t, dirty), "waiting_for_merge", ready)

tasksRepairStateCommand(p) == \E dirty \in {"dirty", "clean"} :
  /\ doctorHubTaskState(task, dirty = "dirty") # <<>>
  /\ Ask(p, "repair", dirty)

planRepairs(p) ==
  /\ Running(p, "repair", "confirm")
  /\ UNCHANGED <<task, issue, ready, work, bounds>>
  /\ IF task.exists
     THEN Becomes(p, [op[p] EXCEPT !.pc = "repair", !.snap = task, !.clean = TRUE,
                        !.plan = doctorHubTaskState(task, op[p].arg = "dirty")])
     ELSE End(p)

repairHubTaskState(p) ==
  /\ Running(p, "repair", "repair") /\ op[p].plan # <<>>
  /\ UNCHANGED <<task, issue, ready, work, bounds>>
  /\ LET next == Head(op[p].plan)
     IN Transit(p, [op[p] EXCEPT !.plan = Tail(@)],
          [to |-> next[1], patch |-> [NoMeta EXCEPT !["claim"] = next[2]],
           fail |-> NoValue, repl |-> next[2] # NoValue], "repair")

FinishRepair(p) ==
  /\ Running(p, "repair", "repair") /\ op[p].plan = <<>>
  /\ UNCHANGED <<task, issue, ready, work, bounds>>
  /\ End(p)

resolveFailedRecoveryTarget(meta) ==
  IF meta["wontfix"] # NoValue THEN "wontfix"
  ELSE IF meta["blocked"] # NoValue THEN "blocked"
  ELSE IF meta["failed"] = "merge_failed" THEN "ready_for_human" ELSE "ready_for_agent"

\* The live run of a claim holds its worktree lease.
Alive(r) == r \in Proc /\ op[r].cmd = "run"

recoverGenericFailedTask(t) ==
  IF work /\ t.meta["claim"] # NoValue
  THEN {Request("waiting_for_merge", t.meta)}
  ELSE {Request(resolveFailedRecoveryTarget(t.meta), [t.meta EXCEPT !["claim"] = NoValue])}

recoverCloseFailedTask(t) ==
  IF work THEN {} ELSE {Request("done", [t.meta EXCEPT !["done"] = "yes"])}

\* A phase the events say is completed is not done again.
recoverStaleExecutionStatus(t) ==
  IF ready # NoValue
  THEN {Request("waiting_for_merge", t.meta)}
  ELSE {Request(resolveFailedRecoveryTarget(t.meta), [t.meta EXCEPT !["claim"] = NoValue])}

releaseStaleClaim(t) == {Request(Status(t), [t.meta EXCEPT !["claim"] = NoValue])}

\* The requests a recovery may make of the task it loaded.
recoverHubTask(t) ==
  LET now == Status(t)
  IN IF now = "failed"
     THEN IF t.meta["failed"] = "close_failed" THEN recoverCloseFailedTask(t) ELSE recoverGenericFailedTask(t)
     ELSE IF now \in {"implementing", "reviewing", "merging"} THEN recoverStaleExecutionStatus(t)
     ELSE IF /\ t.meta["claim"] # NoValue
             /\ now \in {"inbox", "needs_info", "ready_for_agent", "ready_for_human", "blocked", "sync_conflict"}
          THEN releaseStaleClaim(t)
     ELSE {}

\* A task in execution without a live lease.
isInterruptedHubTaskExecution(t) ==
  Status(t) \in {"implementing", "reviewing", "merging"} /\ ~Alive(t.meta["claim"])

\* With --stale every interrupted task; a task named by its id is recovered even while
\* the run that has claimed it is at work.
InScope(t, scope) ==
  t.exists /\ recoverHubTask(t) # {} /\ (scope = "stale" => isInterruptedHubTaskExecution(t))

tasksRecoverCommand(p) == \E scope \in {"one", "stale"} :
  InScope(task, scope) /\ Ask(p, "recover", scope)

recoverLoadedTask(p) ==
  /\ Running(p, "recover", "confirm")
  /\ UNCHANGED <<task, issue, ready, work, bounds>>
  /\ \/ ~InScope(task, op[p].arg) /\ End(p)
     \/ /\ InScope(task, op[p].arg)
        /\ \E tr \in recoverHubTask(task) :
             Transit(p, [op[p] EXCEPT !.snap = task], tr, "idle")

\* A triage proposal decides on the task it read.
TriageStart(p) ==
  /\ task.exists /\ Status(task) \in {"inbox", "needs_info"}
  /\ UNCHANGED <<task, issue, ready, work>>
  /\ Start(p, "triage", [Idle EXCEPT !.pc = "triage", !.snap = task])

applyWontfixOutcome(p) ==
  /\ Running(p, "triage", "triage")
  /\ UNCHANGED <<task, issue, ready, work, bounds>>
  /\ Transit(p, [op[p] EXCEPT !.arg = "wontfix"],
       Request("wontfix", [op[p].snap.meta EXCEPT !["wontfix"] = "yes"]), "labels")

applyNonWontfixOutcome(p) ==
  /\ Running(p, "triage", "triage")
  /\ UNCHANGED <<task, issue, ready, work, bounds>>
  /\ \E outcome \in {"needs_info", "ready_for_agent"} :
       Transit(p, [op[p] EXCEPT !.arg = outcome],
         Request(outcome, [op[p].snap.meta EXCEPT !["wontfix"] = NoValue]), "labels")

\* bd update --remove-label of the triage labels other than the outcome's.
ClearTriageLabels(p) ==
  /\ Running(p, "triage", "labels")
  /\ UNCHANGED <<issue, ready, work, bounds>>
  /\ LET clear == {"inbox", "needs_info", "ready_for_agent", "ready_for_human"} \ {op[p].arg}
         kept  == Without(task.labels, clear)
     IN task' = [task EXCEPT !.labels =
          IF op[p].arg = "wontfix" /\ "wontfix" \notin Range(kept)
          THEN Append(kept, "wontfix") ELSE kept]
  /\ End(p)

tasksDeleteCommand(p) == Ask(p, "delete", NoValue)

deleteHubTasks(p) ==
  /\ Running(p, "delete", "confirm")
  /\ task' = IF task.exists THEN DeletedTask ELSE task
  /\ UNCHANGED <<issue, ready, work, bounds>>
  /\ End(p)

Transition(p) == LoadForTransition(p) \/ UpdateRecord(p) \/ UnsetKeys(p) \/ CheckTransition(p)
Resolve(p)    == tasksResolveCommand(p) \/ resolveHubTaskSyncConflict(p) \/ applyHubTaskConflictResolution(p) \/ FinishResolve(p)
Repair(p)     == tasksRepairStateCommand(p) \/ planRepairs(p) \/ repairHubTaskState(p) \/ FinishRepair(p)
Triage(p)     == TriageStart(p) \/ applyWontfixOutcome(p) \/ applyNonWontfixOutcome(p)
                   \/ ClearTriageLabels(p)

(***************************************************************************)
(* The surroundings.                                                       *)
(***************************************************************************)
Mishap == edits + stops + relabels < MaxMishaps

\* Somebody edits the issue: one collaboration label, open or closed.
EditIssue ==
  /\ Mishap /\ edits < MaxEdits /\ edits' = edits + 1
  /\ \E open \in BOOLEAN, l \in {"ready_for_agent", "wontfix"} :
       /\ issue' = Restamped(issue, [issue EXCEPT !.open = open, !.labels = <<l>>])
       /\ issue' # issue
  /\ UNCHANGED <<task, ready, work, op, turn, switches, commands, stops, relabels>>

\* bd label add, by hand.
AddStatusLabel ==
  /\ Mishap /\ relabels < MaxRelabel /\ relabels' = relabels + 1 /\ task.exists
  /\ "failed" \notin Range(task.labels)
  /\ task' = [task EXCEPT !.labels = Append(@, "failed")]
  /\ op' = [q \in Proc |-> IF op[q] = Idle THEN Idle ELSE [op[q] EXCEPT !.clean = FALSE]]
  /\ UNCHANGED <<issue, ready, work, turn, switches, commands, edits, stops>>

Stop(p) ==
  /\ Mishap /\ op[p] # Idle /\ stops < MaxCrash /\ stops' = stops + 1
  /\ op' = [op EXCEPT ![p] = Idle]
  /\ UNCHANGED <<task, issue, ready, work, turn, switches, commands, edits, relabels>>

\* The task is in the store or still to be imported.
BoardInit ==
  /\ \E l \in {"inbox", "ready_for_agent"} :
       issue = [open |-> TRUE, labels |-> <<l>>, at |-> Stamp[1]]
  /\ task \in {NoTask, importGithubIssueToBeads(issue)}
  /\ ready = NoValue /\ work = FALSE
  /\ op = [p \in Proc |-> Idle]
  /\ turn \in Proc /\ switches = 0
  /\ commands = 0 /\ edits = 0 /\ stops = 0 /\ relabels = 0

BoardNext ==
  \/ \E p \in Proc :
       \/ Transition(p) \/ Run(p) \/ Sync(p) \/ Resolve(p) \/ Repair(p)
       \/ tasksRecoverCommand(p) \/ recoverLoadedTask(p) \/ Triage(p)
       \/ tasksDeleteCommand(p) \/ deleteHubTasks(p) \/ Cancel(p) \/ Stop(p)
  \/ EditIssue \/ AddStatusLabel

BoardSpec == BoardInit /\ [][BoardNext]_boardVars

Symmetry == Permutations(Proc)

(***************************************************************************)
(* Properties.                                                             *)
(***************************************************************************)
BoardTypeOK ==
  /\ task.exists \in BOOLEAN
  /\ task.life \in {"open", "in_progress", "blocked", "closed"}
  /\ Range(task.labels) \subseteq HUB_TASK_STATUSES
  /\ task.meta["hubStatus"] \in HUB_TASK_STATUSES \cup {NoValue}
  /\ task.meta["claim"] \in Proc \cup {NoValue}
  /\ task.meta["sync_conflict"] \in HUB_TASK_STATUSES \cup {NoValue}
  /\ task.meta["sync_state"] \in {NoValue, "synced", "push_pending", "conflict"}
  /\ issue.open \in BOOLEAN /\ Range(issue.labels) \subseteq REMOTE_COLLABORATION_LABELS
  /\ ready \in Proc \cup {NoValue} /\ work \in BOOLEAN
  /\ \A p \in Proc : op[p].pc # "idle" <=> op[p].cmd # NoValue

\* p takes a step that writes the record of a task that stays in the store.
Writes(p) ==
  /\ op'[p].pc # op[p].pc
  /\ task' # task /\ task.exists /\ task'.exists

\* What p last read of the task.
LastRead(p) == IF op[p].pc \in {"t_update", "t_unset"} THEN {op[p].snap, op[p].base}
               ELSE {op[p].snap}

\* The status of t is also its label.
Rests(t) == Status(t) = resolveStatusFromLabels(t.labels)

\* A write of synchronisation puts back the whole metadata of an old listing.  A status that is
\* also the task's label survives it when it is one of execution or completion, because
\* such a label is authoritative, unless the listing had a reason key or a conflict has been
\* recorded on the task since.  (A status that an earlier such write brought back from its
\* listing has no label to rest on.)
SyncSparesExecution ==
  \A p \in Proc :
    (/\ Writes(p) /\ op[p].cmd = "sync" /\ op[p].pc \in {"refresh", "pushed"}
     /\ Status(task) \in LABEL_AUTHORITATIVE_STATUSES /\ Rests(task)
     /\ resolveStatusFromMetadataReasons(op[p].snap.meta) = NoValue
     /\ ~hasHubTaskSyncConflict(task))
    => Status(task') = Status(task)

\* No command but a resolution or a run reopens a task that is completed and labelled so,
\* unless what it last read of the task was open, or had an open status to write back.
CompletedStaysCompleted ==
  \A p \in Proc :
    (/\ Writes(p) /\ op[p].cmd \notin {"resolve", "run"}
     /\ isCompletedHubStatus(Status(task))
     /\ isCompletedHubStatus(resolveStatusFromLabels(task.labels))
     /\ ~isCompletedHubStatus(Status(task')))
    => \E t \in LastRead(p) :
         ~(isCompletedHubStatus(Status(t)) /\ isCompletedHubStatus(t.meta["hubStatus"]))

\* The reason of a conflict, and with it the conflict, goes only by a resolution, or by a
\* command that had read the task when its sync_state was not conflict.
ConflictStays ==
  \A p \in Proc :
    (/\ Writes(p) /\ op[p].cmd # "resolve"
     /\ task.meta["sync_conflict"] # NoValue /\ task'.meta["sync_conflict"] = NoValue)
    => \E t \in LastRead(p) : t.meta["sync_state"] # "conflict"

\* A repair that nobody wrote under and that did not throw leaves nothing to
\* repair: a second doctor plans no repair.
RepairSettles ==
  \A p \in Proc :
    (Running(p, "repair", "repair") /\ op[p].plan = <<>> /\ op[p].clean)
      => doctorHubTaskState(task, op[p].arg = "dirty") = <<>>

\* A resolution that nobody wrote under settles the conflict, unless the
\* status recorded for it is sync_conflict itself.
ResolveSettles ==
  \A p \in Proc :
    (Running(p, "resolve", "resolved") /\ op[p].clean)
      => ~hasHubTaskSyncConflict(task) \/ Status(task) = "sync_conflict"

\* The commands that mend a task do so: BoardTypeOK, RepairSettles and ResolveSettles
\* (repairHubTaskState, resolveHubTaskConflict).
CommandsMend == BoardTypeOK /\ RepairSettles /\ ResolveSettles

\* No command undoes what another has recorded since it last read the task, as far as the
\* parts say: SyncSparesExecution, CompletedStaysCompleted and ConflictStays.
OthersKept == [][SyncSparesExecution /\ CompletedStaysCompleted /\ ConflictStays]_boardVars
==============================================================================
