------------------------------- MODULE HubFlow -------------------------------
(***************************************************************************)
(* Hub flow runs over one task board: startup recovery, the resumed batch, *)
(* batch planning, implementation, review, the merge phase and the stop of *)
(* the run (hubFlowExecution.ts, hubRunAutoRecover.ts, hubTaskRecover.ts,  *)
(* hubTaskLifecycle.ts, hubBatchMerge.ts).                                 *)
(*                                                                         *)
(* A run is a process; several may be alive on one project, and a process  *)
(* may stop anywhere.  A lifecycle mutation that appends an event to the   *)
(* run's log and then updates the board is two steps, because a process    *)
(* may stop between them.  What landing a task takes is in                 *)
(* LandingTransaction and LandingQueue; here it has its outcomes only.     *)
(***************************************************************************)
EXTENDS Naturals, FiniteSets, TLC

CONSTANTS
  Task,           \* tasks of the board
  NRuns,          \* runs are 1..NRuns, each started once
  NBatches,       \* bound: batch ids 1..NBatches
  HasReviewer,    \* the flow's hasReviewer (simple-loop or with-review)
  MaxBatches,     \* --max-batches
  Ready,          \* the sets of tasks that may be ready at the start
  MaxPairs,       \* bound: pairs of a live run and a task that was ready
  MaxCrash,       \* bound: processes that stop half-way
  MaxFault,       \* bound: failing agents, merges, closes and retries
  MaxUser,        \* bound: commands of the user
  MaxMishaps      \* bound: crashes and failures together

ASSUME FlowAssumption ==
  /\ NRuns \in Nat /\ NBatches \in Nat /\ MaxBatches \in Nat \ {0}
  /\ HasReviewer \in BOOLEAN
  /\ Ready \subseteq SUBSET Task
  /\ {MaxPairs, MaxCrash, MaxFault, MaxUser, MaxMishaps} \subseteq Nat

Run   == 1..NRuns
Batch == 1..NBatches
NoClaim == [run |-> 0, batch |-> 0]

\* readHubTaskClaim: the claim in a task's metadata.
Claims == {NoClaim} \cup [run : Run, batch : Batch]

VARIABLES
  status,     \* hubStatus of a task
  claim,      \* its claim metadata: the run and the batch, or NoClaim
  closeBad,   \* its failureReason is close_failed
  unmerged,   \* its branch has commits the target does not have
  landed,     \* some log has a landing or closure event of the task
  receipt,    \* its landing transaction is committed and not closed
  lease,      \* the live run that holds its worktree lease, or 0
  log,        \* log[r][t]: the last phase-completion event in the log of r
  plannedBy,  \* the run whose log has batch_planned of a batch, or 0
  nextBatch,  \* batch ids are handed out in the order of batch_started
  rank,       \* order of the run directories: ids are random, sorted by name
  phase, bat, sel, step, held, remaining, mres, count,  \* of each run
  crashes, faults, users,                        \* what the bounds have used
  fin,        \* history: the phase the current attempt has finished
  oldEvent,   \* history: the task was claimed while a log had an event of it
  moved,      \* history: the user moved the task by hand
  rehomed,    \* history: a resumed review took over the claim
  stolen,     \* history: recovered by a starting run while a live run had it
  quiet       \* history: runs that have been alone since they started

board   == <<status, claim, closeBad>>
runVars == <<phase, bat, sel, step, held, remaining, mres, count>>
bounds  == <<crashes, faults, users>>
ghosts  == <<fin, oldEvent, moved, rehomed, stolen>>
flowVars == <<board, unmerged, landed, receipt, lease, log, plannedBy, nextBatch, rank,
              runVars, bounds, ghosts, quiet>>

Status == {"inbox", "ready_for_agent", "implementing", "reviewing", "waiting_for_merge",
           "merging", "failed", "blocked", "done"}
NoEvent == [status |-> "none", batch |-> 0]

Live(r) == phase[r] \notin {"off", "ended", "dead"}

FlowInit ==
  /\ \E R \in Ready :
       status = [t \in Task |-> IF t \in R THEN "ready_for_agent" ELSE "inbox"]
  /\ claim = [t \in Task |-> NoClaim]
  /\ closeBad = [t \in Task |-> FALSE]
  /\ unmerged = [t \in Task |-> FALSE]
  /\ landed = [t \in Task |-> FALSE]
  /\ receipt = [t \in Task |-> FALSE]
  /\ lease = [t \in Task |-> 0]
  /\ log = [r \in Run |-> [t \in Task |-> NoEvent]]
  /\ plannedBy = [b \in Batch |-> 0]
  /\ nextBatch = 1
  /\ rank \in {f \in [Run -> Run] : \A i, j \in Run : f[i] = f[j] => i = j}
  /\ phase = [r \in Run |-> "off"]
  /\ bat = [r \in Run |-> 0]
  /\ sel = [r \in Run |-> {}]
  /\ step = [r \in Run |-> [t \in Task |-> "none"]]
  /\ held = [r \in Run |-> [t \in Task |-> NoClaim]]
  /\ remaining = [r \in Run |-> {}]
  /\ mres = [r \in Run |-> [t \in Task |-> "none"]]
  /\ count = [r \in Run |-> 0]
  /\ crashes = 0 /\ faults = 0 /\ users = 0
  /\ fin = [t \in Task |-> "none"]
  /\ oldEvent = [t \in Task |-> FALSE]
  /\ moved = [t \in Task |-> FALSE]
  /\ rehomed = [t \in Task |-> FALSE]
  /\ stolen = [t \in Task |-> FALSE]
  /\ quiet = [r \in Run |-> FALSE]

-----------------------------------------------------------------------------
(* The task board                                                          *)

ClaimPreserving == {"implementing", "reviewing", "waiting_for_merge", "merging",
                    "failed"}
ClaimActive == {"implementing", "reviewing", "waiting_for_merge", "merging"}

InterruptedStatuses == {"implementing", "reviewing", "merging"}

\* The claim after a transition: kept, else the caller's, else none.
TransitionClaim(t, s, patch) ==
  IF s \notin ClaimPreserving THEN NoClaim
  ELSE IF claim[t] # NoClaim THEN claim[t] ELSE patch

\* transitionHubTaskStatus: whatever the status was, the board now shows s.
UpdateStatus(t, s, patch) ==
  /\ status' = [status EXCEPT ![t] = s]
  /\ claim' = [claim EXCEPT ![t] = TransitionClaim(t, s, patch)]
  /\ closeBad' = [closeBad EXCEPT ![t] = FALSE]

Eligible(t) == status[t] = "ready_for_agent"

\* readTaskEvents reads the run directories in the order of their names.
LastInOrder(R) == CHOOSE r \in R : \A q \in R : rank[q] <= rank[r]

\* latestPhaseCompletionEventByTask: later events overwrite earlier ones.
LatestEvent(t) ==
  LET R == {r \in Run : log[r][t] # NoEvent}
  IN  IF R = {} THEN NoEvent ELSE log[LastInOrder(R)][t]

-----------------------------------------------------------------------------
(* Start of a run                                                          *)

Interrupted == {t \in Task : status[t] \in InterruptedStatuses /\ lease[t] = 0}

\* reconcileHubLandingTransactions closes the task of every landed transaction.
ReconcileClose ==
  /\ status' = [t \in Task |-> IF receipt[t] THEN "done" ELSE status[t]]
  /\ claim' = [t \in Task |-> IF receipt[t] THEN NoClaim ELSE claim[t]]
  /\ closeBad' = [t \in Task |-> ~receipt[t] /\ closeBad[t]]
  /\ receipt' = [t \in Task |-> FALSE]

\* createHubRunContext: a run directory with a log of its own.
CreateRunContext(r) ==
  /\ phase[r] = "off" /\ \A q \in Run : q < r => phase[q] # "off"
  /\ phase' = [phase EXCEPT ![r] = "detecting"]

\* The bound on the runs alive at the same time.
RoomFor(r) ==
  Cardinality({q \in Run : Live(q)} \cup {r})
    * Cardinality({t \in Task : status[t] # "inbox"}) <= MaxPairs

StartRun(r) ==
  /\ CreateRunContext(r)
  /\ RoomFor(r)
  /\ quiet' = [q \in Run |-> IF q = r THEN \A p \in Run : ~Live(p)
                             ELSE quiet[q] /\ ~Live(q)]
  /\ ReconcileClose
  /\ UNCHANGED <<unmerged, landed, lease, log, plannedBy, nextBatch, rank, bat, sel,
                 step, held, remaining, mres, count, bounds, fin, oldEvent, moved,
                 rehomed, stolen>>

\* A live run is between two steps of its work on the task.
BusyWith(q, t) == step[q][t] \notin {"none", "ok", "bad"} \/ mres[q][t] # "none"

\* The board and the leases are read once, then the tasks are recovered.
DetectInterrupted(r) ==
  /\ phase[r] = "detecting"
  /\ phase' = [phase EXCEPT ![r] = "recovering"]
  /\ remaining' = [remaining EXCEPT ![r] = Interrupted]
  /\ stolen' = [t \in Task |-> stolen[t] \/ (t \in Interrupted /\ \E q \in Run : BusyWith(q, t))]
  /\ UNCHANGED <<board, unmerged, landed, receipt, lease, log, plannedBy, nextBatch,
                 rank, bat, sel, step, held, mres, count, bounds, fin, oldEvent,
                 moved, rehomed, quiet>>

\* Mutant: recovery does not consult the event log.
RouteStatusRetries(t) == "ready_for_agent"

\* Mutant: any phase-completion event counts as merge-ready.
RouteStatusMergesReviewing(t) ==
  IF LatestEvent(t) = NoEvent THEN "ready_for_agent" ELSE "waiting_for_merge"

\* routeInterruptedTaskRecovery: a finished phase is kept with its claim.
RouteStatus(t) ==
  IF LatestEvent(t) = NoEvent THEN "ready_for_agent" ELSE LatestEvent(t).status

\* recoverCloseFailedTask: only when the branch is merged and verified again.
RecoverCloseFailed(t) ==
  /\ status[t] = "failed" /\ closeBad[t] /\ ~unmerged[t] /\ receipt[t]
  /\ UpdateStatus(t, "done", NoClaim)
  /\ landed' = [landed EXCEPT ![t] = TRUE]

\* recoverGenericFailedTask: unmerged work goes to the merge, the rest is retried.
RecoverGenericFailed(t) ==
  /\ status[t] = "failed" /\ ~closeBad[t]
  /\ UpdateStatus(t, IF unmerged[t] /\ claim[t] # NoClaim THEN "waiting_for_merge"
                     ELSE "ready_for_agent", NoClaim)
  /\ UNCHANGED landed

\* recoverStaleExecutionStatus, along the route of the event log.
RecoverStale(t) ==
  /\ status[t] \in InterruptedStatuses
  /\ UpdateStatus(t, RouteStatus(t), NoClaim)
  /\ UNCHANGED landed

\* recoverHubTask.
RecoverTask(t) == RecoverCloseFailed(t) \/ RecoverGenericFailed(t) \/ RecoverStale(t)

Recoverable(t) ==
  \/ status[t] = "failed" /\ (closeBad[t] => receipt[t] /\ ~unmerged[t])
  \/ status[t] \in InterruptedStatuses

\* One task of autoRecoverInterruptedHubTasks; a recovery that throws is noted.
RecoverOne(r) ==
  /\ phase[r] = "recovering"
  /\ \E t \in remaining[r] :
       /\ remaining' = [remaining EXCEPT ![r] = @ \ {t}]
       /\ IF Recoverable(t) THEN RecoverTask(t)
          ELSE UNCHANGED <<board, landed>>
       /\ stolen' = [stolen EXCEPT ![t] =
            @ \/ status[t] \notin InterruptedStatuses \/ \E q \in Run : BusyWith(q, t)]
  /\ UNCHANGED <<unmerged, receipt, lease, log, plannedBy, nextBatch, rank, phase, bat, sel,
                 step, held, mres, count, bounds, fin, oldEvent, moved, rehomed, quiet>>

Resumable(t) ==
  /\ \/ status[t] = "waiting_for_merge"
     \/ HasReviewer /\ status[t] = "reviewing"
  /\ claim[t] # NoClaim
  /\ plannedBy[claim[t].batch] = claim[t].run

Unfinished == {claim[t].batch : t \in {u \in Task : Resumable(u)}}

\* startNextBatch: a new batch id, then executeSelectedBatch.
NewBatch(r) ==
  /\ nextBatch <= NBatches
  /\ bat' = [bat EXCEPT ![r] = nextBatch]
  /\ nextBatch' = nextBatch + 1
  /\ phase' = [phase EXCEPT ![r] = "planning"]

\* loadClaimedReviewingTasksForBatch.
ClaimedReviewing(b) ==
  {t \in Task : status[t] = "reviewing" /\ claim[t].batch = b}

\* resumeClaimedReviewingTasksInBatch: side by side, with the reviewer only.
ResumeReviewing(r, b) ==
  LET R == IF HasReviewer THEN ClaimedReviewing(b) ELSE {}
  IN  /\ sel' = [sel EXCEPT ![r] = R]
      /\ step' = [step EXCEPT ![r] =
           [t \in Task |-> IF t \in R THEN "resume" ELSE "none"]]

\* The oldest unfinished batch is resumed, the others wait for a later run.
ResumeOrPlan(r) ==
  /\ phase[r] = "recovering" /\ remaining[r] = {}
  /\ IF Unfinished = {}
     THEN NewBatch(r) /\ UNCHANGED <<sel, step>>
     ELSE LET b == CHOOSE x \in Unfinished : \A y \in Unfinished : x <= y
          IN  /\ bat' = [bat EXCEPT ![r] = b]
              /\ ResumeReviewing(r, b)
              /\ phase' = [phase EXCEPT ![r] = "working"]
              /\ UNCHANGED nextBatch
  /\ UNCHANGED <<board, unmerged, landed, receipt, lease, log, plannedBy, rank, held,
                 remaining, mres, count, bounds, ghosts, quiet>>

-----------------------------------------------------------------------------
(* Planning a batch                                                        *)

\* The planner's choice, or a fallback: eligible tasks, maybe none.
Selections == SUBSET {t \in Task : Eligible(t)}

\* A strategy or the planner agent picks ready tasks from the board it read.
PlanBatch(r) ==
  /\ phase[r] = "planning"
  /\ \E S \in Selections :
       sel' = [sel EXCEPT ![r] = S]
  /\ phase' = [phase EXCEPT ![r] = "planned"]
  /\ UNCHANGED <<board, unmerged, landed, receipt, lease, log, plannedBy, nextBatch, rank,
                 bat, step, held, remaining, mres, count, bounds, ghosts, quiet>>

\* The selection is kept when all of it is still eligible on a fresh board,
\* else the conservative strategy takes one eligible task.
FreshSelections(S) ==
  LET E == {t \in Task : Eligible(t)}
  IN  IF S \subseteq E THEN {S} ELSE IF E = {} THEN {{}} ELSE {{t} : t \in E}

\* Mutant: an empty selection does not stop the loop.
FreshValidateLoops(r) ==
  /\ phase[r] = "planned"
  /\ plannedBy' = [plannedBy EXCEPT ![bat[r]] = r]
  /\ \E S \in FreshSelections(sel[r]) :
       /\ sel' = [sel EXCEPT ![r] = S]
       /\ step' = [step EXCEPT ![r] =
            [t \in Task |-> IF t \in S THEN "selected" ELSE "none"]]
       /\ phase' = [phase EXCEPT ![r] = IF S = {} THEN "planning" ELSE "working"]
  /\ UNCHANGED <<board, unmerged, landed, receipt, lease, log, nextBatch, rank, bat, held,
                 remaining, mres, count, bounds, ghosts, quiet>>

\* batch_planned is logged, then the tasks are worked on side by side.
FreshValidate(r) ==
  /\ phase[r] = "planned"
  /\ plannedBy' = [plannedBy EXCEPT ![bat[r]] = r]
  /\ \E S \in FreshSelections(sel[r]) :
       /\ sel' = [sel EXCEPT ![r] = S]
       /\ step' = [step EXCEPT ![r] =
            [t \in Task |-> IF t \in S THEN "selected" ELSE "none"]]
       /\ phase' = [phase EXCEPT ![r] = IF S = {} THEN "closing" ELSE "working"]
  /\ UNCHANGED <<board, unmerged, landed, receipt, lease, log, nextBatch, rank, bat, held,
                 remaining, mres, count, bounds, ghosts, quiet>>

-----------------------------------------------------------------------------
(* Implementation and review of one task                                   *)

At(r, t, s) == phase[r] = "working" /\ step[r][t] = s
Go(r, t, s) == step' = [step EXCEPT ![r][t] = s]

\* What the steps of a task never change.
Steps == <<unmerged, receipt, plannedBy, nextBatch, rank, phase, bat, sel, remaining, mres,
           count, crashes, users, moved, stolen, quiet>>

\* The claim metadata of the current run and batch.
OwnClaim(r) == [run |-> r, batch |-> bat[r]]

\* resolveHubTaskRetryGate: a live lease blocks the task in this run.
Gate(r, t) ==
  /\ At(r, t, "selected")
  /\ Go(r, t, IF lease[t] = 0 THEN "gated" ELSE "bad")
  /\ UNCHANGED <<Steps, board, landed, lease, log, held, faults, fin, oldEvent, rehomed>>

\* claimHubTask: an active claim is left alone, any other status is claimed.
Claim(r, t) ==
  /\ At(r, t, "gated")
  /\ IF status[t] \in ClaimActive
     THEN Go(r, t, "bad") /\ UNCHANGED <<board, fin, oldEvent, held>>
     ELSE /\ UpdateStatus(t, "implementing", OwnClaim(r))
          /\ held' = [held EXCEPT ![r][t] = OwnClaim(r)]
          /\ fin' = [fin EXCEPT ![t] = "none"]
          /\ oldEvent' = [oldEvent EXCEPT ![t] = @ \/ LatestEvent(t) # NoEvent]
          /\ Go(r, t, "implement")
  /\ UNCHANGED <<Steps, landed, lease, log, faults, rehomed>>

\* run() takes the worktree lease or fails.
TakeLease(r, t, running, failing) ==
  IF lease[t] = 0
  THEN lease' = [lease EXCEPT ![t] = r] /\ Go(r, t, running)
  ELSE Go(r, t, failing) /\ UNCHANGED lease

ImplementerStarts(r, t) ==
  /\ At(r, t, "implement")
  /\ TakeLease(r, t, "implementer", "failing")
  /\ UNCHANGED <<Steps, board, landed, log, held, faults, fin, oldEvent, rehomed>>

ReviewerStarts(r, t) ==
  /\ At(r, t, "review")
  /\ TakeLease(r, t, "reviewer", "failingReview")
  /\ UNCHANGED <<Steps, board, landed, log, held, faults, fin, oldEvent, rehomed>>

ReleaseLease(t) == lease' = [lease EXCEPT ![t] = 0]

Mishap == crashes + faults < MaxMishaps

\* One of the failures that the bounds allow for.
Fault == Mishap /\ faults < MaxFault /\ faults' = faults + 1

\* A transient provider error: the lease is released during the back-off.
ProviderRetry(r, t) ==
  /\ Fault
  /\ \/ At(r, t, "implementer") /\ Go(r, t, "implement")
     \/ At(r, t, "reviewer") /\ Go(r, t, "review")
  /\ ReleaseLease(t)
  /\ UNCHANGED <<Steps, board, landed, log, held, fin, oldEvent, rehomed>>

\* The implementer: branch work and the completion signal are a success, the
\* signal without work only when the task has been landed before.
ImplementerEnds(r, t) ==
  /\ At(r, t, "implementer")
  /\ ReleaseLease(t)
  /\ \E w \in {unmerged[t], TRUE} :
       /\ unmerged' = [unmerged EXCEPT ![t] = w]
       /\ \/ w /\ Go(r, t, "implemented") /\ UNCHANGED faults
          \/ ~w /\ landed[t] /\ Go(r, t, "already") /\ UNCHANGED faults
          \/ Fault /\ Go(r, t, "failing")
  /\ UNCHANGED <<receipt, plannedBy, nextBatch, rank, phase, bat, sel, remaining, mres,
                 count, crashes, users, moved, quiet,
                 board, landed, log, held, fin, oldEvent, rehomed, stolen>>

ReviewerEnds(r, t) ==
  /\ At(r, t, "reviewer")
  /\ ReleaseLease(t)
  /\ \/ Go(r, t, "reviewed") /\ UNCHANGED faults
     \/ Fault /\ Go(r, t, "failingReview")
  /\ UNCHANGED <<Steps, board, landed, log, held, fin, oldEvent, rehomed>>

\* The status the implementation succeeds into.
PostImplementation == IF HasReviewer THEN "reviewing" ELSE "waiting_for_merge"

\* A success appends its event to the log of the run ...
LogSuccess(r, t, s, finished, next) ==
  /\ log' = [log EXCEPT ![r][t] = [status |-> s, batch |-> bat[r]]]
  /\ fin' = [fin EXCEPT ![t] = finished]
  /\ Go(r, t, next)
  /\ UNCHANGED <<Steps, board, landed, lease, held, faults, oldEvent, rehomed>>

\* ... and then updates the board.
ShowSuccess(r, t, s, next) ==
  /\ UpdateStatus(t, s, held[r][t])
  /\ Go(r, t, next)
  /\ UNCHANGED <<Steps, landed, lease, log, held, faults, fin, oldEvent, rehomed>>

ImplementedEvent(r, t) ==
  At(r, t, "implemented") /\ LogSuccess(r, t, PostImplementation, "implemented", "implementedLogged")

ImplementedStatus(r, t) ==
  /\ At(r, t, "implementedLogged")
  /\ ShowSuccess(r, t, PostImplementation, IF HasReviewer THEN "review" ELSE "ok")

ReviewedEvent(r, t) ==
  At(r, t, "reviewed") /\ LogSuccess(r, t, "waiting_for_merge", "reviewed", "reviewedLogged")

ReviewedStatus(r, t) ==
  At(r, t, "reviewedLogged") /\ ShowSuccess(r, t, "waiting_for_merge", "ok")

\* An implementation that was merged before is recorded as merge-ready ...
AlreadyMerged(r, t) ==
  \/ At(r, t, "already") /\ LogSuccess(r, t, "waiting_for_merge", "reviewed", "alreadyLogged")
  \/ At(r, t, "alreadyLogged") /\ ShowSuccess(r, t, "waiting_for_merge", "alreadyClosing")

\* ... and closed without a merge.
AlreadyMergedCloses(r, t) ==
  /\ At(r, t, "alreadyClosing")
  /\ UpdateStatus(t, "done", NoClaim)
  /\ Go(r, t, "ok")
  /\ UNCHANGED <<Steps, landed, lease, log, held, faults, fin, oldEvent, rehomed>>

\* A failure logs no phase-completion event.
ShowFailure(r, t) ==
  /\ UpdateStatus(t, "failed", held[r][t])
  /\ Go(r, t, "bad")
  /\ UNCHANGED <<Steps, landed, lease, log, held, faults, fin, oldEvent, rehomed>>

ImplementationFails(r, t) == At(r, t, "failing") /\ ShowFailure(r, t)

ReviewFails(r, t) == At(r, t, "failingReview") /\ ShowFailure(r, t)

\* reviewSelectedTask, its end: what the reviewer found is recorded.
RecordReview(r, t) == ReviewedEvent(r, t) \/ ReviewedStatus(r, t) \/ ReviewFails(r, t)

\* rehomeHubTaskClaimOntoCurrentRun: this run, the batch that is resumed.
RehomedClaim(r) == [run |-> r, batch |-> bat[r]]

\* resumeReviewSelectedTask: the claim is pointed at this run, then reviewed.
ResumeReview(r, t) ==
  /\ At(r, t, "resume")
  /\ IF lease[t] # 0
     THEN Go(r, t, "bad") /\ UNCHANGED <<board, held, rehomed>>
     ELSE /\ status' = [status EXCEPT ![t] = "reviewing"]
          /\ claim' = [claim EXCEPT ![t] = RehomedClaim(r)]
          /\ closeBad' = [closeBad EXCEPT ![t] = FALSE]
          /\ held' = [held EXCEPT ![r][t] = RehomedClaim(r)]
          /\ rehomed' = [rehomed EXCEPT ![t] = TRUE]
          /\ Go(r, t, "review")
  /\ UNCHANGED <<Steps, landed, lease, log, faults, fin, oldEvent>>

-----------------------------------------------------------------------------
(* The merge phase and the end of a batch                                  *)

\* hasClaimDriftFromEvent: the log of this run names another run for the claim.
ClaimDrift(r, t) ==
  /\ log[r][t] = [status |-> "waiting_for_merge", batch |-> bat[r]]
  /\ claim[t] # OwnClaim(r)

MergeSelected(r) ==
  {t \in Task : /\ status[t] = "waiting_for_merge" /\ claim[t] # NoClaim
                /\ ~(ClaimDrift(r, t) /\ unmerged[t])
                /\ claim[t].batch = bat[r] /\ unmerged[t]}

\* The tasks are over: merge when all succeeded, else the batch failed.
TasksOver(r) ==
  /\ phase[r] = "working"
  /\ \A t \in sel[r] : step[r][t] \in {"ok", "bad"}
  /\ IF \E t \in sel[r] : step[r][t] = "bad"
     THEN /\ phase' = [phase EXCEPT ![r] = "closing"]
          /\ UNCHANGED <<remaining, held, mres>>
     ELSE /\ remaining' = [remaining EXCEPT ![r] = MergeSelected(r)]
          /\ mres' = [mres EXCEPT ![r] =
               [t \in Task |-> IF t \in MergeSelected(r) THEN "enter" ELSE "none"]]
          /\ held' = [held EXCEPT ![r] =
               [t \in Task |-> IF t \in MergeSelected(r) THEN claim[t] ELSE @[t]]]
          /\ phase' = [phase EXCEPT ![r] =
               IF MergeSelected(r) = {} THEN "settling" ELSE "entering"]
  /\ step' = [step EXCEPT ![r] = [t \in Task |-> "none"]]
  /\ UNCHANGED <<board, unmerged, landed, receipt, lease, log, plannedBy, nextBatch, rank,
                 bat, sel, count, bounds, ghosts, quiet>>

\* enterMergePhase, one task after the other.
EnterMergePhase(r) ==
  /\ phase[r] = "entering"
  /\ \E t \in remaining[r] :
       /\ UpdateStatus(t, "merging", held[r][t])
       /\ remaining' = [remaining EXCEPT ![r] = @ \ {t}]
       /\ mres' = [mres EXCEPT ![r][t] = "merging"]
       /\ phase' = [phase EXCEPT ![r] = IF remaining[r] = {t} THEN "merging" ELSE @]
  /\ UNCHANGED <<unmerged, landed, receipt, lease, log, plannedBy, nextBatch, rank, bat,
                 sel, step, held, count, bounds, fin, oldEvent, moved, rehomed, stolen, quiet>>

\* processMergeTask: one task is merged and closed before the next.
Taken(r, t) ==
  /\ phase[r] = "merging" /\ mres[r][t] = "merging"
  /\ \A u \in Task : mres[r][u] # "landed"

\* The candidate lands: the target has the work, the task is not closed yet.
Land(r, t) ==
  /\ Taken(r, t)
  /\ unmerged' = [unmerged EXCEPT ![t] = FALSE]
  /\ landed' = [landed EXCEPT ![t] = TRUE]
  /\ receipt' = [receipt EXCEPT ![t] = TRUE]
  /\ mres' = [mres EXCEPT ![r][t] = "landed"]
  /\ UNCHANGED <<board, lease, log, plannedBy, nextBatch, rank, phase, bat, sel, step,
                 held, remaining, count, bounds, ghosts, quiet>>

\* What the outcomes of a merge leave alone.
MergeSteps == <<unmerged, landed, lease, log, plannedBy, nextBatch, rank, phase, bat, sel,
                step, held, remaining, count, crashes, users, fin, oldEvent, moved,
                rehomed, stolen, quiet>>

NotLanded(r, t, s, result) ==
  /\ Taken(r, t)
  /\ Fault
  /\ UpdateStatus(t, s, held[r][t])
  /\ mres' = [mres EXCEPT ![r][t] = result]
  /\ UNCHANGED <<MergeSteps, receipt>>

\* The other ends of processMergeTask: pending, failed, repair exhausted.
MergePending(r, t) == NotLanded(r, t, "waiting_for_merge", "pending")

MergeFails(r, t) == NotLanded(r, t, "failed", "bad")

RepairExhausted(r, t) == NotLanded(r, t, "blocked", "bad")

\* closeLandedTask.
CloseLanded(r, t) ==
  /\ phase[r] = "merging" /\ mres[r][t] = "landed"
  /\ UpdateStatus(t, "done", NoClaim)
  /\ receipt' = [receipt EXCEPT ![t] = FALSE]
  /\ mres' = [mres EXCEPT ![r][t] = "merged"]
  /\ UNCHANGED <<MergeSteps, faults>>

\* bd cannot close the task: failed with close_failed, its work has landed.
CloseFails(r, t) ==
  /\ phase[r] = "merging" /\ mres[r][t] = "landed"
  /\ Fault
  /\ status' = [status EXCEPT ![t] = "failed"]
  /\ claim' = [claim EXCEPT ![t] = TransitionClaim(t, "failed", held[r][t])]
  /\ closeBad' = [closeBad EXCEPT ![t] = TRUE]
  /\ mres' = [mres EXCEPT ![r][t] = "bad"]
  /\ UNCHANGED <<MergeSteps, receipt>>

Merged(r) == {t \in Task : mres[r][t] # "none"}

\* resolveBatchMergeStatus: every task has the same result, or it is partial.
MergeStatus(r) ==
  LET out == {mres[r][t] : t \in Merged(r)}
  IN  CASE out = {"merged"} -> "done" [] out = {"pending"} -> "pending"
        [] out = {} -> "skipped" [] OTHER -> "partial_failed"

\* resolveHubFlowBatchStatus, of a batch whose tasks all succeeded: the merge
\* must have selected the same tasks; nothing to merge is a failure.
BatchStatus(r) ==
  CASE MergeStatus(r) = "pending" -> "pending"
    [] MergeStatus(r) = "done" /\ sel[r] \in {{}, Merged(r)} -> "completed"
    [] OTHER -> "failed"

\* The loop goes on after a completed batch, unless --max-batches is reached.
BatchOver(r) ==
  /\ \/ phase[r] = "settling"
     \/ phase[r] = "merging" /\ \A t \in Merged(r) : mres[r][t] \in {"merged", "pending", "bad"}
  /\ count' = [count EXCEPT ![r] = @ + 1]
  /\ IF BatchStatus(r) = "completed" /\ count[r] + 1 < MaxBatches
     THEN NewBatch(r)
     ELSE phase' = [phase EXCEPT ![r] = "closing"] /\ UNCHANGED <<bat, nextBatch>>
  /\ sel' = [sel EXCEPT ![r] = {}]
  /\ mres' = [mres EXCEPT ![r] = [t \in Task |-> "none"]]
  /\ held' = [held EXCEPT ![r] = [t \in Task |-> NoClaim]]
  /\ UNCHANGED <<board, unmerged, landed, receipt, lease, log, plannedBy, rank, step, remaining,
                 bounds, ghosts, quiet>>

\* The end of the run reconciles the landing transactions once more.
EndRun(r) ==
  /\ phase[r] = "closing"
  /\ phase' = [phase EXCEPT ![r] = "ended"]
  /\ sel' = [sel EXCEPT ![r] = {}]
  /\ held' = [held EXCEPT ![r] = [t \in Task |-> NoClaim]]
  /\ ReconcileClose
  /\ UNCHANGED <<unmerged, landed, lease, log, plannedBy, nextBatch, rank, bat, step, remaining,
                 mres, count, bounds, fin, oldEvent, moved, rehomed, stolen, quiet>>

-----------------------------------------------------------------------------
(* The environment                                                         *)

\* The process stops, by a signal or a crash; its leases are stale from now on.
Crash(r) ==
  /\ Live(r) /\ Mishap /\ crashes < MaxCrash
  /\ crashes' = crashes + 1
  /\ phase' = [phase EXCEPT ![r] = "dead"]
  /\ lease' = [t \in Task |-> IF lease[t] = r THEN 0 ELSE lease[t]]
  /\ sel' = [sel EXCEPT ![r] = {}]
  /\ step' = [step EXCEPT ![r] = [t \in Task |-> "none"]]
  /\ held' = [held EXCEPT ![r] = [t \in Task |-> NoClaim]]
  /\ remaining' = [remaining EXCEPT ![r] = {}]
  /\ mres' = [mres EXCEPT ![r] = [t \in Task |-> "none"]]
  /\ quiet' = [quiet EXCEPT ![r] = FALSE]
  /\ UNCHANGED <<board, unmerged, landed, receipt, log, plannedBy, nextBatch, rank, bat,
                 count, faults, users, ghosts>>

\* archloop tasks recover <id>.
UserRecover(t) ==
  /\ users < MaxUser /\ users' = users + 1
  /\ Recoverable(t) /\ status[t] = "failed"
  /\ RecoverTask(t)
  /\ moved' = [moved EXCEPT ![t] = TRUE]
  /\ UNCHANGED <<unmerged, receipt, lease, log, plannedBy, nextBatch, rank, runVars, crashes,
                 faults, fin, oldEvent, rehomed, stolen, quiet>>

\* archloop tasks recover --stale --yes: every interrupted task.
UserRecoverStale ==
  /\ users < MaxUser /\ users' = users + 1
  /\ Interrupted # {}
  /\ status' = [t \in Task |-> IF t \in Interrupted THEN RouteStatus(t) ELSE status[t]]
  /\ claim' = [t \in Task |-> IF t \in Interrupted
                              THEN TransitionClaim(t, RouteStatus(t), NoClaim) ELSE claim[t]]
  /\ closeBad' = [t \in Task |-> t \notin Interrupted /\ closeBad[t]]
  /\ stolen' = [t \in Task |-> stolen[t] \/ (t \in Interrupted /\ \E q \in Run : BusyWith(q, t))]
  /\ UNCHANGED <<unmerged, landed, receipt, lease, log, plannedBy, nextBatch, rank, runVars,
                 crashes, faults, fin, oldEvent, moved, rehomed, quiet>>

\* The user makes a blocked or a done task ready for an agent again.
UserReopen(t) ==
  /\ users < MaxUser /\ users' = users + 1
  /\ status[t] \in {"blocked", "done"}
  /\ UpdateStatus(t, "ready_for_agent", NoClaim)
  /\ UNCHANGED <<unmerged, landed, receipt, lease, log, plannedBy, nextBatch, rank, runVars,
                 crashes, faults, fin, oldEvent, moved, rehomed, stolen, quiet>>

TaskStep(r, t) ==
  \/ Gate(r, t) \/ Claim(r, t) \/ ImplementerStarts(r, t) \/ ImplementerEnds(r, t)
  \/ ImplementedEvent(r, t) \/ ImplementedStatus(r, t) \/ ImplementationFails(r, t)
  \/ AlreadyMerged(r, t) \/ AlreadyMergedCloses(r, t)
  \/ ResumeReview(r, t) \/ ReviewerStarts(r, t) \/ ReviewerEnds(r, t)
  \/ RecordReview(r, t)

\* runBatchMergePhase: the tasks of the batch, one after the other.
MergeStep(r, t) ==
  \/ Land(r, t) \/ CloseLanded(r, t) \/ CloseFails(r, t)
  \/ MergePending(r, t) \/ MergeFails(r, t) \/ RepairExhausted(r, t)

RunStep(r) ==
  \/ DetectInterrupted(r) \/ RecoverOne(r) \/ ResumeOrPlan(r)
  \/ PlanBatch(r) \/ FreshValidate(r) \/ TasksOver(r)
  \/ EnterMergePhase(r) \/ BatchOver(r) \/ EndRun(r)
  \/ \E t \in Task : TaskStep(r, t) \/ MergeStep(r, t)

FlowEnvironment ==
  \/ \E r \in Run : StartRun(r) \/ Crash(r) \/ \E t \in Task : ProviderRetry(r, t)
  \/ UserRecoverStale
  \/ \E t \in Task : UserRecover(t) \/ UserReopen(t)

FlowNext == FlowEnvironment \/ \E r \in Run : RunStep(r)

FlowSpec == FlowInit /\ [][FlowNext]_flowVars

FairFlow == FlowSpec /\ \A r \in Run : WF_flowVars(RunStep(r))

-----------------------------------------------------------------------------

\* Types; a task has a claim when its status is one that a run works in, and
\* only a failed task keeps one besides; a lease belongs to a running agent.
FlowTypeOK ==
  /\ status \in [Task -> Status] /\ claim \in [Task -> Claims]
  /\ \A t \in Task : (claim[t] # NoClaim /\ status[t] # "failed") <=> status[t] \in ClaimActive
  /\ {unmerged, landed, receipt, closeBad} \subseteq [Task -> BOOLEAN]
  /\ lease \in [Task -> 0..NRuns]
  /\ \A t \in Task : lease[t] # 0 => step[lease[t]][t] \in {"implementer", "reviewer"}

\* What is merged has finished the phases of its flow in the current attempt:
\* with a reviewer, a review has succeeded since the task was last claimed.
\* A crash at any point and the recovery of the next run (hubTaskRecover.ts,
\* hubTaskRecoveryRouter.ts) keep this.  Three ways around it are excused and
\* recorded as hazards: an event of an earlier attempt in some log, the
\* user's `tasks recover`, and a starting run that recovers a live task.
MergedWasFinished ==
  \A t \in Task : status[t] = "merging" =>
    \/ fin[t] = "reviewed"
    \/ ~HasReviewer /\ fin[t] = "implemented"
    \/ oldEvent[t] \/ moved[t] \/ stolen[t]

\* An interrupted task whose implementation is recorded as finished is never
\* sent back to be implemented again, wherever the process stopped between
\* the event and the board (recoverStaleExecutionStatus).
FinishedNotRedone ==
  [][\A t \in Task : status[t] \in InterruptedStatuses /\ fin[t] # "none"
        => status'[t] # "ready_for_agent"]_flowVars

\* The last run that ended, started after everything else had stopped.
LastQuietRun(r) ==
  /\ phase[r] = "ended" /\ quiet[r]
  /\ \A q \in Run : q > r => phase[q] = "off"

\* After a run that was alone has ended, nothing an earlier process left
\* half-way is stuck: every landed task is closed, and a task in an execution
\* status is in a batch that the next run resumes.  Excused: a task whose
\* claim a resumed review has moved to another run.
NothingStranded ==
  \A r \in Run : LastQuietRun(r) =>
    \A t \in Task :
      /\ ~receipt[t]
      /\ status[t] \in ClaimActive => Resumable(t) \/ rehomed[t]

\* A done task has been landed: no path of closing, recovering, reconciling
\* or recognising earlier work closes a task whose work never landed.
DoneWasLanded == \A t \in Task : status[t] = "done" => landed[t]

\* Every run that is not killed ends: the batch loop has no cycle.
RunsEnd == <>[](\A r \in Run : ~Live(r))

\* The board is consistent and what it says has happened: FlowTypeOK,
\* MergedWasFinished, NothingStranded and DoneWasLanded (runObservedHubFlow, recoverInterruptedHubTasks).
BoardIsTrue == FlowTypeOK /\ MergedWasFinished /\ NothingStranded /\ DoneWasLanded
=============================================================================
