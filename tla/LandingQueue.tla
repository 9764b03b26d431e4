---------------------------- MODULE LandingQueue ----------------------------
(***************************************************************************)
(* The batch merge of the Hub and the durable FIFO queue it lands through: *)
(*   src/src/hubBatchMerge.ts      runHubBatchMerge, processMergeTask      *)
(*   src/src/hubLandingQueue.ts    tickets, queue head, drift, quiet wait  *)
(*   src/src/hubFlowExecution.ts   resumed batches, reconciliation         *)
(*   src/src/hubPublication.ts     required delivery (outbox, timeout)     *)
(* One run at a time, started again after it ends or crashes.  Commits are *)
(* counted: a candidate is its base, and lands when the publish target is  *)
(* still that base.  LandingTransaction models what a landing does with    *)
(* refs, lease and journal, and several runs at a time.                    *)
(***************************************************************************)
EXTENDS Integers, Sequences, FiniteSets

CONSTANTS
    Task,
    Blockers,     \* the tasks a task depends on (task metadata)
    BatchOf,      \* the batch of the claim of a task; the lowest is resumed first
    Board,        \* the place of a task on the task board
    RebuildLimit, \* HUB_LANDING_TARGET_DRIFT_REBUILD_LIMIT
    None,         \* no ticket
    MaxDrifts,    \* bound: moves of the publish target by others
    MaxFailures,  \* bound: conflicts, red verifications, errors, timeouts
    MaxCrashes    \* bound: crashes of the run

Eligible == {"queued", "speculating", "verified", "invalidated", "target_quiet_wait"}
Statuses == Eligible \cup {"landed", "publishing", "failed", "blocked_unshipped_prerequisite"}

\* HubLandingQueueTicket: its place, status, rebuilds of its activation, last target seen.
Ticket == [seq : Nat \ {0}, status : Statuses, rebuilds : 0 .. RebuildLimit, seen : Nat]

ASSUME QueueAssumption ==
    /\ Blockers \in [Task -> SUBSET Task]
    /\ BatchOf \in [Task -> Nat] /\ Board \in [Task -> Nat]
    /\ \A a, b \in Task : Board[a] = Board[b] => a = b
    /\ IsFiniteSet(Task)
    /\ RebuildLimit \in Nat /\ None \notin Ticket
    /\ MaxDrifts \in Nat /\ MaxFailures \in Nat /\ MaxCrashes \in Nat

VARIABLES
    required, \* the publish policy is "required"
    hub,      \* the Hub status of a task in Beads
    ticket,   \* queue.json
    nextSeq,  \* nextSequence of queue.json
    tip,      \* the publish target, as the number of commits on it
    host,     \* the host branch has commits the publish target lacks
    landed,   \* the commit a task landed as (its receipt), 0 for none
    outbox,   \* tasks with a pending item in the publication outbox
    remote,   \* tasks whose commit the remote target contains
    pc,       \* where the run is
    order,    \* the tasks of the batch still to merge, in order
    shipped,  \* shippedIds of the run
    pred,     \* the candidate the batch landed last, 0 for none
    base,     \* the base of the candidate at hand
    drifts, failures, crashes  \* how often the environment interfered

store == <<hub, ticket, nextSeq, landed, outbox, remote>>
run == <<order, shipped, pred, base>>
aux == <<drifts, failures, crashes>>
vars == <<required, store, tip, host, pc, run, aux>>

Init ==
    /\ required \in BOOLEAN
    /\ hub = [a \in Task |-> "waiting_for_merge"]
    /\ ticket = [a \in Task |-> None]
    /\ nextSeq = 1
    /\ tip = 1 /\ host = FALSE
    /\ landed = [a \in Task |-> 0]
    /\ outbox = {} /\ remote = {}
    /\ pc = "down"
    /\ order = <<>> /\ shipped = {} /\ pred = 0 /\ base = 0
    /\ drifts = 0 /\ failures = 0 /\ crashes = 0

Fail == failures < MaxFailures /\ failures' = failures + 1

-----------------------------------------------------------------------------
(* The queue *)

Tickets == {a \in Task : ticket[a] # None}

Earlier(b, a) == ticket[b].seq < ticket[a].seq

\* The members of S with the lowest sequence number (one at most).
Front(S) == {b \in S : \A c \in S : ticket[b].seq <= ticket[c].seq}

\* resolveHubLandingQueueHead as it is called: with no shipped tasks.
QueueHead == Front({a \in Tickets : ticket[a].status \in Eligible /\ Blockers[a] = {}})

\* Mutant of DeliveryHold: an unacknowledged predecessor holds nobody.
DeliveryHoldNever(a) == FALSE

\* findEarlierRequiredDeliveryHold
DeliveryHold(a) == \E b \in Tickets : Earlier(b, a) /\ ticket[b].status = "publishing"

\* canLandHubLandingTicket
CanLand(a) == ~DeliveryHold(a) /\ a \in QueueHead

\* updateTicket on a function of tickets: nothing happens without a ticket.
SetStatus(q, a, s) == IF q[a] = None THEN q ELSE [q EXCEPT ![a].status = s]

\* invalidateHubLandingSpeculativeSuffix, on a function of tickets
InvalidateSuffix(q, a) ==
    [b \in Task |->
        IF q[b] = None \/ q[a] = None THEN q[b]
        ELSE IF \/ q[b].seq <= q[a].seq
                \/ q[b].status \in {"landed", "failed", "blocked_unshipped_prerequisite"}
        THEN q[b] ELSE [q[b] EXCEPT !.status = "invalidated"]]

\* markHubLandingQueueLanded and markHubLandingQueuePublishing
MarkShipped(q, a, s) ==
    IF q[a] = None THEN q ELSE [q EXCEPT ![a].status = s, ![a].rebuilds = 0]

-----------------------------------------------------------------------------
(* A run starts: reconciliation, recovery, the oldest unfinished batch *)

Launch ==
    /\ pc = "down"
    /\ pc' = "start"
    /\ UNCHANGED <<required, store, tip, run, aux, host>>

\* reconcileHubLandingTransactions: what has a receipt is closed, and its
\* publication enqueued; the ticket is not touched.
Reconcile ==
    /\ pc \in {"start", "end"}
    /\ \E a \in Task :
         /\ landed[a] # 0 /\ hub[a] # "closed"
         /\ hub' = [hub EXCEPT ![a] = "closed"]
         /\ outbox' = outbox \cup ({a} \ remote)
    /\ UNCHANGED <<required, ticket, nextSeq, landed, remote, tip, pc, run, aux, host>>

Reconciled == \A a \in Task : landed[a] # 0 => hub[a] = "closed"

\* autoRecoverInterruptedHubTasks: interrupted merges wait for merge again.
Recovered(a) == IF hub[a] = "merging" THEN "waiting_for_merge" ELSE hub[a]

\* The task orderTasksByDependencies takes next: the first on the board whose
\* selected blockers are taken, else the first.
NextInOrder(S, taken) ==
    LET ready == {a \in S \ taken : Blockers[a] \cap S \subseteq taken}
        pool == IF ready # {} THEN ready ELSE S \ taken
    IN  CHOOSE a \in pool : \A b \in pool : Board[a] <= Board[b]

OrderTasksByDependencies(S) ==
    CHOOSE s \in [1 .. Cardinality(S) -> S] :
        \A i \in 1 .. Cardinality(S) : s[i] = NextInOrder(S, {s[j] : j \in 1 .. i - 1})

\* A ticket for the k-th task that had none.
NewTicket(k) == [seq |-> nextSeq + k - 1, status |-> "queued", rebuilds |-> 0, seen |-> 0]

\* assignHubLandingQueueTickets: a ticket keeps its place for good.
AssignTickets(s) ==
    LET fresh == {i \in 1 .. Len(s) : ticket[s[i]] = None}
        kth(i) == Cardinality({j \in fresh : j <= i})
    IN  /\ nextSeq' = nextSeq + Cardinality(fresh)
        /\ ticket' = [a \in Task |->
             IF \E i \in 1 .. Len(s) : s[i] = a
             THEN IF ticket[a] = None THEN NewTicket(kth(CHOOSE i \in fresh : s[i] = a))
                  ELSE [ticket[a] EXCEPT !.status = IF @ = "invalidated" THEN "queued" ELSE @]
             ELSE ticket[a]]

\* evaluateHubBatchMergeSelection and enterMergePhase for the batch to resume.
SelectBatch ==
    LET waiting == {a \in Task : Recovered(a) = "waiting_for_merge"}
        batch == {a \in waiting : \A b \in waiting : BatchOf[a] <= BatchOf[b]}
        s == OrderTasksByDependencies(batch)
    IN
    /\ pc = "start" /\ Reconciled
    /\ hub' = [a \in Task |-> IF a \in batch THEN "merging" ELSE Recovered(a)]
    /\ AssignTickets(s)
    /\ order' = s
    /\ shipped' = {a \in Task : hub[a] = "closed"}
    /\ pred' = 0 /\ base' = 0
    /\ pc' = IF batch = {} THEN "end" ELSE "host"
    /\ UNCHANGED <<required, tip, landed, outbox, remote, aux, host>>

\* The tasks still to merge wait for merge again.
RevertOrder ==
    /\ hub' = [b \in Task |-> IF \E i \in 1 .. Len(order) : order[i] = b
                              THEN "waiting_for_merge" ELSE hub[b]]
    /\ order' = <<>>

\* The host branch has nothing the publish target lacks.
HostContained ==
    /\ ~host
    /\ pc' = "next"
    /\ UNCHANGED <<hub, tip, host, order, pred, failures>>

\* What landed for the host is the predecessor of the first candidate.
HostLands ==
    /\ host
    /\ tip' = tip + 1 /\ host' = FALSE
    /\ pred' = tip + 1
    /\ pc' = "next"
    /\ UNCHANGED <<hub, order, failures>>

\* It cannot land: the whole batch is pending.
HostPending ==
    /\ host
    /\ Fail
    /\ RevertOrder
    /\ pc' = "end"
    /\ UNCHANGED <<tip, host, pred>>

\* reconcileHubHostTargetContribution: commits of the host branch land first,
\* whatever the queue holds; while they cannot, no task is merged.
ImportHost ==
    /\ pc = "host"
    /\ HostContained \/ HostLands \/ HostPending
    /\ UNCHANGED <<required, ticket, nextSeq, landed, outbox, remote, shipped, base, drifts, crashes>>

-----------------------------------------------------------------------------
(* The loop over the tasks of the batch *)

\* The loop goes on with the next task, the Hub status of this one is st.
Settle(st) ==
    /\ hub' = [hub EXCEPT ![Head(order)] = st]
    /\ order' = Tail(order)
    /\ pc' = "next"

EndBatch ==
    /\ pc = "next" /\ order = <<>>
    /\ pc' = "end"
    /\ UNCHANGED <<required, store, tip, run, aux, host>>

\* Reconciliation at the end of the run.
Finish ==
    /\ pc = "end" /\ Reconciled
    /\ pc' = "down"
    /\ UNCHANGED <<required, store, tip, run, aux, host>>

Unblocked == pc = "next" /\ order # <<>> /\ Blockers[Head(order)] \subseteq shipped

SkipBlocked ==
    LET a == Head(order) IN
    /\ pc = "next" /\ order # <<>> /\ ~(Blockers[a] \subseteq shipped)
    /\ ticket' = SetStatus(ticket, a, "blocked_unshipped_prerequisite")
    /\ Settle("waiting_for_merge")
    /\ UNCHANGED <<required, nextSeq, landed, outbox, remote, tip, shipped, pred, base, aux, host>>

QuietTickets == {b \in Tickets : ticket[b].status = "target_quiet_wait"}

\* The task, or one before it, waits for a quiet target.
QuietBlocks(a) == \E b \in QuietTickets : b = a \/ Earlier(b, a)

\* Mutant of NoteTarget: the target that was seen is not written back.
NoteTargetNever(b) == ticket

\* resumeHubLandingQuietWaitIfStable: the target has moved, the ticket waits on.
NoteTarget(b) == [ticket EXCEPT ![b].seen = tip]

\* resumeHubLandingQuietWaitIfStable: a new activation.
Resume(b) ==
    [ticket EXCEPT ![b] = [@ EXCEPT !.status = "queued", !.rebuilds = 0, !.seen = tip]]

TakeTask ==
    LET a == Head(order) IN
    /\ Unblocked
    /\ \/ /\ ~QuietBlocks(a)
          /\ pc' = "build"
          /\ UNCHANGED <<hub, ticket, order>>
       \/ /\ QuietBlocks(a)
          /\ \E b \in Front(QuietTickets) :
               \/ /\ ticket[b].seen # tip
                  /\ ticket' = NoteTarget(b)
                  /\ Settle("waiting_for_merge")
               \/ /\ ticket[b].seen = tip
                  /\ ticket' = Resume(b)
                  /\ pc' = "build"
                  /\ UNCHANGED <<hub, order>>
    /\ UNCHANGED <<required, nextSeq, landed, outbox, remote, tip, shipped, pred, base, aux, host>>

\* The merger pins the candidate landed last in this batch, else the target.
PinnedBase == IF pred # 0 THEN pred ELSE tip

\* The merger builds a candidate, the first time and after a drift.
CreateCandidate == base' = PinnedBase

\* A candidate is built and recorded in the ticket.
BuildCandidate ==
    /\ pc = "build"
    /\ CreateCandidate
    /\ ticket' = SetStatus(ticket, Head(order), "speculating")
    /\ pc' = "verify"
    /\ UNCHANGED <<required, hub, nextSeq, landed, outbox, remote, tip, order, shipped, pred, aux, host>>

\* The ticket is failed and what was built on it invalidated.
FailTicket(a) == ticket' = InvalidateSuffix(SetStatus(ticket, a, "failed"), a)

\* settleUnsuccessfulMerge: where a task goes whose merge gave no candidate.
SettledStatus == [merge_conflict |-> "blocked", transient |-> "waiting_for_merge",
                  merge_failed |-> "failed"]

\* Git, the merge agent or the worktree failed: there is no candidate.
MergeFails ==
    /\ pc = "build"
    /\ Fail
    /\ FailTicket(Head(order))
    /\ \E result \in DOMAIN SettledStatus : Settle(SettledStatus[result])
    /\ UNCHANGED <<required, nextSeq, landed, outbox, remote, tip, shipped, pred, base, drifts, crashes, host>>

\* The repairs of the candidate are spent.
VerifyFails ==
    /\ pc = "verify"
    /\ Fail
    /\ FailTicket(Head(order))
    /\ Settle("blocked")
    /\ UNCHANGED <<required, nextSeq, landed, outbox, remote, tip, shipped, pred, base, drifts, crashes, host>>

VerifyTask ==
    /\ pc = "verify"
    /\ ticket' = SetStatus(ticket, Head(order), "verified")
    /\ pc' = "land"
    /\ UNCHANGED <<required, hub, nextSeq, landed, outbox, remote, tip, run, aux, host>>

-----------------------------------------------------------------------------
(* finalizeLandedCandidate *)

\* queue_head_blocked: the task stays pending.
RefuseOvertaking ==
    /\ pc = "land"
    /\ ~CanLand(Head(order))
    /\ Settle("waiting_for_merge")
    /\ UNCHANGED <<required, ticket, nextSeq, landed, outbox, remote, tip, shipped, pred, base, aux, host>>

\* commitHubLandingTarget: the CAS against the pinned base.
Land ==
    LET a == Head(order) IN
    /\ pc = "land"
    /\ CanLand(a) /\ base = tip
    /\ tip' = tip + 1
    /\ landed' = [landed EXCEPT ![a] = tip + 1]
    /\ pc' = "landed"
    /\ UNCHANGED <<required, hub, ticket, nextSeq, outbox, remote, run, aux, host>>

\* failLandedCandidate: landing threw; the ticket stays as it is.
LandError ==
    /\ pc = "land"
    /\ CanLand(Head(order))
    /\ Fail
    /\ \E st \in {"failed", "waiting_for_merge"} : Settle(st)
    /\ UNCHANGED <<required, ticket, nextSeq, landed, outbox, remote, tip, shipped, pred, base, drifts,
                   crashes, host>>

\* Mutant of RebuildsSpent: one rebuild more than the limit.
RebuildsSpentLate(a) == ticket[a].rebuilds > RebuildLimit

\* shouldEnterHubLandingQuietWait
RebuildsSpent(a) == ticket[a].rebuilds >= RebuildLimit

\* Drift within the limit: the count goes up, what was built on the candidate
\* is invalidated, the candidate is built again.
RebuildOnDrift ==
    LET a == Head(order)
        q == [ticket EXCEPT ![a].status = "queued", ![a].seen = tip, ![a].rebuilds = @ + 1]
    IN
    /\ pc = "land"
    /\ CanLand(a) /\ base # tip
    /\ ~RebuildsSpent(a)
    /\ ticket' = InvalidateSuffix(q, a)
    /\ CreateCandidate
    /\ pc' = "reverify"
    /\ UNCHANGED <<required, hub, nextSeq, landed, outbox, remote, tip, order, shipped, pred, aux, host>>

\* The rebuilt candidate is verified, or the task ends with its ticket queued.
Reverify ==
    /\ pc = "reverify"
    /\ \/ /\ pc' = "land"
          /\ UNCHANGED <<hub, order, failures>>
       \/ /\ Fail
          /\ \E st \in {"blocked", "failed", "waiting_for_merge"} : Settle(st)
    /\ UNCHANGED <<required, ticket, nextSeq, landed, outbox, remote, tip, shipped, pred, base, drifts,
                   crashes, host>>

\* Drift past the limit: the ticket waits for a quiet target, the rest of the
\* batch waits for merge.
EnterQuietWait ==
    LET a == Head(order) IN
    /\ pc = "land"
    /\ CanLand(a) /\ base # tip
    /\ RebuildsSpent(a)
    /\ ticket' = [ticket EXCEPT ![a] = [@ EXCEPT !.status = "target_quiet_wait", !.seen = tip]]
    /\ RevertOrder
    /\ pc' = "next"
    /\ UNCHANGED <<required, nextSeq, landed, outbox, remote, tip, shipped, pred, base, aux, host>>

\* The ticket is marked landed, under every publish policy.
MarkLanded ==
    /\ pc = "landed"
    /\ ticket' = MarkShipped(ticket, Head(order), "landed")
    /\ pc' = IF required THEN "publish" ELSE "close"
    /\ UNCHANGED <<required, hub, nextSeq, landed, outbox, remote, tip, run, aux, host>>

-----------------------------------------------------------------------------
(* closeLandedTask *)

\* awaitRequiredPublicationBeforeClose
StartPublishing ==
    LET a == Head(order) IN
    /\ pc = "publish"
    /\ hub' = [hub EXCEPT ![a] = "publishing"]
    /\ ticket' = MarkShipped(ticket, a, "publishing")
    /\ outbox' = outbox \cup {a}
    /\ pc' = "driving"
    /\ UNCHANGED <<required, nextSeq, landed, remote, tip, run, aux, host>>

\* driveHubRequiredPublication: nothing is pending any more.
Delivered ==
    /\ pc = "driving"
    /\ remote' = remote \cup outbox
    /\ outbox' = {}
    /\ ticket' = MarkShipped(ticket, Head(order), "landed")
    /\ pc' = "close"
    /\ UNCHANGED <<required, hub, nextSeq, landed, tip, run, aux, host>>

\* completed_with_pending_delivery: the task and its ticket stay publishing.
DeliveryTimeout ==
    /\ pc = "driving"
    /\ Fail
    /\ Settle("publishing")
    /\ UNCHANGED <<required, ticket, nextSeq, landed, outbox, remote, tip, shipped, pred, base, drifts,
                   crashes, host>>

\* The next task is built on the candidate that landed.
CloseTask ==
    LET a == Head(order) IN
    /\ pc = "close"
    /\ Settle("closed")
    /\ outbox' = IF required THEN outbox ELSE outbox \cup {a}
    /\ shipped' = shipped \cup {a}
    /\ pred' = landed[a]
    /\ UNCHANGED <<required, ticket, nextSeq, landed, remote, tip, base, aux, host>>

\* recordCloseFailure
CloseFail ==
    /\ pc = "close"
    /\ Fail
    /\ Settle("failed")
    /\ UNCHANGED <<required, ticket, nextSeq, landed, outbox, remote, tip, shipped, pred, base, drifts,
                   crashes, host>>

-----------------------------------------------------------------------------
(* The environment *)

\* Somebody else commits on the publish target.
Advance ==
    /\ drifts < MaxDrifts
    /\ drifts' = drifts + 1
    /\ tip' = tip + 1
    /\ UNCHANGED <<required, store, pc, run, failures, crashes, host>>

\* The user commits on the host branch.
HostCommit ==
    /\ drifts < MaxDrifts
    /\ drifts' = drifts + 1
    /\ host' = TRUE
    /\ UNCHANGED <<required, store, tip, pc, run, failures, crashes>>

Crash ==
    /\ pc # "down"
    /\ crashes < MaxCrashes
    /\ crashes' = crashes + 1
    /\ pc' = "down"
    /\ order' = <<>> /\ shipped' = {} /\ pred' = 0 /\ base' = 0
    /\ UNCHANGED <<required, store, tip, drifts, failures, host>>

Start == Launch \/ Reconcile \/ SelectBatch \/ ImportHost \/ EndBatch \/ Finish
Merge == SkipBlocked \/ TakeTask \/ BuildCandidate \/ MergeFails \/ VerifyFails \/ VerifyTask
LandTicket == RefuseOvertaking \/ Land \/ LandError \/ RebuildOnDrift \/ Reverify
              \/ EnterQuietWait \/ MarkLanded
Ship == StartPublishing \/ Delivered \/ DeliveryTimeout \/ CloseTask \/ CloseFail

Step == Start \/ Merge \/ LandTicket \/ Ship

Next == Step \/ Advance \/ HostCommit \/ Crash

Spec == Init /\ [][Next]_vars

\* The run goes on while it lives, and is started again when it has ended.
FairSpec == Spec /\ WF_vars(Step)

-----------------------------------------------------------------------------
(* Properties *)

Settled == {"closed", "failed", "blocked"}

\* Every variable keeps its type; no activation is rebuilt more often than the
\* limit allows, over any number of runs.
TypeOK ==
    /\ required \in BOOLEAN
    /\ hub \in [Task -> Settled \cup {"waiting_for_merge", "merging", "publishing"}]
    /\ \A a \in Tickets : ticket[a] \in [seq : 1 .. nextSeq - 1, status : Statuses,
                                         rebuilds : 0 .. RebuildLimit, seen : 0 .. tip]
    /\ host \in BOOLEAN
    /\ nextSeq \in Nat \ {0} /\ tip \in Nat \ {0}
    /\ landed \in [Task -> 0 .. tip]
    /\ outbox \subseteq Task /\ remote \subseteq Task
    /\ order \in Seq(Task) /\ shipped \subseteq Task
    /\ pred \in 0 .. tip /\ base \in 0 .. tip
    /\ pc \in {"down", "start", "host", "end", "next", "build", "verify", "land", "reverify", "landed",
               "publish", "driving", "close"}

Lands(a) == landed[a] = 0 /\ landed'[a] # 0

\* Landings keep the order of the queue (canLandHubLandingTicket).  When a task
\* lands, every independent task with an earlier ticket has landed before or its
\* own candidate has failed: later transactions do not overtake.  And under the
\* required policy every earlier landing is delivered, as long as no run was
\* interrupted: successors cannot advance past an unacknowledged predecessor.
\* (A run that dies between MarkLanded and StartPublishing leaves the landing
\* without its hold.)
LandsInOrder ==
    [][\A a, b \in Task :
         Lands(a) /\ b \in Tickets /\ Earlier(b, a) =>
           /\ Blockers[b] = {} => landed[b] # 0 \/ ticket[b].status = "failed"
           /\ required /\ crashes = 0 /\ landed[b] # 0 => b \in remote]_vars

\* Every task that waits for merge is closed in the end, or its own merge or
\* verification has failed: no task waits for ever for a queue that is stuck, as
\* long as nothing failed.
EveryTaskSettles ==
    <>(failures > 0 \/ crashes > 0 \/ \A a \in Task : hub[a] \in Settled \/ Blockers[a] # {})
=============================================================================
