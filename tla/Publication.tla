----------------------------- MODULE Publication -----------------------------
(***************************************************************************)
(* The remote publication outbox of the Hub, src/src/hubPublication.ts,    *)
(* as the batch merge (hubBatchMerge.ts), the reconciliation and the start *)
(* of a run (hubFlowExecution.ts) use it.  Landed candidates are enqueued, *)
(* and passes over the outbox observe the remote ref and push with a lease *)
(* until the remote contains them.  Several runs share the outbox; others  *)
(* push to the remote, or reset it.                                        *)
(*                                                                         *)
(* A commit is the set of changes in its history, so that "is ancestor of" *)
(* is inclusion; the empty set is the commit everybody started from.       *)
(***************************************************************************)
EXTENDS Naturals, Sequences, FiniteSets

CONSTANTS
    Task,         \* the landed tasks; each is also the change it makes
    Foreign,      \* bound: the changes others push to the remote
    Proc,         \* runs of the Hub
    Required,     \* the publish policy is "required" ("best_effort" otherwise)
    Absent,       \* there is no remote ref: GIT_ZERO_OID
    None,         \* no candidate, no job
    MaxFailures,  \* bound: failures of the network or the remote
    MaxRewinds,   \* bound: resets of the remote ref by others
    MaxCrashes,   \* bound: crashes of runs
    MaxMishaps    \* bound: all three together

Commit == SUBSET (Task \cup Foreign)

ASSUME PublicationAssumption ==
    /\ IsFiniteSet(Task) /\ IsFiniteSet(Foreign)
    /\ Task \cap Foreign = {}
    /\ Required \in BOOLEAN
    /\ None \notin Task
    /\ \A c \in Commit : c # Absent /\ c # None
    /\ MaxFailures \in Nat /\ MaxRewinds \in Nat /\ MaxCrashes \in Nat
    /\ MaxMishaps \in Nat

VARIABLES
    remoteTarget, \* the remote target of the landing policy
    target,       \* the publish target
    candidate,    \* the commit a task landed as
    known,        \* tips whose objects the local repository has
    remote,       \* the remote ref
    outbox,       \* landing/publication-outbox, in the order of createdAt
    pc,           \* where a run is
    stage,        \* which pass over the outbox a run makes, and why
    job,          \* the task a run publishes
    list,         \* the items a run has listed, with the outcome of the pass
    at,           \* the item at hand
    tip,          \* the remote tip a run has observed
    delivered,    \* tasks a run has reported as delivered
    published,    \* history: tasks whose candidate was on the remote
    spare, failures, rewinds, crashes  \* what others can still do

repo == <<remoteTarget, target, candidate>>
local == <<stage, job, list, at, tip>>
aux == <<failures, rewinds, crashes>>
vars == <<repo, known, remote, outbox, pc, local, delivered, published, spare, aux>>

Item == [task : Task, expected : {Absent} \cup Commit, status : {"pending", "succeeded"},
         reason : {"none", "error", "diverged", "unset", "integrity"}, acked : BOOLEAN]

\* A pass that is not part of a required delivery: "sync".  Required delivery
\* syncs ("before"), drives the outbox ("drive") and syncs once more
\* ("delivered", or "sync" after a timeout).
Stages == {"sync", "before", "drive", "delivered"}

Init ==
    /\ remoteTarget \in {"set", "unset", "malformed"}
    /\ target = {} /\ candidate = [t \in Task |-> None]
    /\ known = {{}} /\ remote \in {Absent, {}}
    /\ outbox = <<>>
    /\ pc = [p \in Proc |-> "idle"] /\ stage = [p \in Proc |-> "sync"]
    /\ job = [p \in Proc |-> None] /\ list = [p \in Proc |-> <<>>]
    /\ at = [p \in Proc |-> 1] /\ tip = [p \in Proc |-> Absent]
    /\ delivered = {} /\ published = {}
    /\ spare = Foreign /\ failures = 0 /\ rewinds = 0 /\ crashes = 0

Mishap == failures + rewinds + crashes < MaxMishaps

\* A failure outside the Hub that the bounds allow for.
Fail == Mishap /\ failures < MaxFailures /\ failures' = failures + 1

Goto(p, l) == pc' = [pc EXCEPT ![p] = l]

Landed == {t \in Task : candidate[t] # None}

\* The repository has c when it has a descendant of it.
InRepo(c, k) == \E d \in k : c \subseteq d

\* git merge-base --is-ancestor, in a repository with the objects of k: false when
\* an object is missing.
IsAncestor(a, b, k) == InRepo(a, k) /\ InRepo(b, k) /\ a \subseteq b

-----------------------------------------------------------------------------
(* Landing and enqueue *)

\* The batch merge lands a task on the publish target (LandingTransaction) and
\* publishes it next.
Land(p, t) ==
    /\ pc[p] = "idle" /\ t \notin Landed
    /\ target' = target \cup {t}
    /\ candidate' = [candidate EXCEPT ![t] = target']
    /\ known' = known \cup {target'}
    /\ job' = [job EXCEPT ![p] = t]
    /\ Goto(p, "landed")
    /\ UNCHANGED <<remoteTarget, remote, outbox, stage, list, at, tip, delivered, published, spare,
                   aux>>

\* The item of the same key, or a sibling with another expected remote commit.
HasItem(t, unset) ==
    \E i \in DOMAIN outbox : outbox[i].task = t /\ (outbox[i].reason = "unset") = unset

NewItem(t, expected, reason) ==
    [task |-> t, expected |-> expected, status |-> "pending", reason |-> reason, acked |-> FALSE]

\* enqueueHubPublication: nothing for a remote target that cannot be parsed.
Enqueue(t, expected) ==
    outbox' =
        CASE remoteTarget = "unset" /\ ~HasItem(t, TRUE) -> Append(outbox, NewItem(t, Absent, "unset"))
          [] remoteTarget = "set" /\ ~HasItem(t, FALSE) -> Append(outbox, NewItem(t, expected, "none"))
          [] OTHER -> outbox

\* observeRemoteTipSync: a failure reads as an absent ref.
Observed(expected) ==
    \/ expected = remote /\ UNCHANGED failures
    \/ remoteTarget = "set" /\ expected = Absent /\ Fail

\* Mutant of NextPending: an item that failed once is not tried again.
NextPendingUntried(items, i) ==
    LET rest == {j \in DOMAIN items : j > i /\ items[j].status = "pending" /\ items[j].reason = "none"}
    IN  IF rest = {} THEN Len(items) + 1 ELSE CHOOSE j \in rest : \A k \in rest : j <= k

\* The first pending item after the item i: a pass does nothing to the others.
NextPending(items, i) ==
    LET rest == {j \in DOMAIN items : j > i /\ items[j].status = "pending"}
    IN  IF rest = {} THEN Len(items) + 1 ELSE CHOOSE j \in rest : \A k \in rest : j <= k

\* listHubPublicationOutboxItems at the start of a pass
Listed(p, s) ==
    /\ list' = [list EXCEPT ![p] = outbox']
    /\ at' = [at EXCEPT ![p] = NextPending(outbox', 0)]
    /\ stage' = [stage EXCEPT ![p] = s]
    /\ Goto(p, "item")

\* The batch merge enqueues and goes on with a pass.
EnqueueLanded(p) ==
    /\ pc[p] = "landed"
    /\ \E expected \in {remote, Absent} : Observed(expected) /\ Enqueue(job[p], expected)
    /\ Listed(p, IF Required THEN "before" ELSE "sync")
    /\ UNCHANGED <<repo, known, remote, job, tip, delivered, published, spare, rewinds, crashes>>

\* The reconciliation enqueues every landed candidate again; what is in the outbox
\* stays as it is.
EnqueueReconciled(p, t) ==
    /\ pc[p] = "idle" /\ t \in Landed
    /\ \E expected \in {remote, Absent} : Observed(expected) /\ Enqueue(t, expected)
    /\ outbox' # outbox
    /\ UNCHANGED <<repo, known, remote, pc, local, delivered, published, spare, rewinds, crashes>>

-----------------------------------------------------------------------------
(* A pass over the outbox: projectHubPublicationOutbox *)

\* The pass at the start of a run.
StartSync(p) ==
    /\ pc[p] = "idle"
    /\ UNCHANGED outbox
    /\ Listed(p, "sync")
    /\ UNCHANGED <<repo, known, remote, job, tip, delivered, published, spare, aux>>

Current(p) == list[p][at[p]]

\* writeOutboxItem: the item as it was listed, changed, replaces the file.
Write(p, item) ==
    /\ outbox' = [outbox EXCEPT ![at[p]] = item]
    /\ list' = [list EXCEPT ![p][at[p]] = item]

\* The item is written and the pass goes on with the next one.
Record(p, item) ==
    /\ Write(p, item)
    /\ at' = [at EXCEPT ![p] = NextPending(list[p], @)]
    /\ tip' = [tip EXCEPT ![p] = Absent]
    /\ Goto(p, "item")

MarkPending(p, reason) ==
    Record(p, [Current(p) EXCEPT !.status = "pending", !.reason = reason])

MarkSucceeded(p) ==
    Record(p, [Current(p) EXCEPT !.status = "succeeded", !.reason = "none", !.acked = FALSE])

\* Mutant of Contains: ancestry is asked the wrong way round.
ContainsReversed(c, r, k) == r # Absent /\ IsAncestor(r, c, k)

\* remoteContainsCandidate
Contains(c, r, k) == r # Absent /\ IsAncestor(c, r, k)

\* remoteTipDivergedFromExpectation
Diverged(item, r, k) ==
    r # Absent /\ r # item.expected /\ ~IsAncestor(r, candidate[item.task], k)

\* projectOneItem, once the tip r is observed and the repository has the objects of k
Decide(p, r, k) ==
    LET item == Current(p)
        there == Contains(candidate[item.task], r, k)
    IN  \/ there /\ MarkSucceeded(p)
        \/ ~there /\ item.acked /\ MarkPending(p, "integrity")
        \/ ~there /\ ~item.acked /\ Diverged(item, r, k) /\ MarkPending(p, "diverged")
        \/ /\ ~there /\ ~item.acked /\ ~Diverged(item, r, k)
           /\ Goto(p, "push") /\ tip' = [tip EXCEPT ![p] = r] /\ UNCHANGED <<outbox, list, at>>

\* Items that wait for the user are written again as they are.
Hold(p) ==
    /\ pc[p] = "item" /\ at[p] <= Len(list[p])
    /\ Current(p).reason \in {"integrity", "unset"}
    /\ MarkPending(p, Current(p).reason)
    /\ UNCHANGED <<repo, known, remote, stage, job, delivered, published, spare, aux>>

\* The ref is observed; a tip that is not in the repository is fetched first.
Observe(p) ==
    /\ pc[p] = "item" /\ at[p] <= Len(list[p])
    /\ Current(p).reason \notin {"integrity", "unset"}
    /\ \/ /\ remote # Absent => InRepo(remote, known)
          /\ Decide(p, remote, known)
          /\ UNCHANGED failures
       \/ /\ remote # Absent /\ ~InRepo(remote, known)
          /\ tip' = [tip EXCEPT ![p] = remote] /\ Goto(p, "fetch")
          /\ UNCHANGED <<outbox, list, at, failures>>
       \/ Fail /\ MarkPending(p, "error")
    /\ UNCHANGED <<repo, known, remote, stage, job, delivered, published, spare, rewinds, crashes>>

\* ensureCandidateObjectFetched: what the ref is by now; a failure is ignored.
Fetch(p) ==
    /\ pc[p] = "fetch"
    /\ \/ known' = known \cup ({remote} \ {Absent}) /\ UNCHANGED failures
       \/ Fail /\ UNCHANGED known
    /\ Decide(p, tip[p], known')
    /\ UNCHANGED <<repo, remote, stage, job, delivered, published, spare, rewinds, crashes>>

-----------------------------------------------------------------------------
(* Push and its outcomes: pushCandidateWithCrashWindows *)

\* Mutant of Accepts: the push is an unqualified force push.
AcceptsForced(c, lease) == TRUE

\* The remote takes a commit it has already; with a lease, when the ref still is
\* the observed tip, a fast-forward or not; without one, as a fast-forward.
Accepts(c, lease) ==
    \/ remote = c
    \/ lease # Absent /\ remote = lease
    \/ lease = Absent /\ (remote # Absent => remote \subseteq c)

\* The ref moves to the candidate of the item at hand.
Pushed(p) ==
    /\ remote' = candidate[Current(p).task]
    /\ published' = published \cup {t \in Landed : candidate[t] \subseteq remote'}

\* The push succeeds; succeeds and the answer is lost; is refused.
Push(p) ==
    /\ pc[p] = "push"
    /\ LET accepts == Accepts(candidate[Current(p).task], tip[p])
       IN  \/ accepts /\ Pushed(p) /\ Goto(p, "ack") /\ UNCHANGED failures
           \/ accepts /\ Pushed(p) /\ Goto(p, "recheck") /\ Fail
           \/ accepts /\ Goto(p, "recheck") /\ Fail /\ UNCHANGED <<remote, published>>
           \/ ~accepts /\ Goto(p, "recheck") /\ UNCHANGED <<remote, published, failures>>
    /\ UNCHANGED <<repo, known, outbox, local, delivered, spare, rewinds, crashes>>

\* trySucceedFromRemoteObservation after a push that failed
Recheck(p) ==
    /\ pc[p] = "recheck"
    /\ LET there == Contains(candidate[Current(p).task], remote, known)
       IN  \/ there /\ MarkSucceeded(p) /\ UNCHANGED failures
           \/ ~there /\ MarkPending(p, "error") /\ UNCHANGED failures
           \/ there /\ MarkPending(p, "error") /\ Fail
    /\ UNCHANGED <<repo, known, remote, stage, job, delivered, published, spare, rewinds, crashes>>

\* markAmbiguousPushAcknowledged
Ack(p) ==
    /\ pc[p] = "ack"
    /\ Write(p, [Current(p) EXCEPT !.status = "pending", !.acked = TRUE])
    /\ Goto(p, "confirm")
    /\ UNCHANGED <<repo, known, remote, stage, job, at, tip, delivered, published, spare, aux>>

\* The remote is observed once more; the item has succeeded either way.
Confirm(p) ==
    /\ pc[p] = "confirm"
    /\ MarkSucceeded(p)
    /\ UNCHANGED <<repo, known, remote, stage, job, delivered, published, spare, aux>>

-----------------------------------------------------------------------------
(* The end of a pass, and required delivery: driveHubRequiredPublication *)

NothingPending(p) == \A i \in DOMAIN list[p] : list[p][i].status = "succeeded"

NextPass(p, s) == UNCHANGED <<outbox, job, tip, delivered>> /\ Listed(p, s)

\* The run goes on with something else.
Leave(p) ==
    /\ Goto(p, "idle")
    /\ job' = [job EXCEPT ![p] = None]
    /\ list' = [list EXCEPT ![p] = <<>>] /\ at' = [at EXCEPT ![p] = 1]
    /\ stage' = [stage EXCEPT ![p] = "sync"] /\ tip' = [tip EXCEPT ![p] = Absent]
    /\ UNCHANGED outbox

\* The drive polls until nothing of the whole outbox is pending, or times out.
EndPass(p) ==
    /\ pc[p] = "item" /\ at[p] > Len(list[p])
    /\ \/ stage[p] = "sync" /\ Leave(p) /\ UNCHANGED delivered
       \/ stage[p] = "before" /\ NextPass(p, "drive")
       \/ stage[p] = "drive" /\ NothingPending(p) /\ NextPass(p, "delivered")
       \/ stage[p] = "drive" /\ ~NothingPending(p) /\ NextPass(p, "drive")
       \/ stage[p] = "drive" /\ ~NothingPending(p) /\ NextPass(p, "sync")
       \/ stage[p] = "delivered" /\ Leave(p) /\ delivered' = delivered \cup {job[p]}
    /\ UNCHANGED <<repo, known, remote, published, spare, aux>>

-----------------------------------------------------------------------------
(* Others, and crashes *)

\* The user pulls, and the host contribution reaches the publish target.
Pull ==
    /\ remote # Absent /\ ~(remote \subseteq target)
    /\ target' = target \cup remote
    /\ known' = known \cup {target'}
    /\ UNCHANGED <<remoteTarget, candidate, remote, outbox, pc, local, delivered, published,
                   spare, aux>>

\* configureHubLandingPolicy
Configure ==
    /\ remoteTarget = "unset"
    /\ remoteTarget' = "set"
    /\ UNCHANGED <<target, candidate, known, remote, outbox, pc, local, delivered, published,
                   spare, aux>>

\* Others push a change on top of the remote ref.
ForeignPush(f) ==
    /\ f \in spare
    /\ remote' = IF remote = Absent THEN {f} ELSE remote \cup {f}
    /\ spare' = spare \ {f}
    /\ UNCHANGED <<repo, known, outbox, pc, local, delivered, published, aux>>

\* Others reset the remote ref to the commit everybody started from.
Rewind ==
    /\ remote # Absent /\ remote # {}
    /\ Mishap /\ rewinds < MaxRewinds /\ rewinds' = rewinds + 1
    /\ remote' = {}
    /\ UNCHANGED <<repo, known, outbox, pc, local, delivered, published, spare, failures, crashes>>

Crash(p) ==
    /\ pc[p] # "idle"
    /\ Mishap /\ crashes < MaxCrashes /\ crashes' = crashes + 1
    /\ Leave(p)
    /\ UNCHANGED <<repo, known, remote, delivered, published, spare, failures, rewinds>>

-----------------------------------------------------------------------------
Step(p) ==
    \/ EnqueueLanded(p) \/ Hold(p) \/ Observe(p) \/ Fetch(p)
    \/ Push(p) \/ Recheck(p) \/ Ack(p) \/ Confirm(p) \/ EndPass(p)

Next ==
    \/ \E p \in Proc : Step(p) \/ StartSync(p) \/ Crash(p)
    \/ \E p \in Proc, t \in Task : Land(p, t) \/ EnqueueReconciled(p, t)
    \/ \E f \in Foreign : ForeignPush(f)
    \/ Pull \/ Configure \/ Rewind

Spec == Init /\ [][Next]_vars

\* A run that is in a pass goes on, and runs are started again and again.
FairSpec == Spec /\ \A p \in Proc : WF_vars(Step(p) \/ StartSync(p))

-----------------------------------------------------------------------------
(* Properties *)

\* Every variable is of its type, and the outbox has at most two items of a task:
\* one for the configured remote and one from before there was a remote.
TypeOK ==
    /\ remoteTarget \in {"set", "unset", "malformed"}
    /\ target \in Commit /\ candidate \in [Task -> {None} \cup Commit]
    /\ known \subseteq Commit /\ remote \in {Absent} \cup Commit
    /\ outbox \in Seq(Item)
    /\ \A i, j \in DOMAIN outbox :
         outbox[i].task = outbox[j].task /\ (outbox[i].reason = "unset") = (outbox[j].reason = "unset")
         => i = j
    /\ pc \in [Proc -> {"idle", "landed", "item", "fetch", "push", "recheck", "ack", "confirm"}]
    /\ stage \in [Proc -> Stages] /\ job \in [Proc -> Task \cup {None}]
    /\ list \in [Proc -> Seq(Item)] /\ at \in [Proc -> Nat \ {0}]
    /\ tip \in [Proc -> {Absent} \cup Commit]
    /\ delivered \subseteq Task /\ published \subseteq Task /\ spare \subseteq Foreign
    /\ failures \in 0 .. MaxFailures /\ rewinds \in 0 .. MaxRewinds /\ crashes \in 0 .. MaxCrashes

\* An item succeeds only when its candidate has been on the remote, whatever was
\* lost, retried or written back from a stale listing (projectOneItem).
SucceededWasPublished ==
    \A i \in DOMAIN outbox : outbox[i].status = "succeeded" => outbox[i].task \in published

\* Required delivery is reported for a task only when its candidate has been on the
\* remote, if the remote target can be parsed (driveHubRequiredPublication).
DeliveredWasPublished == remoteTarget # "malformed" => delivered \subseteq published

\* A step that is not a reset by others.
OwnStep == rewinds' = rewinds

\* A push takes something off the remote only if the remote is what the item's
\* enqueue observed: the divergence check and the lease together (projectOneItem,
\* buildPushArgs).
OnlyExpectedOverwritten ==
    [][OwnStep /\ remote # Absent /\ ~(remote \subseteq remote') =>
        \E i \in DOMAIN outbox : outbox[i].expected = remote /\ candidate[outbox[i].task] = remote']_vars

\* Every item in the end stays succeeded, or waits for the user for a stated reason
\* (the automatic retry of the outbox).
EveryItemSettles ==
    <>[](\A i \in DOMAIN outbox :
            outbox[i].status = "succeeded" \/ outbox[i].reason \in {"diverged", "unset", "integrity"})
\* What the outbox and the report of a delivery say has been on the remote: TypeOK,
\* SucceededWasPublished and DeliveredWasPublished.
DeliveryIsTrue == TypeOK /\ SucceededWasPublished /\ DeliveredWasPublished
=============================================================================
