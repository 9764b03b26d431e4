------------------------- MODULE LandingTransaction -------------------------
(***************************************************************************)
(* The landing plane of the Hub: several "archloop run" processes build,   *)
(* verify and land merge candidates on one Hub publish target, close the   *)
(* landed tasks, and reconcile what an interrupted run left behind.        *)
(*   src/src/hubLanding.ts                 candidates, verification, CAS   *)
(*   src/src/hubLandingTransaction.ts      the append-only journal         *)
(*   src/src/hubLandingCoordinator.ts      the lease around the CAS        *)
(*   src/src/hubLandingReconciliation.ts   recovery from durable evidence  *)
(*   src/src/hubBatchMerge.ts              the calls of one merge task     *)
(* Durable state (Git refs, files, Beads) is shared by the processes and   *)
(* survives Crash; everything indexed by Proc is lost in a crash.          *)
(***************************************************************************)
EXTENDS Naturals, FiniteSets

CONSTANTS
    Task,        \* Hub tasks; the source commit of each is frozen
    Proc,        \* Hub processes (archloop runs)
    Oid,         \* object ids of the integration commits
    Genesis,     \* the commit the publish target starts at
    None,        \* an absent file, ref or record
    Dead,        \* the lease owner is a process that no longer runs
    Claims,      \* the tasks the batch of each process may select
    MaxRepairs,  \* HUB_LANDING_REPAIR_BUDGET: repairs per task and source
    MaxRebuilds, \* HUB_LANDING_TARGET_DRIFT_REBUILD_LIMIT
    MaxCrashes,  \* bound: crashes of processes
    MaxFailures, \* bound: conflicts, red verifications, queue holds, bd errors
    MaxDrifts    \* bound: moves of the publish target by others

ASSUME LandingAssumption ==
    /\ Genesis \in Oid
    /\ Claims \in [Proc -> SUBSET Task]
    /\ MaxRepairs \in Nat /\ MaxRebuilds \in Nat
    /\ MaxCrashes \in Nat /\ MaxFailures \in Nat /\ MaxDrifts \in Nat
    /\ None \notin Oid \cup Proc \cup (Task \X Oid) /\ Dead \notin Proc
    /\ None \notin [txn : Task \X Oid, cand : Oid \cup {None}]
    /\ Dead # None
    /\ Oid \cap Task = {}

\* A transaction id is a hash of task, source and pinned base.
Txn == Task \X Oid
TaskOf(t) == t[1]
BaseOf(t) == t[2]

MaybeOid == Oid \cup {None}
Close == [txn : Txn, cand : Oid]

\* Checkpoint ranks of the journal; 0 is a journal without a valid record.
Opened == 1
BasePinned == 2
CandidateCreated == 3
CandidateVerified == 4
TargetLanded == 5
TaskClosed == 6
Cleaned == 7

VARIABLES
    objects,   \* the integration commits that exist
    history,   \* history[c]: the commits and task sources reachable from c
    target,    \* the Hub publish target ref
    fence,     \* the fence ref: one fresh value per landing
    candRef,   \* refs/archloop/candidates/<txn>
    receipt,   \* refs/archloop/receipts/<txn>: the candidate it names
    worktree,  \* HEAD of the integration worktree of a transaction
    manifest,  \* candidate.json
    artifact,  \* verification.json: the candidate it is bound to
    journal,   \* the reduced journal: highest rank, last candidate
    torn,      \* journals that end in a torn line
    lease,     \* lease.json: the process that wrote it
    beads,     \* the landing metadata a task was closed with
    repairs,   \* verification repair attempts spent per task
    rebuilds,  \* activationDriftRebuilds of the queue ticket of a task
    pc, txn, cand, expT, expF, pred, batch, todo, plan,  \* local to a process
    passed,    \* history variable: the commits the verifier accepted
    cutShort,  \* history variable: an integrity incident ended a reconciliation
    crashes, failures, drifts  \* how often the environment interfered

git == <<objects, history, target, fence, candRef, receipt>>
files == <<manifest, artifact, journal, torn, lease, repairs, rebuilds>>
ghost == <<passed, cutShort>>
aux == <<crashes, failures, drifts>>
work == <<txn, cand, expT, expF, pred, batch, todo, plan>>  \* local, but pc
local == <<pc, work>>
vars == <<git, worktree, files, beads, local, ghost, aux>>

-----------------------------------------------------------------------------
(* The journal *)

MaxOf(a, b) == IF a >= b THEN a ELSE b

\* Mutant of Reduce: ranks are added up.
ReduceSum(state, rank, c) ==
    [rank |-> state.rank + rank, cand |-> IF c = None THEN state.cand ELSE c]

\* reduceHubLandingTransaction folds the records: the highest checkpoint and
\* the last candidate win.
Reduce(state, rank, c) ==
    [rank |-> MaxOf(state.rank, rank), cand |-> IF c = None THEN state.cand ELSE c]

\* One append: a line torn by a crash has no newline, so the next record is
\* glued to it and both are skipped by the reader.
AppendCheckpoint(t, rank, c) ==
    /\ journal' = IF t \in torn THEN journal
                  ELSE [journal EXCEPT ![t] = Reduce(@, rank, c)]
    /\ torn' = torn \ {t}

\* The process is about to append to the journal of its transaction.
Appending == {"pin", "reffed", "bound", "landed", "mark_fail", "mark_drift",
              "mark_land", "mark_scan", "note", "note_scan"}

-----------------------------------------------------------------------------
(* Reading the evidence of a transaction *)

\* candidate ref, else manifest, else journal
CandidateOid(t) ==
    IF candRef[t] # None THEN candRef[t]
    ELSE IF manifest[t] # None THEN manifest[t] ELSE journal[t].cand

Differ(a, b) == a # None /\ b # None /\ a # b

InTarget(c) == c # None /\ c \in history[target]

IntegrityIncident(t) ==
    \/ Differ(journal[t].cand, candRef[t])
    \/ Differ(manifest[t], candRef[t])
    \/ Differ(receipt[t], CandidateOid(t))
    \/ receipt[t] # None /\ ~InTarget(CandidateOid(t))

\* Mutant of Landed: the journal is believed, the receipt is not looked for.
LandedByJournal(t) == journal[t].rank >= TargetLanded

Landed(t) == receipt[t] # None /\ ~IntegrityIncident(t)

MatchingClose(t, c) == beads[TaskOf(t)] = [txn |-> t, cand |-> c]

ClosedInBeads(t) ==
    MatchingClose(t, IF CandidateOid(t) # None THEN CandidateOid(t) ELSE receipt[t])

\* Mutant of ProvenRanks: a verified candidate counts as landed.
ProvenRanksEager(t) ==
    {r \in CandidateCreated .. TargetLanded : CandidateOid(t) # None
                                              /\ (r > CandidateCreated => artifact[t] # None)}

\* What the physical evidence proves beyond the journal.
ProvenRanks(t) ==
    LET c == CandidateOid(t)
        settled == Landed(t) \/ ClosedInBeads(t)
    IN  {r \in CandidateCreated .. Cleaned :
           \/ r = CandidateCreated /\ c # None
           \/ r = CandidateVerified /\ c # None /\ artifact[t] = c
           \/ r = TargetLanded /\ Landed(t)
           \/ r = TaskClosed /\ ClosedInBeads(t)
           \/ r = Cleaned /\ worktree[t] = None
                /\ (settled \/ journal[t].rank = Cleaned)}

\* The checkpoints reconstructCheckpoints appends, lowest first.  A directory
\* without any record that names the task has nothing to append to.
MissingRanks(t) ==
    IF \/ ProvenRanks(t) = {}
       \/ journal[t].rank = 0 /\ manifest[t] = None /\ receipt[t] = None
    THEN {}
    ELSE {r \in {Opened, BasePinned} \cup ProvenRanks(t) : r > journal[t].rank}

\* Mutant of Listed: transactions that reached the target are taken as done.
ListedUnlanded == {t \in Txn : journal[t].rank \in Opened .. CandidateVerified}

Listed == {t \in Txn : \/ journal[t].rank > 0 \/ t \in torn
                       \/ candRef[t] # None \/ receipt[t] # None}

-----------------------------------------------------------------------------
(* Local state of a process *)

Goto(p, l) == pc' = [pc EXCEPT ![p] = l]

\* The process forgets its transaction.
LeaveTo(p, l) ==
    /\ Goto(p, l)
    /\ txn' = [txn EXCEPT ![p] = None]
    /\ cand' = [cand EXCEPT ![p] = None]
    /\ expT' = [expT EXCEPT ![p] = Genesis]
    /\ expF' = [expF EXCEPT ![p] = 0]

\* ... and takes the next task of its batch.
Leave(p) == LeaveTo(p, "idle")

\* releaseHubLandingLease removes the file only when the nonce is its own.
Release(p) == lease' = IF lease = p THEN None ELSE lease

\* One of the failures outside the Hub that the bound allows for.
Fail == failures < MaxFailures /\ failures' = failures + 1

Init ==
    /\ objects = {Genesis}
    /\ history = [c \in Oid |-> IF c = Genesis THEN {Genesis} ELSE {}]
    /\ target = Genesis
    /\ fence = 0
    /\ candRef = [t \in Txn |-> None]
    /\ receipt = [t \in Txn |-> None]
    /\ worktree = [t \in Txn |-> None]
    /\ manifest = [t \in Txn |-> None]
    /\ artifact = [t \in Txn |-> None]
    /\ journal = [t \in Txn |-> [rank |-> 0, cand |-> None]]
    /\ torn = {}
    /\ lease = None
    /\ beads = [a \in Task |-> None]
    /\ repairs = [a \in Task |-> 0]
    /\ rebuilds = [a \in Task |-> 0]
    /\ pc = [p \in Proc |-> "down"]
    /\ txn = [p \in Proc |-> None]
    /\ cand = [p \in Proc |-> None]
    /\ expT = [p \in Proc |-> Genesis]
    /\ expF = [p \in Proc |-> 0]
    /\ pred = [p \in Proc |-> None]
    /\ batch = [p \in Proc |-> {}]
    /\ todo = [p \in Proc |-> {}]
    /\ plan = [p \in Proc |-> {}]
    /\ passed = {}
    /\ cutShort = FALSE
    /\ crashes = 0
    /\ failures = 0
    /\ drifts = 0

-----------------------------------------------------------------------------
(* createHubLandingCandidate: pin, restore or build, snapshot, record *)

\* The base is the candidate the batch landed last, else the publish target;
\* with the task and its source it is the identity of the transaction.
Pin(p, a) ==
    /\ txn' = [txn EXCEPT ![p] = <<a, IF pred[p] # None THEN pred[p] ELSE target>>]
    /\ cand' = [cand EXCEPT ![p] = None]
    /\ Goto(p, "pin")
    /\ UNCHANGED <<git, worktree, files, beads, expT, expF, pred, todo, plan, ghost,
                   aux>>

\* The next task of the batch.
Begin(p) ==
    /\ pc[p] = "idle"
    /\ \E a \in batch[p] : /\ Pin(p, a)
                           /\ batch' = [batch EXCEPT ![p] = @ \ {a}]

\* rebuildOnTargetDrift starts over with the same task.
Rebuild(p) ==
    /\ pc[p] = "rebuild"
    /\ Pin(p, TaskOf(txn[p]))
    /\ UNCHANGED batch

\* restoreCandidateFromEvidence: the ref, else the manifest, unless another
\* piece of evidence names a different candidate.
RestoredOid(t) ==
    LET c == IF candRef[t] # None THEN candRef[t] ELSE manifest[t]
    IN  IF Differ(journal[t].cand, c) \/ Differ(manifest[t], c) THEN None ELSE c

\* The journal and the ref name different candidates: the call throws.
RefuseIncident(p) ==
    /\ pc[p] = "pin"
    /\ Differ(journal[txn[p]].cand, candRef[txn[p]])
    /\ Leave(p)
    /\ UNCHANGED <<git, worktree, files, beads, pred, batch, todo, plan, ghost, aux>>

\* A worktree that is already there is kept as it is.
Restore(p) ==
    LET t == txn[p]  c == RestoredOid(t) IN
    /\ pc[p] = "pin"
    /\ ~Differ(journal[t].cand, candRef[t])
    /\ c # None
    /\ candRef' = [candRef EXCEPT ![t] = c]
    /\ worktree' = [worktree EXCEPT ![t] = IF @ = None THEN c ELSE @]
    /\ IF journal[t].cand = c THEN UNCHANGED <<journal, torn>>
       ELSE AppendCheckpoint(t, CandidateCreated, c)
    /\ cand' = [cand EXCEPT ![p] = c]
    /\ Goto(p, "created")
    /\ UNCHANGED <<objects, history, target, fence, receipt, manifest, artifact, lease,
                   repairs, rebuilds, beads, txn, expT, expF, pred, batch, todo, plan,
                   ghost, aux>>

\* opened and base_pinned are appended, the worktree is recreated at the base.
Open(p) ==
    LET t == txn[p] IN
    /\ pc[p] = "pin"
    /\ ~Differ(journal[t].cand, candRef[t])
    /\ RestoredOid(t) = None
    /\ ~(t \in torn /\ journal[t].rank = 0)
    /\ journal' = [journal EXCEPT ![t] = Reduce(@, BasePinned, None)]
    /\ torn' = torn \ {t}
    /\ worktree' = [worktree EXCEPT ![t] = BaseOf(t)]
    /\ Goto(p, "building")
    /\ UNCHANGED <<git, manifest, artifact, lease, repairs, rebuilds, beads, work, ghost,
                   aux>>

\* The journal holds nothing but the torn line: "opened" is lost with it and
\* appendHubLandingCheckpoint throws because nothing can be reduced.
OpenTorn(p) ==
    LET t == txn[p] IN
    /\ pc[p] = "pin"
    /\ RestoredOid(t) = None
    /\ t \in torn /\ journal[t].rank = 0
    /\ torn' = torn \ {t}
    /\ Leave(p)
    /\ UNCHANGED <<git, worktree, manifest, artifact, journal, lease, repairs, rebuilds,
                   beads, pred, batch, todo, plan, ghost, aux>>

\* Object ids are hashes: which unused one a commit gets does not matter.
Fresh == CHOOSE c \in Oid : c \notin objects

\* git commit: a new commit on top of head that also reaches extra.
NewCommit(head, extra) ==
    /\ Oid \ objects # {}
    /\ objects' = objects \cup {Fresh}
    /\ history' = [history EXCEPT ![Fresh] = history[head] \cup {Fresh} \cup extra]

\* git merge --no-ff of the task branch in the worktree; nothing happens when
\* the source is already reachable.
Merge(p) ==
    LET t == txn[p] IN
    /\ pc[p] = "building"
    /\ worktree[t] # None
    /\ \/ /\ TaskOf(t) \in history[worktree[t]]
          /\ UNCHANGED <<objects, history, worktree>>
       \/ /\ TaskOf(t) \notin history[worktree[t]]
          /\ NewCommit(worktree[t], {TaskOf(t)})
          /\ worktree' = [worktree EXCEPT ![t] = Fresh]
    /\ Goto(p, "merged")
    /\ UNCHANGED <<target, fence, candRef, receipt, files, beads, work, ghost, aux>>

\* Conflict repairs are exhausted: the merger removes the worktree and the task
\* fails.  It also fails when the bound leaves no object id for the merge, and when
\* another process has removed the worktree: git merge, or rev-parse HEAD after it.
MergeFail(p) ==
    LET t == txn[p] IN
    /\ pc[p] \in {"building", "merged"}
    /\ pc[p] = "merged" => worktree[t] = None
    /\ IF Oid \ objects = {} \/ worktree[t] = None THEN UNCHANGED failures ELSE Fail
    /\ worktree' = [worktree EXCEPT ![t] = None]
    /\ Leave(p)
    /\ UNCHANGED <<git, files, beads, pred, batch, todo, plan, ghost, crashes, drifts>>

\* Mutant of WriteManifest: the result of the snapshot is not taken over.
WriteManifestStale(p) ==
    LET t == txn[p] IN
    /\ pc[p] = "merged"
    /\ worktree[t] # None
    /\ cand' = [cand EXCEPT ![p] = IF @ = None THEN worktree[t] ELSE @]
    /\ IF cand[p] # None
       THEN Goto(p, "created") /\ UNCHANGED manifest
       ELSE Goto(p, "manifested") /\ manifest' = [manifest EXCEPT ![t] = worktree[t]]
    /\ UNCHANGED <<git, worktree, artifact, journal, torn, lease, repairs, rebuilds,
                   beads, txn, expT, expF, pred, batch, todo, plan, ghost, aux>>

\* The candidate is the HEAD of the worktree; candidate.json is written first.
\* snapshotHubLandingCandidateGeneration writes nothing for an unchanged HEAD.
WriteManifest(p) ==
    LET t == txn[p] IN
    /\ pc[p] = "merged"
    /\ worktree[t] # None
    /\ cand' = [cand EXCEPT ![p] = worktree[t]]
    /\ IF worktree[t] = cand[p]
       THEN /\ Goto(p, "created")
            /\ UNCHANGED manifest
       ELSE /\ Goto(p, "manifested")
            /\ manifest' = [manifest EXCEPT ![t] = worktree[t]]
    /\ UNCHANGED <<git, worktree, artifact, journal, torn, lease, repairs, rebuilds,
                   beads, txn, expT, expF, pred, batch, todo, plan, ghost, aux>>

WriteRef(p) ==
    /\ pc[p] = "manifested"
    /\ candRef' = [candRef EXCEPT ![txn[p]] = cand[p]]
    /\ Goto(p, "reffed")
    /\ UNCHANGED <<objects, history, target, fence, receipt, worktree, files, beads, work,
                   ghost, aux>>

RecordCreated(p) ==
    /\ pc[p] = "reffed"
    /\ AppendCheckpoint(txn[p], CandidateCreated, cand[p])
    /\ Goto(p, "created")
    /\ UNCHANGED <<git, worktree, manifest, artifact, lease, repairs, rebuilds, beads,
                   work, ghost, aux>>

-----------------------------------------------------------------------------
(* verifyWithBoundedRepair and bindHubLandingVerification *)

\* The verifier runs in the worktree: it accepts whatever HEAD is there.
VerifyPass(p) ==
    /\ pc[p] = "created"
    /\ worktree[txn[p]] # None
    /\ passed' = passed \cup {worktree[txn[p]]}
    /\ Goto(p, "verified")
    /\ UNCHANGED <<git, worktree, files, beads, work, cutShort, aux>>

VerifyFail(p) ==
    /\ pc[p] = "created"
    /\ IF worktree[txn[p]] = None THEN UNCHANGED failures ELSE Fail
    /\ Goto(p, "unverified")
    /\ UNCHANGED <<git, worktree, files, beads, work, ghost, crashes, drifts>>

\* The attempt is recorded durably before the agent runs.
StartRepair(p) ==
    LET a == TaskOf(txn[p]) IN
    /\ pc[p] = "unverified"
    /\ repairs[a] < MaxRepairs
    /\ repairs' = [repairs EXCEPT ![a] = @ + 1]
    /\ Goto(p, "repairing")
    /\ UNCHANGED <<git, worktree, manifest, artifact, journal, torn, lease, rebuilds, beads,
                   work, ghost, aux>>

\* The repair agent leaves a new HEAD in the worktree.
AgentCommit(p) ==
    LET t == txn[p] IN
    /\ pc[p] = "repairing"
    /\ worktree[t] # None
    /\ NewCommit(worktree[t], {})
    /\ worktree' = [worktree EXCEPT ![t] = Fresh]
    /\ Goto(p, "repaired")
    /\ UNCHANGED <<target, fence, candRef, receipt, files, beads, work, ghost, aux>>

\* The agent is done (a new generation is snapshotted) or gave up.
EndRepair(p) ==
    /\ pc[p] \in {"repairing", "repaired"}
    /\ \/ Goto(p, "merged") /\ UNCHANGED failures
       \/ Goto(p, "unverified") /\ Fail
    /\ UNCHANGED <<git, worktree, files, beads, work, ghost, crashes, drifts>>

ExhaustRepairs(p) ==
    /\ pc[p] = "unverified"
    /\ repairs[TaskOf(txn[p])] >= MaxRepairs
    /\ Goto(p, "drop_fail")
    /\ UNCHANGED <<git, worktree, files, beads, work, ghost, aux>>

\* verification.json is bound to the candidate the process holds.
BindVerification(p) ==
    /\ pc[p] = "verified"
    /\ artifact' = [artifact EXCEPT ![txn[p]] = cand[p]]
    /\ Goto(p, "bound")
    /\ UNCHANGED <<git, worktree, manifest, journal, torn, lease, repairs, rebuilds,
                   beads, work, ghost, aux>>

RecordVerified(p) ==
    /\ pc[p] = "bound"
    /\ AppendCheckpoint(txn[p], CandidateVerified, cand[p])
    /\ Goto(p, "ready")
    /\ UNCHANGED <<git, worktree, manifest, artifact, lease, repairs, rebuilds, beads,
                   work, ghost, aux>>
-----------------------------------------------------------------------------
(* landHubCandidateWithLease and commitHubLandingTarget *)

\* canLandHubLandingTicket refused: the candidate is left as it is.
QueueBlocked(p) ==
    /\ pc[p] = "ready"
    /\ Fail
    /\ Leave(p)
    /\ UNCHANGED <<git, worktree, files, beads, pred, batch, todo, plan, ghost, crashes, drifts>>

\* A landing that already has its receipt needs no lease; a live owner other
\* than this process is contention; else target and fence are observed.
ObserveLease(p) ==
    /\ pc[p] = "ready"
    /\ \/ /\ receipt[txn[p]] = cand[p]
          /\ Goto(p, "commit")
          /\ UNCHANGED <<expT, expF>>
       \/ /\ receipt[txn[p]] # cand[p]
          /\ lease \notin {None, Dead, p}
          /\ Goto(p, "drop_fail")
          /\ UNCHANGED <<expT, expF>>
       \/ /\ receipt[txn[p]] # cand[p]
          /\ lease \in {None, Dead, p}
          /\ expT' = [expT EXCEPT ![p] = target]
          /\ expF' = [expF EXCEPT ![p] = fence]
          /\ Goto(p, "acquiring")
    /\ UNCHANGED <<git, worktree, files, beads, txn, cand, pred, batch, todo, plan, ghost,
                   aux>>

\* Check and write are two steps: another process may have written between.
WriteLease(p) ==
    /\ pc[p] = "acquiring"
    /\ lease' = p
    /\ Goto(p, "confirming")
    /\ UNCHANGED <<git, worktree, manifest, artifact, journal, torn, repairs, rebuilds,
                   beads, work, ghost, aux>>

\* releaseHubLandingLease, then rebuild: the verification is invalidated and
\* the worktree dropped; past the limit the ticket waits for a quiet target
\* (whose end resets the count) and the candidate is left as it is.
Drift(p) ==
    LET a == TaskOf(txn[p]) IN
    /\ Release(p)
    /\ \/ /\ rebuilds[a] < MaxRebuilds
          /\ rebuilds' = [rebuilds EXCEPT ![a] = @ + 1]
          /\ artifact' = [artifact EXCEPT ![txn[p]] = None]
          /\ Goto(p, "drop_drift")
          /\ UNCHANGED <<txn, cand, expT, expF, batch>>
       \/ /\ rebuilds[a] >= MaxRebuilds
          /\ rebuilds' = [rebuilds EXCEPT ![a] = 0]
          /\ batch' = [batch EXCEPT ![p] = {}]
          /\ Leave(p)
          /\ UNCHANGED artifact

\* Lease contention, a stale fence or an error: release, then clean up.
Reject(p) ==
    /\ Release(p)
    /\ Goto(p, "drop_fail")
    /\ UNCHANGED <<artifact, rebuilds, txn, cand, expT, expF, batch>>

Proceed(p, l) ==
    /\ Goto(p, l)
    /\ UNCHANGED <<lease, artifact, rebuilds, txn, cand, expT, expF, batch>>

\* The lease was lost to another writer, or the observed target is not the base.
ConfirmLease(p) ==
    /\ pc[p] = "confirming"
    /\ \/ lease # p /\ Reject(p)
       \/ lease = p /\ expT[p] # BaseOf(txn[p]) /\ Drift(p)
       \/ lease = p /\ expT[p] = BaseOf(txn[p]) /\ Proceed(p, "commit")
    /\ UNCHANGED <<git, worktree, manifest, journal, torn, repairs, beads, pred, todo, plan,
                   ghost, aux>>

\* assertVerifiedCandidate
IsVerified(p) == artifact[txn[p]] = cand[p]

\* An existing receipt counts only for this very candidate.
AcceptsReceipt(p) == receipt[txn[p]] = cand[p] /\ InTarget(cand[p])

\* The checks commitHubLandingTarget makes before it touches a ref.
CheckCommit(p) ==
    LET t == txn[p]
        fresh == IsVerified(p) /\ receipt[t] = None
    IN
    /\ pc[p] = "commit"
    /\ \/ ~IsVerified(p) /\ Reject(p)
       \/ /\ IsVerified(p) /\ receipt[t] # None
          /\ IF AcceptsReceipt(p) THEN Proceed(p, "landed") ELSE Reject(p)
       \/ fresh /\ target # BaseOf(t) /\ Drift(p)
       \/ fresh /\ target = BaseOf(t) /\ fence # expF[p] /\ Reject(p)
       \/ fresh /\ target = BaseOf(t) /\ fence = expF[p] /\ Proceed(p, "cas")
    /\ UNCHANGED <<git, worktree, manifest, journal, torn, repairs, beads, pred, todo, plan,
                   ghost, aux>>

\* Mutant of CasHolds: the expected old values of target and fence are left out.
CasUnfenced(p) == receipt[txn[p]] = None

\* What git update-ref --stdin verifies for the three refs of one landing.
CasHolds(p) ==
    /\ target = BaseOf(txn[p])
    /\ fence = expF[p]
    /\ receipt[txn[p]] = None

\* Target, fence and receipt move in one reference transaction.
Land(p) ==
    /\ pc[p] = "cas"
    /\ CasHolds(p)
    /\ target' = cand[p]
    /\ fence' = fence + 1
    /\ receipt' = [receipt EXCEPT ![txn[p]] = cand[p]]
    /\ Goto(p, "landed")
    /\ UNCHANGED <<objects, history, candRef, worktree, files, beads, work, ghost, aux>>

LandFail(p) ==
    LET t == txn[p] IN
    /\ pc[p] = "cas"
    /\ ~CasHolds(p)
    /\ \/ receipt[t] = cand[p] /\ Proceed(p, "landed")
       \/ /\ receipt[t] # cand[p]
          /\ IF fence = expF[p] /\ target # BaseOf(t) THEN Drift(p) ELSE Reject(p)
    /\ UNCHANGED <<git, worktree, manifest, journal, torn, repairs, beads, pred, todo, plan,
                   ghost, aux>>

\* The lease is released when landHubCandidateWithLease returns.
RecordLanded(p) ==
    /\ pc[p] = "landed"
    /\ AppendCheckpoint(txn[p], TargetLanded, cand[p])
    /\ Release(p)
    /\ Goto(p, "drop_land")
    /\ UNCHANGED <<git, worktree, manifest, artifact, repairs, rebuilds, beads, work, ghost,
                   aux>>

-----------------------------------------------------------------------------
(* cleanupHubLandingCandidate and the close of the task *)

DropWorktree(p) ==
    /\ \E k \in {<<"drop_fail", "mark_fail">>, <<"drop_drift", "mark_drift">>,
                 <<"drop_land", "mark_land">>, <<"drop_scan", "mark_scan">>} :
         pc[p] = k[1] /\ Goto(p, k[2])
    /\ worktree' = [worktree EXCEPT ![txn[p]] = None]
    /\ UNCHANGED <<git, files, beads, work, ghost, aux>>

\* What follows the cleaned checkpoint depends on who asked for the cleanup.
RecordCleaned(p) ==
    /\ \/ /\ \E k \in {<<"mark_fail", "idle">>, <<"mark_scan", "scan">>} :
               pc[p] = k[1] /\ LeaveTo(p, k[2])
       \/ /\ \E k \in {<<"mark_drift", "rebuild">>, <<"mark_land", "close">>} :
               pc[p] = k[1] /\ Goto(p, k[2])
          /\ UNCHANGED <<txn, cand, expT, expF>>
    /\ AppendCheckpoint(txn[p], Cleaned, cand[p])
    /\ UNCHANGED <<git, worktree, manifest, artifact, lease, repairs, rebuilds, beads, pred,
                   batch, todo, plan, ghost, aux>>

\* recordTaskClosure: bd close with the landing metadata of the transaction.
WriteClose(p) ==
    beads' = [beads EXCEPT ![TaskOf(txn[p])] = [txn |-> txn[p], cand |-> cand[p]]]

CloseTask(p) ==
    /\ pc[p] = "close"
    /\ WriteClose(p)
    /\ Goto(p, "note")
    /\ UNCHANGED <<git, worktree, files, work, ghost, aux>>

\* recordCloseFailure: the landing stays for reconciliation to close.
CloseFail(p) ==
    /\ pc[p] = "close"
    /\ Fail
    /\ Leave(p)
    /\ UNCHANGED <<git, worktree, files, beads, pred, batch, todo, plan, ghost, crashes, drifts>>

\* The next task of the batch is built on the candidate that just landed.
RecordClosed(p) ==
    /\ \/ /\ pc[p] = "note"
          /\ pred' = [pred EXCEPT ![p] = cand[p]]
          /\ Leave(p)
       \/ /\ pc[p] = "note_scan"
          /\ IF "clean" \in plan[p]
             THEN Goto(p, "drop_scan") /\ UNCHANGED <<txn, cand, expT, expF>>
             ELSE LeaveTo(p, "scan")
          /\ UNCHANGED pred
    /\ AppendCheckpoint(txn[p], TaskClosed, cand[p])
    /\ UNCHANGED <<git, worktree, manifest, artifact, lease, repairs, rebuilds, beads, batch,
                   todo, plan, ghost, aux>>

-----------------------------------------------------------------------------
(* reconcileHubLandingTransactions, at the start and the end of a run *)

StartScan(p) ==
    /\ pc[p] = "down" \/ (pc[p] = "idle" /\ batch[p] = {})
    /\ todo' = [todo EXCEPT ![p] = Listed]
    /\ Goto(p, "scan")
    /\ UNCHANGED <<git, worktree, files, beads, txn, cand, expT, expF, pred, batch, plan,
                   ghost, aux>>

\* reconstructCheckpoints: with a torn line the first append is swallowed.
Reconstruct(t) ==
    LET missing == MissingRanks(t)
        kept == {r \in missing : t \in torn => \E s \in missing : s < r}
        highest == CHOOSE r \in kept : \A s \in kept : s <= r
    IN  /\ journal' = IF kept = {} THEN journal
                      ELSE [journal EXCEPT ![t] = Reduce(@, highest, CandidateOid(t))]
        /\ torn' = IF missing = {} THEN torn ELSE torn \ {t}

\* The first append throws when it leaves nothing that can be reduced.
AppendThrows(t) == MissingRanks(t) # {} /\ t \in torn /\ journal[t].rank = 0

\* One transaction: an integrity incident ends the whole reconciliation.  What
\* is left to do for it is decided here, on evidence read before any change.
Examine(p) ==
    /\ pc[p] = "scan"
    /\ \E t \in todo[p] :
         /\ \/ /\ IntegrityIncident(t)
               /\ todo' = [todo EXCEPT ![p] = {}]
               /\ cutShort' = TRUE
               /\ UNCHANGED <<journal, torn, plan, txn, cand, pc>>
            \/ /\ ~IntegrityIncident(t) /\ AppendThrows(t)
               /\ torn' = torn \ {t}
               /\ todo' = [todo EXCEPT ![p] = {}]
               /\ Goto(p, "down")
               /\ UNCHANGED <<journal, plan, txn, cand, cutShort>>
            \/ LET close == Landed(t) /\ ~ClosedInBeads(t)
                   clean == /\ worktree[t] # None /\ CandidateOid(t) # None
                            /\ Landed(t) \/ ClosedInBeads(t)
               IN
               /\ ~IntegrityIncident(t) /\ ~AppendThrows(t)
               /\ Reconstruct(t)
               /\ todo' = [todo EXCEPT ![p] = @ \ {t}]
               /\ plan' = [plan EXCEPT ![p] = IF clean THEN {"clean"} ELSE {}]
               /\ IF close \/ clean
                  THEN /\ txn' = [txn EXCEPT ![p] = t]
                       /\ cand' = [cand EXCEPT ![p] = CandidateOid(t)]
                       /\ Goto(p, IF close THEN "close_scan" ELSE "drop_scan")
                  ELSE UNCHANGED <<txn, cand, pc>>
               /\ UNCHANGED cutShort
    /\ UNCHANGED <<git, worktree, manifest, artifact, lease, repairs, rebuilds, beads, expT,
                   expF, pred, batch, passed, aux>>

\* closeHubLandingTask reads Beads again and writes only what differs.
CloseScanned(p) ==
    /\ pc[p] = "close_scan"
    /\ IF MatchingClose(txn[p], cand[p]) THEN UNCHANGED beads ELSE WriteClose(p)
    /\ Goto(p, "note_scan")
    /\ UNCHANGED <<git, worktree, files, work, ghost, aux>>

\* bd failed: the error ends the run.
CloseScannedFail(p) ==
    /\ pc[p] = "close_scan"
    /\ Fail
    /\ ~MatchingClose(txn[p], cand[p])
    /\ LeaveTo(p, "down")
    /\ todo' = [todo EXCEPT ![p] = {}]
    /\ UNCHANGED <<git, worktree, files, beads, pred, batch, plan, ghost, crashes, drifts>>

\* Mutant of EndScan: closed tasks are selected again.
EndScanReselect(p) ==
    /\ pc[p] = "scan"
    /\ todo[p] = {}
    /\ batch' = [batch EXCEPT ![p] = Claims[p]]
    /\ pred' = [pred EXCEPT ![p] = None]
    /\ plan' = [plan EXCEPT ![p] = {}]
    /\ Goto(p, "idle")
    /\ UNCHANGED <<git, worktree, files, beads, txn, cand, expT, expF, todo, ghost, aux>>

\* The batch is selected among the tasks that Beads does not show as closed.
EndScan(p) ==
    /\ pc[p] = "scan"
    /\ todo[p] = {}
    /\ batch' = [batch EXCEPT ![p] = {a \in Claims[p] : beads[a] = None}]
    /\ pred' = [pred EXCEPT ![p] = None]
    /\ plan' = [plan EXCEPT ![p] = {}]
    /\ Goto(p, "idle")
    /\ UNCHANGED <<git, worktree, files, beads, txn, cand, expT, expF, todo, ghost, aux>>

-----------------------------------------------------------------------------
(* The environment *)

\* Somebody else commits on the publish target.
Advance ==
    /\ drifts < MaxDrifts
    /\ NewCommit(target, {})
    /\ target' = Fresh
    /\ drifts' = drifts + 1
    /\ UNCHANGED <<fence, candRef, receipt, worktree, files, beads, local, ghost,
                   crashes, failures>>

\* The journals a process may be writing to when it crashes.
Written(p) ==
    IF pc[p] \in Appending THEN {txn[p]}
    ELSE IF pc[p] = "scan" THEN {t \in todo[p] : MissingRanks(t) # {}} ELSE {}

\* The process dies between two steps or inside an append; its pid is gone, so
\* the lease it wrote has no live owner.
Crash(p) ==
    /\ pc[p] # "down"
    /\ crashes < MaxCrashes
    /\ crashes' = crashes + 1
    /\ \/ UNCHANGED torn
       \/ \E t \in Written(p) : torn' = torn \cup {t}
    /\ lease' = IF lease = p THEN Dead ELSE lease
    /\ LeaveTo(p, "down")
    /\ pred' = [pred EXCEPT ![p] = None]
    /\ batch' = [batch EXCEPT ![p] = {}]
    /\ todo' = [todo EXCEPT ![p] = {}]
    /\ plan' = [plan EXCEPT ![p] = {}]
    /\ UNCHANGED <<git, worktree, manifest, artifact, journal, repairs, rebuilds, beads,
                   ghost, failures, drifts>>

-----------------------------------------------------------------------------
Build(p) ==
    \/ Begin(p) \/ Rebuild(p) \/ RefuseIncident(p) \/ Restore(p) \/ Open(p) \/ OpenTorn(p)
    \/ Merge(p) \/ MergeFail(p) \/ WriteManifest(p) \/ WriteRef(p)
    \/ RecordCreated(p)

Verify(p) ==
    \/ VerifyPass(p) \/ VerifyFail(p) \/ StartRepair(p) \/ AgentCommit(p) \/ EndRepair(p)
    \/ ExhaustRepairs(p) \/ BindVerification(p) \/ RecordVerified(p)

LandCandidate(p) ==
    \/ QueueBlocked(p) \/ ObserveLease(p) \/ WriteLease(p) \/ ConfirmLease(p)
    \/ CheckCommit(p) \/ Land(p) \/ LandFail(p) \/ RecordLanded(p)

Settle(p) ==
    \/ DropWorktree(p) \/ RecordCleaned(p) \/ CloseTask(p) \/ CloseFail(p)
    \/ RecordClosed(p)

Reconcile(p) ==
    \/ StartScan(p) \/ Examine(p) \/ CloseScanned(p) \/ CloseScannedFail(p) \/ EndScan(p)

Step(p) == Build(p) \/ Verify(p) \/ LandCandidate(p) \/ Settle(p) \/ Reconcile(p)

Next == (\E p \in Proc : Step(p) \/ Crash(p)) \/ Advance

Spec == Init /\ [][Next]_vars

\* A process that is not killed keeps running, an interrupted run is started
\* again; conflicts, red verifications and errors of bd are bounded.
Fairness == \A p \in Proc : WF_vars(Step(p))

FairSpec == Spec /\ Fairness

-----------------------------------------------------------------------------
(* Properties *)

Pcs == {"down", "scan", "idle", "pin", "building", "merged", "manifested", "reffed",
        "created", "verified", "unverified", "repairing", "repaired", "bound", "ready",
        "acquiring", "confirming", "commit", "cas", "landed", "drop_fail", "drop_drift", "drop_land",
        "drop_scan", "mark_fail", "mark_drift", "mark_land", "mark_scan", "rebuild",
        "close", "close_scan", "note", "note_scan"}

TypeGit ==
    /\ objects \subseteq Oid
    /\ history \in [Oid -> SUBSET (Oid \cup Task)]
    /\ target \in Oid
    /\ fence \in Nat
    /\ candRef \in [Txn -> MaybeOid]
    /\ receipt \in [Txn -> MaybeOid]

TypeFiles ==
    /\ worktree \in [Txn -> MaybeOid]
    /\ manifest \in [Txn -> MaybeOid]
    /\ artifact \in [Txn -> MaybeOid]
    /\ journal \in [Txn -> [rank : 0 .. Cleaned, cand : MaybeOid]]
    /\ torn \subseteq Txn
    /\ lease \in Proc \cup {None, Dead}
    /\ repairs \in [Task -> Nat]
    /\ rebuilds \in [Task -> Nat]

TypeLocal ==
    /\ pc \in [Proc -> Pcs]
    /\ txn \in [Proc -> Txn \cup {None}]
    /\ cand \in [Proc -> MaybeOid]
    /\ expT \in [Proc -> Oid]
    /\ expF \in [Proc -> Nat]
    /\ pred \in [Proc -> MaybeOid]
    /\ batch \in [Proc -> SUBSET Task]
    /\ todo \in [Proc -> SUBSET Txn]
    /\ plan \in [Proc -> SUBSET {"clean"}]

TypeRest ==
    /\ beads \in [Task -> Close \cup {None}]
    /\ passed \subseteq Oid
    /\ cutShort \in BOOLEAN
    /\ crashes \in Nat
    /\ failures \in Nat
    /\ drifts \in Nat

\* Every variable keeps its type: refs and files name integration commits,
\* journals fold to a rank and a candidate, the lease names its writer.
TypeOK == TypeGit /\ TypeFiles /\ TypeLocal /\ TypeRest

\* A landing receipt proves that the candidate it names is still contained in
\* the publish target, however many processes land, drift and crash around it.
ReceiptInTarget == \A t \in Txn : receipt[t] # None => receipt[t] \in history[target]

\* No landing removes work: whatever a step does to the publish target, all the
\* target contained before stays contained (the CAS pins the candidate's base).
LandedNeverLost == [][history[target] \subseteq history'[target']]_vars

\* Beads shows a task as closed only with the metadata of a transaction of that
\* task whose receipt names the same candidate, on the merge path and on the
\* reconciliation path alike.
CloseHasReceipt ==
    \A a \in Task : beads[a] # None =>
        /\ TaskOf(beads[a].txn) = a
        /\ receipt[beads[a].txn] = beads[a].cand

\* The exact commit that landed is one that the verifier accepted, also when a
\* candidate was restored, repaired or rebuilt on the way (ADR 0035).
LandedIsVerified == \A t \in Txn : receipt[t] # None => receipt[t] \in passed

\* The same as long as no process was interrupted: repaired, rebuilt and restored
\* candidates land only as the commit the verifier ran on.
VerifiedUnlessCrashed == crashes = 0 => LandedIsVerified

\* A closed task's source is contained in the publish target.
ClosedIsContained == \A a \in Task : beads[a] # None => a \in history[target]

\* No task is claimed by two processes at a time: what a claim in Beads is for.
ClaimsDisjoint == \A p, q \in Proc : p # q => Claims[p] \cap Claims[q] = {}

\* Restart produces at most one landing per task.
AtMostOneLanding ==
    \A t, u \in Txn : TaskOf(t) = TaskOf(u) /\ receipt[t] # None /\ receipt[u] # None => t = u

\* The journal never runs ahead of the evidence: it says target_landed only
\* behind the receipt and task_closed only behind the close in Beads, although
\* lines are torn by crashes and rebuilt by reconciliation.
JournalNeverAhead ==
    \A t \in Txn :
        /\ journal[t].rank = TargetLanded => receipt[t] # None
        /\ journal[t].rank = TaskClosed => MatchingClose(t, receipt[t])

\* The records agree with each other: a task lands at most once, although it is
\* selected again until Beads shows it as closed, and no journal runs ahead - unless
\* an integrity incident of one transaction ended a reconciliation before it came to
\* the landings of others (reconcileHubLandingTransactions, selectMergeTransaction).
RecordsAgree == ~cutShort => AtMostOneLanding /\ JournalNeverAhead

\* A landing is eventually settled: whatever crashed in between, the task is
\* closed, and the integration worktree is removed.
LandedIsSettled ==
    \A a \in Task :
        []<>((\E o \in Oid : receipt[<<a, o>>] # None) =>
                /\ beads[a] # None
                /\ \A o \in Oid : receipt[<<a, o>>] # None => worktree[<<a, o>>] = None)
=============================================================================
