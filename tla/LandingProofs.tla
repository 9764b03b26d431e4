---------------------------- MODULE LandingProofs ----------------------------
(***************************************************************************)
(* Proofs about LandingTransaction, for any number of tasks, processes,    *)
(* commits, crashes, failures, repairs and moves of the target, in three   *)
(* parts: receipts are contained in the target and nothing landed is lost; *)
(* a task lands once and no journal runs ahead; closed work is contained,  *)
(* only what was verified lands, and the ledger is implemented.            *)
(***************************************************************************)
EXTENDS LandingRefinement, TLAPS

-----------------------------------------------------------------------------
(***************************************************************************)
(* Types and the safety of landing, for any claims: the processes may even *)
(* share their tasks.  A receipt always names a candidate that is          *)
(* contained in the publish target, no step removes anything from the      *)
(* target, and a task is closed only behind its receipt.                   *)
(*                                                                         *)
(* The argument: whatever a process, a file or a ref calls a candidate of  *)
(* a transaction was built on the pinned base of that transaction          *)
(* (Evidence, LocalEvidence), and the CAS moves the target only when it is *)
(* that base (CasHolds).  Lease, fence and journal play no part in it.     *)
(***************************************************************************)

\* A process at one of these places has no transaction.
Free == {"down", "scan", "idle"}

\* Before the snapshot a process may not hold a candidate yet.
Unbuilt == {"pin", "building", "merged"}

\* A process that works on a transaction knows it, and from the snapshot on it
\* holds a candidate; this is what makes TypeOK inductive.
LocalOK ==
    \A p \in Proc : /\ pc[p] \notin Free => txn[p] \in Txn
                    /\ pc[p] \notin Free \cup Unbuilt => cand[p] \in Oid

WellFormed == TypeOK /\ LocalOK

-----------------------------------------------------------------------------
(* Type correctness *)

\* The object id a new commit gets is not in use.
LEMMA FreshOid ==
    ASSUME Oid \ objects # {}
    PROVE  Fresh \in Oid /\ Fresh \notin objects
BY DEF Fresh

\* A transaction id is a task and a base, and is not None.
LEMMA TxnParts ==
    ASSUME NEW t \in Txn
    PROVE  TaskOf(t) \in Task /\ BaseOf(t) \in Oid /\ t # None
BY LandingAssumption DEF Txn, TaskOf, BaseOf

\* The initial state is well formed.
LEMMA InitType == Init => WellFormed
<1> SUFFICES ASSUME Init PROVE WellFormed
  OBVIOUS
<1> USE LandingAssumption DEF Init, MaybeOid
<1>1. TypeGit
  BY DEF TypeGit
<1>2. TypeFiles
  BY DEF TypeFiles, Cleaned
<1>3. TypeLocal /\ LocalOK
  BY DEF TypeLocal, LocalOK, Pcs, Free
<1>4. TypeRest
  BY DEF TypeRest
<1> QED BY <1>1, <1>2, <1>3, <1>4 DEF WellFormed, TypeOK

\* An append keeps the journal typed, torn line or not.
LEMMA AppendType ==
    ASSUME TypeFiles, NEW t \in Txn, NEW r \in 0 .. Cleaned, NEW c \in MaybeOid,
           AppendCheckpoint(t, r, c)
    PROVE  /\ journal' \in [Txn -> [rank : 0 .. Cleaned, cand : MaybeOid]]
           /\ torn' \subseteq Txn
BY DEF TypeFiles, AppendCheckpoint, Reduce, MaxOf, Cleaned

\* What a process that is busy with a transaction knows about it.
LEMMA Held ==
    ASSUME WellFormed, NEW p \in Proc, pc[p] \notin Free
    PROVE  /\ txn[p] \in Txn /\ TaskOf(txn[p]) \in Task /\ BaseOf(txn[p]) \in Oid
           /\ pc[p] \notin Unbuilt => cand[p] \in Oid
BY TxnParts DEF WellFormed, LocalOK

\* The three ways an attempt to land can go on.
Outcome(p) == Drift(p) \/ Reject(p) \/ \E l \in {"commit", "cas", "landed"} : Proceed(p, l)

\* Drift, rejection and success of a landing attempt keep the types.
LEMMA OutcomeType ==
    ASSUME WellFormed, NEW p \in Proc, pc[p] \notin Free \cup Unbuilt, Outcome(p),
           UNCHANGED <<git, worktree, manifest, journal, torn, repairs, beads, pred, todo,
                       plan, ghost, aux>>
    PROVE  WellFormed'
<1> USE LandingAssumption
    DEF git, ghost, aux, Goto, LeaveTo, Leave, MaybeOid, Free, Unbuilt, WellFormed, TypeOK, Release
<1>0. /\ txn[p] \in Txn /\ TaskOf(txn[p]) \in Task /\ cand[p] \in Oid
  BY Held
<1>1. TypeGit' /\ TypeRest'
  BY DEF TypeGit, TypeRest
<1>2. CASE Drift(p)
  <2>1. TypeFiles'
    BY <1>0, <1>2 DEF Drift, TypeFiles
  <2>2. CASE rebuilds[TaskOf(txn[p])] < MaxRebuilds
    <3>0. Goto(p, "drop_drift") /\ UNCHANGED <<txn, cand, expT, expF, batch>>
      BY <1>0, <1>2, <2>2 DEF Drift, TypeFiles
    <3>1. TypeLocal'
      BY <3>0 DEF TypeLocal, Pcs
    <3>2. LocalOK'
      BY <1>0, <1>2, <2>2 DEF Drift, TypeFiles, TypeLocal, LocalOK
    <3> QED BY <1>1, <2>1, <3>1, <3>2
  <2>3. CASE ~(rebuilds[TaskOf(txn[p])] < MaxRebuilds)
    <3>0. Leave(p) /\ batch' = [batch EXCEPT ![p] = {}]
      BY <1>0, <1>2, <2>3 DEF Drift, TypeFiles
    <3>1. TypeLocal'
      BY <3>0 DEF TypeLocal, Pcs
    <3>2. LocalOK'
      BY <1>0, <1>2, <2>3 DEF Drift, TypeFiles, TypeLocal, LocalOK
    <3> QED BY <1>1, <2>1, <3>1, <3>2
  <2> QED BY <2>2, <2>3
<1>3. CASE Reject(p)
  <2>1. TypeFiles' /\ TypeLocal' /\ LocalOK'
    BY <1>0, <1>3 DEF Reject, TypeFiles, TypeLocal, LocalOK, Pcs
  <2> QED BY <1>1, <2>1
<1>4. CASE \E l \in {"commit", "cas", "landed"} : Proceed(p, l)
  <2>1. TypeFiles' /\ TypeLocal' /\ LocalOK'
    BY <1>0, <1>4 DEF Proceed, TypeFiles, TypeLocal, LocalOK, Pcs
  <2> QED BY <1>1, <2>1
<1> QED BY <1>2, <1>3, <1>4 DEF Outcome

\* A nonempty set of checkpoint ranks has a highest one.
LEMMA HighestRank ==
    ASSUME NEW S, S \subseteq 1 .. Cleaned, S # {}
    PROVE  \E r \in S : \A s \in S : s <= r
<1>0. \A s \in S : s \in {1, 2, 3, 4, 5, 6, 7}
  BY DEF Cleaned
<1>1. CASE 7 \in S
  BY <1>0, <1>1
<1>2. CASE 6 \in S /\ 7 \notin S
  BY <1>0, <1>2
<1>3. CASE 5 \in S /\ 7 \notin S /\ 6 \notin S
  BY <1>0, <1>3
<1>4. CASE 4 \in S /\ 7 \notin S /\ 6 \notin S /\ 5 \notin S
  BY <1>0, <1>4
<1>5. CASE 3 \in S /\ 7 \notin S /\ 6 \notin S /\ 5 \notin S /\ 4 \notin S
  BY <1>0, <1>5
<1>6. CASE 2 \in S /\ 7 \notin S /\ 6 \notin S /\ 5 \notin S /\ 4 \notin S /\ 3 \notin S
  BY <1>0, <1>6
<1>7. CASE 1 \in S /\ 7 \notin S /\ 6 \notin S /\ 5 \notin S /\ 4 \notin S /\ 3 \notin S /\ 2 \notin S
  BY <1>0, <1>7
<1> QED BY <1>0, <1>1, <1>2, <1>3, <1>4, <1>5, <1>6, <1>7

\* What reconciliation appends keeps the journal typed.
LEMMA ReconstructType ==
    ASSUME TypeGit, TypeFiles, NEW t \in Txn, Reconstruct(t)
    PROVE  /\ journal' \in [Txn -> [rank : 0 .. Cleaned, cand : MaybeOid]]
           /\ torn' \subseteq Txn
<1> DEFINE missing == MissingRanks(t)
           kept == {r \in missing : t \in torn => \E s \in missing : s < r}
           highest == CHOOSE r \in kept : \A s \in kept : s <= r
<1>1. missing \subseteq 1 .. Cleaned
  BY DEF MissingRanks, ProvenRanks, Opened, BasePinned, CandidateCreated, Cleaned
<1>2. CandidateOid(t) \in MaybeOid
  BY DEF TypeGit, TypeFiles, CandidateOid
<1>3. torn' \subseteq Txn
  BY DEF Reconstruct, TypeFiles
<1>4. CASE kept = {}
  BY <1>3, <1>4 DEF Reconstruct, TypeFiles
<1>5. CASE kept # {}
  <2>1. \E r \in kept : \A s \in kept : s <= r
    BY <1>1, <1>5, HighestRank
  <2>2. highest \in 0 .. Cleaned
    BY <1>1, <2>1 DEF Cleaned
  <2>3. journal' = [journal EXCEPT ![t] = Reduce(journal[t], highest, CandidateOid(t))]
    BY <1>5 DEF Reconstruct
  <2>4. Reduce(journal[t], highest, CandidateOid(t)) \in [rank : 0 .. Cleaned, cand : MaybeOid]
    <3> HIDE DEF highest
    <3> QED BY <1>2, <2>2 DEF Reduce, MaxOf, TypeFiles, Cleaned
  <2> HIDE DEF highest
  <2> QED BY <1>3, <2>3, <2>4 DEF TypeFiles
<1> QED BY <1>4, <1>5

\* Reconciliation of one transaction keeps the types.
LEMMA ExamineType ==
    ASSUME WellFormed, NEW p \in Proc, Examine(p) PROVE WellFormed'
<1> USE LandingAssumption
    DEF git, ghost, aux, Goto, MaybeOid, Free, Unbuilt, WellFormed, TypeOK
<1>0. TypeGit' /\ TypeRest'
  BY DEF Examine, TypeGit, TypeRest
<1>1. PICK t \in todo[p] : Examine(p)!2!(t)
  BY DEF Examine
<1>2. t \in Txn
  BY DEF TypeLocal
<1>3. CandidateOid(t) \in MaybeOid
  BY <1>2 DEF TypeGit, TypeFiles, CandidateOid
<1>4. CASE IntegrityIncident(t)
  BY <1>0, <1>1, <1>4 DEF Examine, TypeFiles, TypeLocal, LocalOK
<1>5. CASE ~IntegrityIncident(t) /\ AppendThrows(t)
  <2>1. /\ torn' = torn \ {t} /\ todo' = [todo EXCEPT ![p] = {}]
        /\ pc' = [pc EXCEPT ![p] = "down"] /\ UNCHANGED <<journal, plan, txn, cand>>
    BY <1>1, <1>5
  <2>2. TypeFiles'
    BY <2>1 DEF Examine, TypeFiles
  <2>3. TypeLocal' /\ LocalOK'
    BY <2>1 DEF Examine, TypeLocal, LocalOK, Pcs
  <2> QED BY <1>0, <2>2, <2>3
<1>6. CASE ~IntegrityIncident(t) /\ ~AppendThrows(t)
  <2> DEFINE close == Landed(t) /\ ~ClosedInBeads(t)
             clean == /\ worktree[t] # None /\ CandidateOid(t) # None
                      /\ Landed(t) \/ ClosedInBeads(t)
  <2>1. /\ Reconstruct(t)
        /\ todo' = [todo EXCEPT ![p] = @ \ {t}]
        /\ plan' = [plan EXCEPT ![p] = IF clean THEN {"clean"} ELSE {}]
        /\ IF close \/ clean
           THEN /\ txn' = [txn EXCEPT ![p] = t]
                /\ cand' = [cand EXCEPT ![p] = CandidateOid(t)]
                /\ pc' = [pc EXCEPT ![p] = IF close THEN "close_scan" ELSE "drop_scan"]
           ELSE UNCHANGED <<txn, cand, pc>>
    BY <1>1, <1>6
  <2>2. Landed(t) => CandidateOid(t) # None
    BY DEF Landed, IntegrityIncident, InTarget
  <2>3. close \/ clean => CandidateOid(t) \in Oid
    BY <1>3, <2>2
  <2>4. TypeFiles'
    BY <1>2, <2>1, ReconstructType DEF Examine, TypeFiles
  <2> HIDE DEF close, clean
  <2>5. TypeLocal'
    BY <1>2, <1>3, <2>1 DEF Examine, TypeLocal, Pcs
  <2>6. LocalOK'
    BY <1>2, <2>1, <2>3 DEF Examine, TypeLocal, LocalOK
  <2> QED BY <1>0, <2>4, <2>5, <2>6
<1> QED BY <1>4, <1>5, <1>6

\* createHubLandingCandidate keeps the types.
LEMMA BuildType == ASSUME WellFormed, NEW p \in Proc, Build(p) PROVE WellFormed'
<1> USE LandingAssumption
   DEF git, files, ghost, aux, work, local, Goto, LeaveTo, Leave, MaybeOid,
        Free, Unbuilt, WellFormed, TypeOK
<1>0. pc[p] \notin Free =>
        /\ txn[p] \in Txn /\ TaskOf(txn[p]) \in Task /\ BaseOf(txn[p]) \in Oid
        /\ pc[p] \notin Unbuilt => cand[p] \in Oid
  BY Held
<1>1. CASE Begin(p)
  <2>1. TypeGit' /\ TypeFiles' /\ TypeRest'
    BY <1>0, <1>1 DEF Begin, Pin, Txn, TypeGit, TypeFiles, TypeLocal, TypeRest
  <2>2. TypeLocal' /\ LocalOK'
    BY <1>0, <1>1 DEF Begin, Pin, Txn, TypeGit, TypeFiles, TypeLocal, LocalOK, Pcs
  <2> QED BY <2>1, <2>2
<1>2. CASE Rebuild(p)
  <2>1. TypeGit' /\ TypeFiles' /\ TypeRest'
    BY <1>0, <1>2 DEF Rebuild, Pin, Txn, TypeGit, TypeFiles, TypeLocal, TypeRest
  <2>2. TypeLocal' /\ LocalOK'
    BY <1>0, <1>2 DEF Rebuild, Pin, Txn, TypeGit, TypeFiles, TypeLocal, LocalOK, Pcs
  <2> QED BY <2>1, <2>2
<1>3. CASE RefuseIncident(p)
  <2>1. TypeGit' /\ TypeFiles' /\ TypeRest'
    BY <1>0, <1>3 DEF RefuseIncident, TypeGit, TypeFiles, TypeLocal, TypeRest
  <2>2. TypeLocal' /\ LocalOK'
    BY <1>0, <1>3 DEF RefuseIncident, TypeGit, TypeFiles, TypeLocal, LocalOK, Pcs
  <2> QED BY <2>1, <2>2
<1>4. CASE Restore(p)
  <2>1. TypeGit' /\ TypeFiles' /\ TypeRest'
    BY <1>0, <1>4, AppendType
       DEF Restore, RestoredOid, CandidateCreated, Cleaned, TypeGit, TypeFiles,
           TypeLocal, TypeRest
  <2>2. TypeLocal' /\ LocalOK'
    BY <1>0, <1>4
       DEF Restore, RestoredOid, CandidateCreated, Cleaned, TypeGit, TypeFiles,
           TypeLocal, LocalOK, Pcs
  <2> QED BY <2>1, <2>2
<1>5. CASE Open(p)
  <2>1. TypeGit' /\ TypeFiles' /\ TypeRest'
    BY <1>0, <1>5
       DEF Open, Reduce, MaxOf, BasePinned, Cleaned, TypeGit, TypeFiles, TypeLocal,
           TypeRest
  <2>2. TypeLocal' /\ LocalOK'
    BY <1>0, <1>5
       DEF Open, Reduce, MaxOf, BasePinned, Cleaned, TypeGit, TypeFiles, TypeLocal,
           LocalOK, Pcs
  <2> QED BY <2>1, <2>2
<1>6. CASE OpenTorn(p)
  <2>1. TypeGit' /\ TypeFiles' /\ TypeRest'
    BY <1>0, <1>6 DEF OpenTorn, TypeGit, TypeFiles, TypeLocal, TypeRest
  <2>2. TypeLocal' /\ LocalOK'
    BY <1>0, <1>6 DEF OpenTorn, TypeGit, TypeFiles, TypeLocal, LocalOK, Pcs
  <2> QED BY <2>1, <2>2
<1>7. CASE Merge(p)
  <2>1. CASE TaskOf(txn[p]) \in history[worktree[txn[p]]]
    BY <1>0, <1>7, <2>1 DEF Merge, TypeGit, TypeFiles, TypeRest, TypeLocal, LocalOK, Pcs
  <2>2. CASE TaskOf(txn[p]) \notin history[worktree[txn[p]]]
    <3>1. /\ Fresh \in Oid
          /\ objects' = objects \cup {Fresh}
          /\ history' = [history EXCEPT ![Fresh] = history[worktree[txn[p]]] \cup {Fresh}
                                                   \cup {TaskOf(txn[p])}]
          /\ worktree' = [worktree EXCEPT ![txn[p]] = Fresh]
          /\ worktree[txn[p]] \in Oid
      BY <1>0, <1>7, <2>2, FreshOid DEF Merge, NewCommit, TypeFiles
    <3>2. TypeGit' /\ TypeFiles' /\ TypeRest'
      BY <1>0, <1>7, <3>1 DEF Merge, TypeGit, TypeFiles, TypeRest
    <3>3. TypeLocal' /\ LocalOK'
      BY <1>0, <1>7, <3>1 DEF Merge, TypeLocal, LocalOK, Pcs
    <3> QED BY <3>2, <3>3
  <2> QED BY <2>1, <2>2
<1>8. CASE MergeFail(p)
  <2>1. TypeGit' /\ TypeFiles' /\ TypeRest'
    BY <1>0, <1>8 DEF MergeFail, Fail, TypeGit, TypeFiles, TypeLocal, TypeRest
  <2>2. TypeLocal' /\ LocalOK'
    BY <1>0, <1>8 DEF MergeFail, Fail, TypeGit, TypeFiles, TypeLocal, LocalOK, Pcs
  <2> QED BY <2>1, <2>2
<1>9. CASE WriteManifest(p)
  <2>1. worktree[txn[p]] \in Oid
    BY <1>0, <1>9 DEF WriteManifest, TypeFiles
  <2>2. TypeGit' /\ TypeFiles' /\ TypeRest'
    BY <1>0, <1>9, <2>1 DEF WriteManifest, TypeGit, TypeFiles, TypeRest
  <2>3. \E l \in {"created", "manifested"} : pc' = [pc EXCEPT ![p] = l]
    BY <1>9 DEF WriteManifest
  <2>4. /\ cand' = [cand EXCEPT ![p] = worktree[txn[p]]]
        /\ UNCHANGED <<txn, expT, expF, pred, batch, todo, plan>>
    BY <1>9 DEF WriteManifest
  <2>5. TypeLocal' /\ LocalOK'
    BY <1>0, <1>9, <2>1, <2>3, <2>4 DEF WriteManifest, TypeLocal, LocalOK, Pcs
  <2> QED BY <2>2, <2>5
<1>10. CASE WriteRef(p)
  <2>1. TypeGit' /\ TypeFiles' /\ TypeRest'
    BY <1>0, <1>10 DEF WriteRef, TypeGit, TypeFiles, TypeLocal, TypeRest
  <2>2. TypeLocal' /\ LocalOK'
    BY <1>0, <1>10 DEF WriteRef, TypeGit, TypeFiles, TypeLocal, LocalOK, Pcs
  <2> QED BY <2>1, <2>2
<1>11. CASE RecordCreated(p)
  <2>1. TypeGit' /\ TypeFiles' /\ TypeRest'
    BY <1>0, <1>11, AppendType
       DEF RecordCreated, CandidateCreated, Cleaned, TypeGit, TypeFiles, TypeLocal,
           TypeRest
  <2>2. TypeLocal' /\ LocalOK'
    BY <1>0, <1>11
       DEF RecordCreated, CandidateCreated, Cleaned, TypeGit, TypeFiles, TypeLocal,
           LocalOK, Pcs
  <2> QED BY <2>1, <2>2
<1> QED BY <1>1, <1>2, <1>3, <1>4, <1>5, <1>6, <1>7, <1>8, <1>9, <1>10, <1>11
   DEF Build

\* Verification and repair keep the types.
LEMMA VerifyType == ASSUME WellFormed, NEW p \in Proc, Verify(p) PROVE WellFormed'
<1> USE LandingAssumption
   DEF git, files, ghost, aux, work, local, Goto, LeaveTo, Leave, MaybeOid,
        Free, Unbuilt, WellFormed, TypeOK
<1>0. pc[p] \notin Free =>
        /\ txn[p] \in Txn /\ TaskOf(txn[p]) \in Task /\ BaseOf(txn[p]) \in Oid
        /\ pc[p] \notin Unbuilt => cand[p] \in Oid
  BY Held
<1>1. CASE VerifyPass(p)
  <2>1. TypeGit' /\ TypeFiles' /\ TypeRest'
    BY <1>0, <1>1 DEF VerifyPass, TypeGit, TypeFiles, TypeLocal, TypeRest
  <2>2. TypeLocal' /\ LocalOK'
    BY <1>0, <1>1 DEF VerifyPass, TypeGit, TypeFiles, TypeLocal, LocalOK, Pcs
  <2> QED BY <2>1, <2>2
<1>2. CASE VerifyFail(p)
  <2>1. TypeGit' /\ TypeFiles' /\ TypeRest'
    BY <1>0, <1>2 DEF VerifyFail, Fail, TypeGit, TypeFiles, TypeLocal, TypeRest
  <2>2. TypeLocal' /\ LocalOK'
    BY <1>0, <1>2 DEF VerifyFail, Fail, TypeGit, TypeFiles, TypeLocal, LocalOK, Pcs
  <2> QED BY <2>1, <2>2
<1>3. CASE StartRepair(p)
  <2>1. TypeGit' /\ TypeFiles' /\ TypeRest'
    BY <1>0, <1>3 DEF StartRepair, TypeGit, TypeFiles, TypeLocal, TypeRest
  <2>2. TypeLocal' /\ LocalOK'
    BY <1>0, <1>3 DEF StartRepair, TypeGit, TypeFiles, TypeLocal, LocalOK, Pcs
  <2> QED BY <2>1, <2>2
<1>4. CASE AgentCommit(p)
  <2>1. TypeGit' /\ TypeFiles' /\ TypeRest'
    BY <1>0, <1>4, FreshOid
       DEF AgentCommit, NewCommit, TypeGit, TypeFiles, TypeLocal, TypeRest
  <2>2. TypeLocal' /\ LocalOK'
    BY <1>0, <1>4
       DEF AgentCommit, NewCommit, TypeGit, TypeFiles, TypeLocal, LocalOK, Pcs
  <2> QED BY <2>1, <2>2
<1>5. CASE EndRepair(p)
  <2>1. TypeGit' /\ TypeFiles' /\ TypeRest'
    BY <1>0, <1>5 DEF EndRepair, Fail, TypeGit, TypeFiles, TypeLocal, TypeRest
  <2>2. /\ pc[p] \in {"repairing", "repaired"} /\ UNCHANGED work
        /\ \E l \in {"merged", "unverified"} : pc' = [pc EXCEPT ![p] = l]
    BY <1>5 DEF EndRepair
  <2>3. TypeLocal'
    BY <2>2 DEF TypeLocal, Pcs
  <2>4. LocalOK'
    BY <1>0, <2>2 DEF LocalOK, TypeLocal
  <2> QED BY <2>1, <2>3, <2>4
<1>6. CASE ExhaustRepairs(p)
  <2>1. TypeGit' /\ TypeFiles' /\ TypeRest'
    BY <1>0, <1>6 DEF ExhaustRepairs, TypeGit, TypeFiles, TypeLocal, TypeRest
  <2>2. TypeLocal' /\ LocalOK'
    BY <1>0, <1>6 DEF ExhaustRepairs, TypeGit, TypeFiles, TypeLocal, LocalOK, Pcs
  <2> QED BY <2>1, <2>2
<1>7. CASE BindVerification(p)
  <2>1. TypeGit' /\ TypeFiles' /\ TypeRest'
    BY <1>0, <1>7 DEF BindVerification, TypeGit, TypeFiles, TypeLocal, TypeRest
  <2>2. TypeLocal' /\ LocalOK'
    BY <1>0, <1>7 DEF BindVerification, TypeGit, TypeFiles, TypeLocal, LocalOK, Pcs
  <2> QED BY <2>1, <2>2
<1>8. CASE RecordVerified(p)
  <2>1. TypeGit' /\ TypeFiles' /\ TypeRest'
    BY <1>0, <1>8, AppendType
       DEF RecordVerified, CandidateVerified, Cleaned, TypeGit, TypeFiles, TypeLocal,
           TypeRest
  <2>2. TypeLocal' /\ LocalOK'
    BY <1>0, <1>8
       DEF RecordVerified, CandidateVerified, Cleaned, TypeGit, TypeFiles, TypeLocal,
           LocalOK, Pcs
  <2> QED BY <2>1, <2>2
<1> QED BY <1>1, <1>2, <1>3, <1>4, <1>5, <1>6, <1>7, <1>8 DEF Verify

\* The lease and the CAS keep the types.
LEMMA LandCandidateType ==
    ASSUME WellFormed, NEW p \in Proc, LandCandidate(p)
    PROVE  WellFormed'
<1> USE LandingAssumption
   DEF git, files, ghost, aux, work, local, Goto, LeaveTo, Leave, MaybeOid,
        Free, Unbuilt, WellFormed, TypeOK
<1>0. pc[p] \notin Free =>
        /\ txn[p] \in Txn /\ TaskOf(txn[p]) \in Task /\ BaseOf(txn[p]) \in Oid
        /\ pc[p] \notin Unbuilt => cand[p] \in Oid
  BY Held
<1>1. CASE QueueBlocked(p)
  <2>1. TypeGit' /\ TypeFiles' /\ TypeRest'
    BY <1>0, <1>1 DEF QueueBlocked, Fail, TypeGit, TypeFiles, TypeLocal, TypeRest
  <2>2. TypeLocal' /\ LocalOK'
    BY <1>0, <1>1 DEF QueueBlocked, Fail, TypeGit, TypeFiles, TypeLocal, LocalOK, Pcs
  <2> QED BY <2>1, <2>2
<1>2. CASE ObserveLease(p)
  <2>1. TypeGit' /\ TypeFiles' /\ TypeRest'
    BY <1>2 DEF ObserveLease, TypeGit, TypeFiles, TypeRest
  <2>2. /\ \E l \in {"commit", "drop_fail", "acquiring"} : pc' = [pc EXCEPT ![p] = l]
        /\ UNCHANGED <<expT, expF>> \/ /\ expT' = [expT EXCEPT ![p] = target]
                                       /\ expF' = [expF EXCEPT ![p] = fence]
        /\ UNCHANGED <<txn, cand, pred, batch, todo, plan>>
    BY <1>2 DEF ObserveLease
  <2>3. TypeLocal' /\ LocalOK'
    BY <1>0, <1>2, <2>2 DEF ObserveLease, TypeGit, TypeLocal, LocalOK, Pcs
  <2> QED BY <2>1, <2>3
<1>3. CASE WriteLease(p)
  <2>1. TypeGit' /\ TypeFiles' /\ TypeRest'
    BY <1>0, <1>3 DEF WriteLease, TypeGit, TypeFiles, TypeLocal, TypeRest
  <2>2. TypeLocal' /\ LocalOK'
    BY <1>0, <1>3 DEF WriteLease, TypeGit, TypeFiles, TypeLocal, LocalOK, Pcs
  <2> QED BY <2>1, <2>2
<1>4. CASE ConfirmLease(p)
  BY <1>4, OutcomeType DEF ConfirmLease, Outcome
<1>5. CASE CheckCommit(p)
  BY <1>5, OutcomeType DEF CheckCommit, Outcome
<1>6. CASE Land(p)
  <2>1. TypeGit' /\ TypeFiles' /\ TypeRest'
    BY <1>0, <1>6 DEF Land, TypeGit, TypeFiles, TypeLocal, TypeRest
  <2>2. TypeLocal' /\ LocalOK'
    BY <1>0, <1>6 DEF Land, TypeGit, TypeFiles, TypeLocal, LocalOK, Pcs
  <2> QED BY <2>1, <2>2
<1>7. CASE LandFail(p)
  BY <1>7, OutcomeType DEF LandFail, Outcome
<1>8. CASE RecordLanded(p)
  <2>1. TypeGit' /\ TypeFiles' /\ TypeRest'
    BY <1>0, <1>8, AppendType
       DEF RecordLanded, Release, TargetLanded, Cleaned, TypeGit, TypeFiles, TypeLocal,
           TypeRest
  <2>2. TypeLocal' /\ LocalOK'
    BY <1>0, <1>8
       DEF RecordLanded, Release, TargetLanded, Cleaned, TypeGit, TypeFiles, TypeLocal,
           LocalOK, Pcs
  <2> QED BY <2>1, <2>2
<1> QED BY <1>1, <1>2, <1>3, <1>4, <1>5, <1>6, <1>7, <1>8 DEF LandCandidate

\* Cleanup and close keep the types.
LEMMA SettleType == ASSUME WellFormed, NEW p \in Proc, Settle(p) PROVE WellFormed'
<1> USE LandingAssumption
   DEF git, files, ghost, aux, work, local, Goto, LeaveTo, Leave, MaybeOid,
        Free, Unbuilt, WellFormed, TypeOK
<1>0. pc[p] \notin Free =>
        /\ txn[p] \in Txn /\ TaskOf(txn[p]) \in Task /\ BaseOf(txn[p]) \in Oid
        /\ pc[p] \notin Unbuilt => cand[p] \in Oid
  BY Held
<1>1. CASE DropWorktree(p)
  <2>1. TypeGit' /\ TypeFiles' /\ TypeRest'
    BY <1>0, <1>1 DEF DropWorktree, TypeGit, TypeFiles, TypeLocal, TypeRest
  <2>2. TypeLocal' /\ LocalOK'
    BY <1>0, <1>1 DEF DropWorktree, TypeGit, TypeFiles, TypeLocal, LocalOK, Pcs
  <2> QED BY <2>1, <2>2
<1>2. CASE RecordCleaned(p)
  <2>1. TypeGit' /\ TypeFiles' /\ TypeRest'
    BY <1>0, <1>2, AppendType
       DEF RecordCleaned, TypeGit, TypeFiles, TypeLocal, TypeRest, Cleaned
  <2>2. \/ \E l \in {"idle", "scan"} : LeaveTo(p, l)
        \/ /\ \E l \in {"rebuild", "close"} : Goto(p, l)
           /\ UNCHANGED <<txn, cand, expT, expF>>
    BY <1>2 DEF RecordCleaned
  <2>3. UNCHANGED <<pred, batch, todo, plan>> /\ pc[p] \notin Free \cup Unbuilt
    BY <1>2 DEF RecordCleaned
  <2>4. CASE \E l \in {"idle", "scan"} : LeaveTo(p, l)
    BY <2>1, <2>3, <2>4 DEF TypeLocal, LocalOK, Pcs
  <2>5. CASE /\ \E l \in {"rebuild", "close"} : Goto(p, l)
             /\ UNCHANGED <<txn, cand, expT, expF>>
    BY <1>0, <2>1, <2>3, <2>5 DEF TypeLocal, LocalOK, Pcs
  <2> QED BY <2>2, <2>4, <2>5
<1>3. CASE CloseTask(p)
  <2>1. TypeGit' /\ TypeFiles' /\ TypeRest'
    BY <1>0, <1>3
       DEF CloseTask, WriteClose, Close, TypeGit, TypeFiles, TypeLocal, TypeRest
  <2>2. TypeLocal' /\ LocalOK'
    BY <1>0, <1>3
       DEF CloseTask, WriteClose, Close, TypeGit, TypeFiles, TypeLocal, LocalOK, Pcs
  <2> QED BY <2>1, <2>2
<1>4. CASE CloseFail(p)
  <2>1. TypeGit' /\ TypeFiles' /\ TypeRest'
    BY <1>0, <1>4 DEF CloseFail, Fail, TypeGit, TypeFiles, TypeLocal, TypeRest
  <2>2. TypeLocal' /\ LocalOK'
    BY <1>0, <1>4 DEF CloseFail, Fail, TypeGit, TypeFiles, TypeLocal, LocalOK, Pcs
  <2> QED BY <2>1, <2>2
<1>5. CASE RecordClosed(p)
  <2>1. TypeGit' /\ TypeFiles' /\ TypeRest'
    BY <1>0, <1>5, AppendType
       DEF RecordClosed, TypeGit, TypeFiles, TypeLocal, TypeRest, TaskClosed, Cleaned
  <2>2. \/ \E l \in {"idle", "scan"} : LeaveTo(p, l)
        \/ Goto(p, "drop_scan") /\ UNCHANGED <<txn, cand, expT, expF>>
    BY <1>5 DEF RecordClosed
  <2>3. /\ pred' = [pred EXCEPT ![p] = cand[p]] \/ UNCHANGED pred
        /\ UNCHANGED <<batch, todo, plan>> /\ pc[p] \notin Free \cup Unbuilt
    BY <1>5 DEF RecordClosed
  <2>4. CASE \E l \in {"idle", "scan"} : LeaveTo(p, l)
    BY <1>0, <2>1, <2>3, <2>4 DEF TypeLocal, LocalOK, Pcs
  <2>5. CASE Goto(p, "drop_scan") /\ UNCHANGED <<txn, cand, expT, expF>>
    BY <1>0, <2>1, <2>3, <2>5 DEF TypeLocal, LocalOK, Pcs
  <2> QED BY <2>2, <2>4, <2>5
<1> QED BY <1>1, <1>2, <1>3, <1>4, <1>5 DEF Settle

\* Reconciliation keeps the types.
LEMMA ReconcileType ==
    ASSUME WellFormed, NEW p \in Proc, Reconcile(p)
    PROVE  WellFormed'
<1> USE LandingAssumption
   DEF git, files, ghost, aux, work, local, Goto, LeaveTo, Leave, MaybeOid,
        Free, Unbuilt, WellFormed, TypeOK
<1>0. pc[p] \notin Free =>
        /\ txn[p] \in Txn /\ TaskOf(txn[p]) \in Task /\ BaseOf(txn[p]) \in Oid
        /\ pc[p] \notin Unbuilt => cand[p] \in Oid
  BY Held
<1>1. CASE StartScan(p)
  <2>1. TypeGit' /\ TypeFiles' /\ TypeRest'
    BY <1>0, <1>1 DEF StartScan, Listed, TypeGit, TypeFiles, TypeLocal, TypeRest
  <2>2. TypeLocal' /\ LocalOK'
    BY <1>0, <1>1 DEF StartScan, Listed, TypeGit, TypeFiles, TypeLocal, LocalOK, Pcs
  <2> QED BY <2>1, <2>2
<1>2. CASE Examine(p)
  BY <1>2, ExamineType
<1>3. CASE CloseScanned(p)
  <2>1. TypeGit' /\ TypeFiles'
    BY <1>3 DEF CloseScanned, TypeGit, TypeFiles
  <2>2. TaskOf(txn[p]) \in Task /\ [txn |-> txn[p], cand |-> cand[p]] \in Close
    BY <1>0, <1>3 DEF CloseScanned, Close
  <2>3. TypeRest'
    <3>1. beads' = beads \/ WriteClose(p)
      BY <1>3 DEF CloseScanned
    <3>2. beads' \in [Task -> Close \cup {None}]
      BY <2>2, <3>1 DEF WriteClose, TypeRest
    <3> QED BY <1>3, <3>2 DEF CloseScanned, TypeRest
  <2>4. TypeLocal' /\ LocalOK'
    BY <1>0, <1>3 DEF CloseScanned, TypeLocal, LocalOK, Pcs
  <2> QED BY <2>1, <2>3, <2>4
<1>4. CASE CloseScannedFail(p)
  <2>1. TypeGit' /\ TypeFiles' /\ TypeRest'
    BY <1>0, <1>4 DEF CloseScannedFail, Fail, TypeGit, TypeFiles, TypeLocal, TypeRest
  <2>2. TypeLocal' /\ LocalOK'
    BY <1>0, <1>4
       DEF CloseScannedFail, Fail, TypeGit, TypeFiles, TypeLocal, LocalOK, Pcs
  <2> QED BY <2>1, <2>2
<1>5. CASE EndScan(p)
  <2>1. TypeGit' /\ TypeFiles' /\ TypeRest'
    BY <1>0, <1>5 DEF EndScan, TypeGit, TypeFiles, TypeLocal, TypeRest
  <2>2. TypeLocal' /\ LocalOK'
    BY <1>0, <1>5 DEF EndScan, TypeGit, TypeFiles, TypeLocal, LocalOK, Pcs
  <2> QED BY <2>1, <2>2
<1> QED BY <1>1, <1>2, <1>3, <1>4, <1>5 DEF Reconcile

\* A crash keeps the types.
LEMMA CrashType == ASSUME WellFormed, NEW p \in Proc, Crash(p) PROVE WellFormed'
<1> USE LandingAssumption
   DEF git, ghost, Goto, LeaveTo, MaybeOid, Free, Unbuilt, WellFormed, TypeOK
<1>1. Written(p) \subseteq Txn
  <2>1. pc[p] \in Appending => txn[p] \in Txn
    BY DEF Appending, LocalOK
  <2> QED BY <2>1 DEF Written, TypeLocal
<1>2. TypeGit' /\ TypeFiles' /\ TypeRest'
  BY <1>1 DEF Crash, TypeGit, TypeFiles, TypeRest
<1>3. TypeLocal' /\ LocalOK'
  BY DEF Crash, TypeLocal, LocalOK, Pcs
<1> QED BY <1>2, <1>3

\* A move of the publish target keeps the types.
LEMMA AdvanceType == ASSUME WellFormed, Advance PROVE WellFormed'
<1> USE DEF files, local, work, ghost, WellFormed, TypeOK
<1>1. TypeGit'
  BY FreshOid DEF Advance, NewCommit, TypeGit
<1>2. TypeFiles' /\ TypeLocal' /\ LocalOK' /\ TypeRest'
  BY DEF Advance, TypeFiles, TypeLocal, LocalOK, TypeRest
<1> QED BY <1>1, <1>2

\* Every step keeps the types.
LEMMA WellFormedStep == WellFormed /\ [Next]_vars => WellFormed'
<1> SUFFICES ASSUME WellFormed, [Next]_vars PROVE WellFormed'
  OBVIOUS
<1>1. CASE \E p \in Proc : Step(p)
  BY <1>1, BuildType, VerifyType, LandCandidateType, SettleType, ReconcileType DEF Step
<1>2. CASE \E p \in Proc : Crash(p)
  BY <1>2, CrashType
<1>3. CASE Advance
  BY <1>3, AdvanceType
<1>4. CASE UNCHANGED vars
  BY <1>4 DEF vars, git, files, ghost, aux, local, work, WellFormed, LocalOK, TypeOK, TypeGit,
              TypeFiles, TypeLocal, TypeRest
<1> QED BY <1>1, <1>2, <1>3, <1>4 DEF Next

\* The refs, files and records of the landing plane keep their types in every
\* behaviour of any number of processes, tasks, crashes and failures.
THEOREM TypeCorrect == Spec => []TypeOK
<1>1. WellFormed => TypeOK
  BY DEF WellFormed
<1> QED BY <1>1, InitType, WellFormedStep, PTL DEF Spec

-----------------------------------------------------------------------------
(* Safety: the inductive invariant *)

\* Both commits exist, and c contains all that b contains.
Contains(obj, hist, c, b) == c \in obj /\ b \in obj /\ hist[b] \subseteq hist[c]

\* The commit was built on the pinned base of the transaction.
OnBase(t, c) == Contains(objects, history, c, BaseOf(t))

GitOK == target \in objects /\ \A c \in objects : c \in history[c]

\* Every candidate a file or a ref names was built on the base.
Evidence ==
    \A t \in Txn :
        /\ worktree[t] # None => OnBase(t, worktree[t])
        /\ manifest[t] # None => OnBase(t, manifest[t])
        /\ candRef[t] # None => OnBase(t, candRef[t])
        /\ journal[t].cand # None => OnBase(t, journal[t].cand)

\* Where a process knows that its candidate has landed.
KnowsLanded == {"landed", "drop_land", "mark_land", "close", "note", "close_scan", "note_scan"}

\* The candidate a process holds was built on the base of its transaction.
LocalEvidence ==
    \A p \in Proc :
        /\ txn[p] # None => BaseOf(txn[p]) \in objects
        /\ pred[p] # None => pred[p] \in objects
        /\ cand[p] # None => txn[p] # None /\ OnBase(txn[p], cand[p])

ReceiptKnown == \A p \in Proc : pc[p] \in KnowsLanded => receipt[txn[p]] = cand[p]

Safe == /\ GitOK /\ Evidence /\ LocalEvidence /\ ReceiptKnown
        /\ ReceiptInTarget /\ CloseHasReceipt

Inv == WellFormed /\ Safe

-----------------------------------------------------------------------------
(* Lemmas *)

\* No commit but Genesis, no candidate, no receipt: the invariant holds at first.
LEMMA InitSafe == Init => Safe
BY LandingAssumption, TxnParts
   DEF Init, Safe, GitOK, Evidence, LocalEvidence, ReceiptKnown, KnowsLanded,
       ReceiptInTarget, CloseHasReceipt

\* A new commit changes nothing of the commits that exist.
LEMMA NewCommitGrows ==
    ASSUME TypeGit, GitOK, NEW h \in objects, NEW X, NewCommit(h, X)
    PROVE  /\ Fresh \notin objects
           /\ objects' = objects \cup {Fresh}
           /\ \A c \in objects : history'[c] = history[c]
           /\ history'[Fresh] = history[h] \cup {Fresh} \cup X
           /\ \A c \in objects' : c \in history'[c]
<1>1. Fresh \in Oid /\ Fresh \notin objects
  BY FreshOid DEF NewCommit
<1>2. /\ objects' = objects \cup {Fresh}
      /\ history' = [history EXCEPT ![Fresh] = history[h] \cup {Fresh} \cup X]
  BY DEF NewCommit
<1>3. history'[Fresh] = history[h] \cup {Fresh} \cup X
  BY <1>1, <1>2 DEF TypeGit
<1>4. \A c \in objects : history'[c] = history[c]
  BY <1>1, <1>2 DEF TypeGit
<1>5. \A c \in objects' : c \in history'[c]
  BY <1>1, <1>2, <1>3, <1>4 DEF GitOK
<1> HIDE DEF NewCommit
<1> QED BY <1>1, <1>2, <1>3, <1>4, <1>5

\* Candidates stay on their base when commits are added.
LEMMA OnBaseStable ==
    ASSUME objects \subseteq objects', \A c \in objects : history'[c] = history[c]
    PROVE  \A t, c : OnBase(t, c) => Contains(objects', history', c, BaseOf(t))
BY DEF OnBase, Contains

\* The journal names no other candidates than before and the appended one.
LEMMA AppendSafe ==
    ASSUME TypeFiles, Evidence, NEW t \in Txn, NEW r, NEW c,
           c # None => OnBase(t, c), AppendCheckpoint(t, r, c)
    PROVE  \A u \in Txn : journal'[u].cand # None => OnBase(u, journal'[u].cand)
<1> SUFFICES ASSUME NEW u \in Txn, journal'[u].cand # None
             PROVE  OnBase(u, journal'[u].cand)
  OBVIOUS
<1>1. journal'[u].cand = journal[u].cand \/ (u = t /\ journal'[u].cand = c)
  BY DEF AppendCheckpoint, Reduce, TypeFiles
<1> QED BY <1>1 DEF Evidence

\* What counts as the candidate of a transaction was built on its base.
LEMMA CandidateOnBase ==
    ASSUME Evidence, NEW t \in Txn, CandidateOid(t) # None
    PROVE  OnBase(t, CandidateOid(t))
BY DEF Evidence, CandidateOid

\* Evidence of a landing settles which candidate landed.
LEMMA LandedCandidate ==
    ASSUME NEW t, Landed(t)
    PROVE  CandidateOid(t) # None /\ receipt[t] = CandidateOid(t)
BY DEF Landed, IntegrityIncident, InTarget, Differ

\* Adding a commit on top of h disturbs no evidence and no local candidate.
LEMMA GrowSafe ==
    ASSUME Inv, NEW h \in objects, NEW X, NewCommit(h, X),
           UNCHANGED <<candRef, manifest, journal, receipt, beads, txn, cand, pred>>
    PROVE  /\ LocalEvidence' /\ CloseHasReceipt'
           /\ \A t \in Txn :
                /\ worktree[t] # None => Contains(objects', history', worktree[t], BaseOf(t))
                /\ manifest'[t] # None => Contains(objects', history', manifest'[t], BaseOf(t))
                /\ candRef'[t] # None => Contains(objects', history', candRef'[t], BaseOf(t))
                /\ journal'[t].cand # None =>
                     Contains(objects', history', journal'[t].cand, BaseOf(t))
<1> USE DEF Inv, Safe
<1>1. /\ objects \subseteq objects'
      /\ \A c \in objects : history'[c] = history[c]
  BY NewCommitGrows DEF WellFormed, TypeOK
<1>2. \A t, c : OnBase(t, c) => Contains(objects', history', c, BaseOf(t))
  BY <1>1, OnBaseStable
<1>3. LocalEvidence'
  <2> SUFFICES ASSUME NEW p \in Proc
               PROVE  /\ txn'[p] # None => BaseOf(txn'[p]) \in objects'
                      /\ pred'[p] # None => pred'[p] \in objects'
                      /\ cand'[p] # None =>
                           /\ txn'[p] # None
                           /\ Contains(objects', history', cand'[p], BaseOf(txn'[p]))
    BY DEF LocalEvidence, OnBase
  <2> QED BY <1>1, <1>2 DEF LocalEvidence
<1>4. CloseHasReceipt'
  BY DEF CloseHasReceipt
<1> QED BY <1>2, <1>3, <1>4 DEF Evidence

\* A commit made in the worktree of a transaction.
LEMMA WorktreeCommitSafe ==
    ASSUME Inv, NEW t \in Txn, worktree[t] # None, NEW X, NewCommit(worktree[t], X),
           worktree' = [worktree EXCEPT ![t] = Fresh],
           UNCHANGED <<target, candRef, receipt, manifest, journal, beads, txn, cand, pred>>
    PROVE  GitOK' /\ ReceiptInTarget' /\ CloseHasReceipt' /\ Evidence' /\ LocalEvidence'
<1> USE DEF Inv, Safe, WellFormed, TypeOK
<1>1. worktree[t] \in objects /\ BaseOf(t) \in objects
      /\ history[BaseOf(t)] \subseteq history[worktree[t]]
  BY DEF Evidence, OnBase, Contains
<1>2. /\ Fresh \notin objects
      /\ objects' = objects \cup {Fresh}
      /\ \A c \in objects : history'[c] = history[c]
      /\ history'[Fresh] = history[worktree[t]] \cup {Fresh} \cup X
      /\ \A c \in objects' : c \in history'[c]
  BY <1>1, NewCommitGrows
<1>3. GitOK' /\ ReceiptInTarget'
  BY <1>2 DEF GitOK, ReceiptInTarget
<1>4. Contains(objects', history', Fresh, BaseOf(t))
  BY <1>1, <1>2 DEF Contains
<1>5. /\ LocalEvidence' /\ CloseHasReceipt'
      /\ \A u \in Txn :
           /\ worktree[u] # None => Contains(objects', history', worktree[u], BaseOf(u))
           /\ manifest'[u] # None => Contains(objects', history', manifest'[u], BaseOf(u))
           /\ candRef'[u] # None => Contains(objects', history', candRef'[u], BaseOf(u))
           /\ journal'[u].cand # None =>
                Contains(objects', history', journal'[u].cand, BaseOf(u))
  BY <1>1, GrowSafe
<1>6. Evidence'
  BY <1>4, <1>5 DEF Evidence, OnBase, TypeFiles
<1> QED BY <1>3, <1>5, <1>6

\* A commit of somebody else on the target keeps the receipts contained.
LEMMA AdvanceSafe == ASSUME Inv, Advance PROVE Safe'
<1> USE DEF Inv, Safe, WellFormed, TypeOK, files, local, work
<1>1. target \in objects
  BY DEF GitOK
<1>2. /\ Fresh \notin objects
      /\ objects' = objects \cup {Fresh}
      /\ history'[Fresh] = history[target] \cup {Fresh}
      /\ \A c \in objects' : c \in history'[c]
  BY <1>1, NewCommitGrows DEF Advance
<1>3. GitOK' /\ ReceiptInTarget' /\ ReceiptKnown'
  BY <1>2 DEF Advance, GitOK, ReceiptInTarget, ReceiptKnown
<1>4. /\ LocalEvidence' /\ CloseHasReceipt'
      /\ \A u \in Txn :
           /\ worktree[u] # None => Contains(objects', history', worktree[u], BaseOf(u))
           /\ manifest'[u] # None => Contains(objects', history', manifest'[u], BaseOf(u))
           /\ candRef'[u] # None => Contains(objects', history', candRef'[u], BaseOf(u))
           /\ journal'[u].cand # None =>
                Contains(objects', history', journal'[u].cand, BaseOf(u))
  BY <1>1, GrowSafe DEF Advance
<1>5. Evidence'
  BY <1>4 DEF Advance, Evidence, OnBase
<1> QED BY <1>3, <1>4, <1>5

\* An attempt to land that goes on, is rejected or drifts.
LEMMA OutcomeSafe ==
    ASSUME Inv, NEW p \in Proc, pc[p] \notin Free \cup Unbuilt, Outcome(p),
           pc'[p] \in KnowsLanded => receipt[txn[p]] = cand[p],
           UNCHANGED <<git, worktree, manifest, journal, torn, repairs, beads, pred, todo,
                       plan, ghost, aux>>
    PROVE  Safe'
<1> USE DEF Inv, Safe, git
<1>1. GitOK' /\ ReceiptInTarget' /\ CloseHasReceipt' /\ Evidence'
  BY DEF GitOK, ReceiptInTarget, CloseHasReceipt, Evidence, OnBase
<1>2. \/ UNCHANGED <<txn, cand>> /\ \E l : pc' = [pc EXCEPT ![p] = l]
      \/ Leave(p)
  BY DEF Outcome, Drift, Reject, Proceed, Goto
<1>3. CASE UNCHANGED <<txn, cand>> /\ \E l : pc' = [pc EXCEPT ![p] = l]
  <2>1. LocalEvidence'
    BY <1>3 DEF LocalEvidence, OnBase
  <2>2. ReceiptKnown'
    BY <1>3 DEF ReceiptKnown, WellFormed, TypeOK, TypeLocal
  <2> QED BY <1>1, <2>1, <2>2
<1>4. CASE Leave(p)
  <2>1. LocalEvidence'
    BY <1>4 DEF Leave, LeaveTo, LocalEvidence, OnBase, WellFormed, TypeOK, TypeLocal
  <2>2. ReceiptKnown'
    BY <1>4
       DEF Leave, LeaveTo, Goto, ReceiptKnown, KnowsLanded, WellFormed, TypeOK,
           TypeLocal
  <2> QED BY <1>1, <2>1, <2>2
<1> QED BY <1>2, <1>3, <1>4

\* What is restored or built for a transaction is on the base it pins.
LEMMA BuildSafe == ASSUME Inv, NEW p \in Proc, Build(p) PROVE Safe'
<1> USE LandingAssumption
   DEF git, files, work, local, Goto, LeaveTo, Leave, Free, Inv, Safe
<1>0. /\ WellFormed /\ TypeGit /\ TypeFiles /\ TypeLocal
      /\ pc[p] \notin Free => txn[p] \in Txn /\ txn[p] # None
      /\ pc[p] \notin Free \cup Unbuilt => cand[p] \in Oid /\ OnBase(txn[p], cand[p])
  BY Held, TxnParts DEF WellFormed, TypeOK, LocalEvidence
<1>1. CASE Begin(p)
  <2>1. GitOK' /\ ReceiptInTarget' /\ CloseHasReceipt'
    BY <1>1 DEF Begin, Pin, GitOK, ReceiptInTarget, CloseHasReceipt
  <2>2. Evidence'
    BY <1>1 DEF Begin, Pin, Evidence, OnBase
  <2>3. LocalEvidence'
    <3>1. PICK a : /\ txn' = [txn EXCEPT ![p] = <<a, IF pred[p] # None THEN pred[p] ELSE target>>]
                   /\ cand' = [cand EXCEPT ![p] = None] /\ UNCHANGED <<objects, history, pred>>
      BY <1>1 DEF Begin, Pin
    <3>2. BaseOf(txn'[p]) \in objects
      BY <1>0, <3>1 DEF BaseOf, LocalEvidence, GitOK, TypeLocal
    <3> QED BY <1>0, <3>1, <3>2 DEF LocalEvidence, OnBase, TypeLocal
  <2>4. ReceiptKnown'
    BY <1>0, <1>1 DEF Begin, Pin, ReceiptKnown, KnowsLanded, TypeLocal
  <2> QED BY <2>1, <2>2, <2>3, <2>4
<1>2. CASE Rebuild(p)
  <2>1. GitOK' /\ ReceiptInTarget' /\ CloseHasReceipt'
    BY <1>2 DEF Rebuild, Pin, GitOK, ReceiptInTarget, CloseHasReceipt
  <2>2. Evidence'
    BY <1>2 DEF Rebuild, Pin, Evidence, OnBase
  <2>3. LocalEvidence'
    <3>1. PICK a : /\ txn' = [txn EXCEPT ![p] = <<a, IF pred[p] # None THEN pred[p] ELSE target>>]
                   /\ cand' = [cand EXCEPT ![p] = None] /\ UNCHANGED <<objects, history, pred>>
      BY <1>2 DEF Rebuild, Pin
    <3>2. BaseOf(txn'[p]) \in objects
      BY <1>0, <3>1 DEF BaseOf, LocalEvidence, GitOK, TypeLocal
    <3> QED BY <1>0, <3>1, <3>2 DEF LocalEvidence, OnBase, TypeLocal
  <2>4. ReceiptKnown'
    BY <1>0, <1>2 DEF Rebuild, Pin, ReceiptKnown, KnowsLanded, TypeLocal
  <2> QED BY <2>1, <2>2, <2>3, <2>4
<1>3. CASE RefuseIncident(p)
  <2>1. GitOK' /\ ReceiptInTarget' /\ CloseHasReceipt'
    BY <1>0, <1>3 DEF RefuseIncident, GitOK, ReceiptInTarget, CloseHasReceipt, TypeRest
  <2>2. Evidence'
    BY <1>0, <1>3 DEF RefuseIncident, Evidence, OnBase, Unbuilt, TypeGit, TypeFiles
  <2>3. LocalEvidence'
    BY <1>0, <1>3
       DEF RefuseIncident, LocalEvidence, GitOK, OnBase, Unbuilt, TypeLocal, TypeFiles
  <2>4. ReceiptKnown'
    BY <1>0, <1>3 DEF RefuseIncident, ReceiptKnown, KnowsLanded, TypeLocal
  <2> QED BY <2>1, <2>2, <2>3, <2>4
<1>4. CASE Restore(p)
  <2> DEFINE t == txn[p]
             c == RestoredOid(t)
  <2>0. t \in Txn /\ t # None /\ c # None /\ OnBase(t, c)
    BY <1>0, <1>4 DEF Restore, RestoredOid, Evidence
  <2>1. GitOK' /\ ReceiptInTarget' /\ CloseHasReceipt'
    BY <1>4 DEF Restore, GitOK, ReceiptInTarget, CloseHasReceipt
  <2>2. Evidence'
    <3>1. \A u \in Txn : journal'[u].cand # None => OnBase(u, journal'[u].cand)
      <4>1. CASE journal[t].cand = c
        BY <1>4, <4>1 DEF Restore, Evidence
      <4>2. CASE journal[t].cand # c
        <5>1. AppendCheckpoint(t, CandidateCreated, c)
          BY <1>4, <4>2 DEF Restore
        <5> HIDE DEF c, t
        <5> QED BY <1>0, <2>0, <5>1, AppendSafe
      <4> QED BY <4>1, <4>2
    <3>2. /\ candRef' = [candRef EXCEPT ![t] = c]
          /\ worktree' = [worktree EXCEPT ![t] = IF @ = None THEN c ELSE @]
          /\ UNCHANGED <<objects, history, manifest>>
      BY <1>4 DEF Restore
    <3> HIDE DEF c, t
    <3> QED BY <1>0, <2>0, <3>1, <3>2 DEF Evidence, OnBase, TypeGit, TypeFiles
  <2>3. LocalEvidence'
    <3>1. cand' = [cand EXCEPT ![p] = c] /\ UNCHANGED <<objects, history, txn, pred>>
      BY <1>4 DEF Restore
    <3> HIDE DEF c
    <3> QED BY <1>0, <2>0, <3>1 DEF LocalEvidence, OnBase, TypeLocal
  <2>4. ReceiptKnown'
    BY <1>0, <1>4 DEF Restore, ReceiptKnown, KnowsLanded, TypeLocal
  <2> QED BY <2>1, <2>2, <2>3, <2>4
<1>5. CASE Open(p)
  <2>1. GitOK' /\ ReceiptInTarget' /\ CloseHasReceipt'
    BY <1>5 DEF Open, GitOK, ReceiptInTarget, CloseHasReceipt
  <2>2. Evidence'
    <3>1. OnBase(txn[p], BaseOf(txn[p])) /\ txn[p] \in Txn
      BY <1>0, <1>5 DEF Open, LocalEvidence, OnBase, Contains
    <3>2. \A u \in Txn : journal'[u].cand = journal[u].cand
      BY <1>0, <1>5 DEF Open, Reduce, TypeFiles
    <3>3. \A u \in Txn : worktree'[u] = IF u = txn[p] THEN BaseOf(txn[p]) ELSE worktree[u]
      BY <1>0, <1>5 DEF Open, TypeFiles
    <3> QED BY <1>5, <3>1, <3>2, <3>3 DEF Open, Evidence, OnBase
  <2>3. LocalEvidence'
    BY <1>5 DEF Open, LocalEvidence, OnBase
  <2>4. ReceiptKnown'
    BY <1>0, <1>5 DEF Open, ReceiptKnown, KnowsLanded, TypeLocal
  <2> QED BY <2>1, <2>2, <2>3, <2>4
<1>6. CASE OpenTorn(p)
  <2>1. GitOK' /\ ReceiptInTarget' /\ CloseHasReceipt'
    BY <1>0, <1>6 DEF OpenTorn, GitOK, ReceiptInTarget, CloseHasReceipt, TypeRest
  <2>2. Evidence'
    BY <1>0, <1>6 DEF OpenTorn, Evidence, OnBase, Unbuilt, TypeGit, TypeFiles
  <2>3. LocalEvidence'
    BY <1>0, <1>6
       DEF OpenTorn, LocalEvidence, GitOK, OnBase, Unbuilt, TypeLocal, TypeFiles
  <2>4. ReceiptKnown'
    BY <1>0, <1>6 DEF OpenTorn, ReceiptKnown, KnowsLanded, TypeLocal
  <2> QED BY <2>1, <2>2, <2>3, <2>4
<1>7. CASE Merge(p)
  <2>1. ReceiptKnown'
    BY <1>0, <1>7 DEF Merge, ReceiptKnown, KnowsLanded, TypeLocal
  <2>2. CASE UNCHANGED <<objects, history, worktree>>
    BY <1>7, <2>1, <2>2 DEF Merge, GitOK, ReceiptInTarget, CloseHasReceipt, Evidence,
                            LocalEvidence, OnBase
  <2>3. CASE /\ NewCommit(worktree[txn[p]], {TaskOf(txn[p])})
             /\ worktree' = [worktree EXCEPT ![txn[p]] = Fresh]
    <3>1. worktree[txn[p]] # None /\ txn[p] \in Txn
          /\ UNCHANGED <<target, candRef, receipt, manifest, journal, beads, txn, cand, pred>>
      BY <1>0, <1>7 DEF Merge
    <3> QED BY <2>1, <2>3, <3>1, WorktreeCommitSafe
  <2> QED BY <1>7, <2>2, <2>3 DEF Merge
<1>8. CASE MergeFail(p)
  <2>1. GitOK' /\ ReceiptInTarget' /\ CloseHasReceipt'
    BY <1>0, <1>8 DEF MergeFail, Fail, GitOK, ReceiptInTarget, CloseHasReceipt, TypeRest
  <2>2. Evidence'
    BY <1>0, <1>8 DEF MergeFail, Fail, Evidence, OnBase, Unbuilt, TypeGit, TypeFiles
  <2>3. LocalEvidence'
    BY <1>0, <1>8
       DEF MergeFail, Fail, LocalEvidence, GitOK, OnBase, Unbuilt, TypeLocal, TypeFiles
  <2>4. ReceiptKnown'
    BY <1>0, <1>8 DEF MergeFail, Fail, ReceiptKnown, KnowsLanded, TypeLocal
  <2> QED BY <2>1, <2>2, <2>3, <2>4
<1>9. CASE WriteManifest(p)
  <2>1. GitOK' /\ ReceiptInTarget' /\ CloseHasReceipt'
    BY <1>9 DEF WriteManifest, GitOK, ReceiptInTarget, CloseHasReceipt
  <2>2. OnBase(txn[p], worktree[txn[p]]) /\ txn[p] \in Txn
    BY <1>0, <1>9 DEF WriteManifest, Evidence
  <2>3. Evidence'
    BY <1>0, <1>9, <2>2 DEF WriteManifest, Evidence, OnBase, TypeFiles
  <2>4. LocalEvidence'
    <3>1. cand' = [cand EXCEPT ![p] = worktree[txn[p]]] /\ UNCHANGED <<objects, history, txn, pred>>
      BY <1>9 DEF WriteManifest
    <3> QED BY <1>0, <1>9, <2>2, <3>1
       DEF WriteManifest, LocalEvidence, OnBase, TypeLocal
  <2>5. ReceiptKnown'
    BY <1>0, <1>9 DEF WriteManifest, ReceiptKnown, KnowsLanded, TypeLocal
  <2> QED BY <2>1, <2>3, <2>4, <2>5
<1>10. CASE WriteRef(p)
  <2>1. GitOK' /\ ReceiptInTarget' /\ CloseHasReceipt'
    BY <1>0, <1>10 DEF WriteRef, GitOK, ReceiptInTarget, CloseHasReceipt, TypeRest
  <2>2. Evidence'
    BY <1>0, <1>10 DEF WriteRef, Evidence, OnBase, Unbuilt, TypeGit, TypeFiles
  <2>3. LocalEvidence'
    BY <1>0, <1>10
       DEF WriteRef, LocalEvidence, GitOK, OnBase, Unbuilt, TypeLocal, TypeFiles
  <2>4. ReceiptKnown'
    BY <1>0, <1>10 DEF WriteRef, ReceiptKnown, KnowsLanded, TypeLocal
  <2> QED BY <2>1, <2>2, <2>3, <2>4
<1>11. CASE RecordCreated(p)
  <2>0. \A u \in Txn : journal'[u].cand # None => OnBase(u, journal'[u].cand)
    BY <1>0, <1>11, AppendSafe DEF RecordCreated, Unbuilt
  <2>1. GitOK' /\ ReceiptInTarget' /\ CloseHasReceipt'
    BY <1>11 DEF RecordCreated, GitOK, ReceiptInTarget, CloseHasReceipt
  <2>2. Evidence'
    BY <1>11, <2>0 DEF RecordCreated, Evidence, OnBase
  <2>3. LocalEvidence'
    BY <1>0, <1>11
       DEF RecordCreated, CandidateCreated, Cleaned, LocalEvidence, GitOK, OnBase,
           Unbuilt, TypeLocal, TypeFiles
  <2>4. ReceiptKnown'
    BY <1>0, <1>11
       DEF RecordCreated, CandidateCreated, Cleaned, ReceiptKnown, KnowsLanded,
           TypeLocal
  <2> QED BY <2>1, <2>2, <2>3, <2>4
<1> QED BY <1>1, <1>2, <1>3, <1>4, <1>5, <1>6, <1>7, <1>8, <1>9, <1>10, <1>11
   DEF Build

\* Verification and repair: an agent commits on top of the candidate.
LEMMA VerifySafe == ASSUME Inv, NEW p \in Proc, Verify(p) PROVE Safe'
<1> USE LandingAssumption
   DEF git, files, work, local, Goto, LeaveTo, Leave, Free, Inv, Safe
<1>0. /\ WellFormed /\ TypeGit /\ TypeFiles /\ TypeLocal
      /\ pc[p] \notin Free => txn[p] \in Txn /\ txn[p] # None
      /\ pc[p] \notin Free \cup Unbuilt => cand[p] \in Oid /\ OnBase(txn[p], cand[p])
  BY Held, TxnParts DEF WellFormed, TypeOK, LocalEvidence
<1>1. CASE VerifyPass(p)
  <2>1. GitOK' /\ ReceiptInTarget' /\ CloseHasReceipt'
    BY <1>0, <1>1 DEF VerifyPass, GitOK, ReceiptInTarget, CloseHasReceipt, TypeRest
  <2>2. Evidence'
    BY <1>0, <1>1 DEF VerifyPass, Evidence, OnBase, Unbuilt, TypeGit, TypeFiles
  <2>3. LocalEvidence'
    BY <1>0, <1>1
       DEF VerifyPass, LocalEvidence, GitOK, OnBase, Unbuilt, TypeLocal, TypeFiles
  <2>4. ReceiptKnown'
    BY <1>0, <1>1 DEF VerifyPass, ReceiptKnown, KnowsLanded, TypeLocal
  <2> QED BY <2>1, <2>2, <2>3, <2>4
<1>2. CASE VerifyFail(p)
  <2>1. GitOK' /\ ReceiptInTarget' /\ CloseHasReceipt'
    BY <1>0, <1>2
       DEF VerifyFail, Fail, GitOK, ReceiptInTarget, CloseHasReceipt, TypeRest
  <2>2. Evidence'
    BY <1>0, <1>2 DEF VerifyFail, Fail, Evidence, OnBase, Unbuilt, TypeGit, TypeFiles
  <2>3. LocalEvidence'
    BY <1>0, <1>2
       DEF VerifyFail, Fail, LocalEvidence, GitOK, OnBase, Unbuilt, TypeLocal, TypeFiles
  <2>4. ReceiptKnown'
    BY <1>0, <1>2 DEF VerifyFail, Fail, ReceiptKnown, KnowsLanded, TypeLocal
  <2> QED BY <2>1, <2>2, <2>3, <2>4
<1>3. CASE StartRepair(p)
  <2>1. GitOK' /\ ReceiptInTarget' /\ CloseHasReceipt'
    BY <1>0, <1>3 DEF StartRepair, GitOK, ReceiptInTarget, CloseHasReceipt, TypeRest
  <2>2. Evidence'
    BY <1>0, <1>3 DEF StartRepair, Evidence, OnBase, Unbuilt, TypeGit, TypeFiles
  <2>3. LocalEvidence'
    BY <1>0, <1>3
       DEF StartRepair, LocalEvidence, GitOK, OnBase, Unbuilt, TypeLocal, TypeFiles
  <2>4. ReceiptKnown'
    BY <1>0, <1>3 DEF StartRepair, ReceiptKnown, KnowsLanded, TypeLocal
  <2> QED BY <2>1, <2>2, <2>3, <2>4
<1>4. CASE AgentCommit(p)
  <2>1. ReceiptKnown'
    BY <1>0, <1>4 DEF AgentCommit, ReceiptKnown, KnowsLanded, TypeLocal
  <2>2. /\ worktree[txn[p]] # None /\ txn[p] \in Txn /\ NewCommit(worktree[txn[p]], {})
        /\ worktree' = [worktree EXCEPT ![txn[p]] = Fresh]
        /\ UNCHANGED <<target, candRef, receipt, manifest, journal, beads, txn, cand, pred>>
    BY <1>0, <1>4 DEF AgentCommit
  <2> QED BY <2>1, <2>2, WorktreeCommitSafe
<1>5. CASE EndRepair(p)
  <2>1. GitOK' /\ ReceiptInTarget' /\ CloseHasReceipt'
    BY <1>0, <1>5 DEF EndRepair, Fail, GitOK, ReceiptInTarget, CloseHasReceipt, TypeRest
  <2>2. Evidence'
    BY <1>0, <1>5 DEF EndRepair, Fail, Evidence, OnBase, Unbuilt, TypeGit, TypeFiles
  <2>3. LocalEvidence'
    BY <1>0, <1>5
       DEF EndRepair, Fail, LocalEvidence, GitOK, OnBase, Unbuilt, TypeLocal, TypeFiles
  <2>4. ReceiptKnown'
    BY <1>0, <1>5 DEF EndRepair, Fail, ReceiptKnown, KnowsLanded, TypeLocal
  <2> QED BY <2>1, <2>2, <2>3, <2>4
<1>6. CASE ExhaustRepairs(p)
  <2>1. GitOK' /\ ReceiptInTarget' /\ CloseHasReceipt'
    BY <1>0, <1>6 DEF ExhaustRepairs, GitOK, ReceiptInTarget, CloseHasReceipt, TypeRest
  <2>2. Evidence'
    BY <1>0, <1>6 DEF ExhaustRepairs, Evidence, OnBase, Unbuilt, TypeGit, TypeFiles
  <2>3. LocalEvidence'
    BY <1>0, <1>6
       DEF ExhaustRepairs, LocalEvidence, GitOK, OnBase, Unbuilt, TypeLocal, TypeFiles
  <2>4. ReceiptKnown'
    BY <1>0, <1>6 DEF ExhaustRepairs, ReceiptKnown, KnowsLanded, TypeLocal
  <2> QED BY <2>1, <2>2, <2>3, <2>4
<1>7. CASE BindVerification(p)
  <2>1. GitOK' /\ ReceiptInTarget' /\ CloseHasReceipt'
    BY <1>0, <1>7
       DEF BindVerification, GitOK, ReceiptInTarget, CloseHasReceipt, TypeRest
  <2>2. Evidence'
    BY <1>0, <1>7 DEF BindVerification, Evidence, OnBase, Unbuilt, TypeGit, TypeFiles
  <2>3. LocalEvidence'
    BY <1>0, <1>7
       DEF BindVerification, LocalEvidence, GitOK, OnBase, Unbuilt, TypeLocal, TypeFiles
  <2>4. ReceiptKnown'
    BY <1>0, <1>7 DEF BindVerification, ReceiptKnown, KnowsLanded, TypeLocal
  <2> QED BY <2>1, <2>2, <2>3, <2>4
<1>8. CASE RecordVerified(p)
  <2>0. \A u \in Txn : journal'[u].cand # None => OnBase(u, journal'[u].cand)
    BY <1>0, <1>8, AppendSafe DEF RecordVerified, Unbuilt
  <2>1. GitOK' /\ ReceiptInTarget' /\ CloseHasReceipt'
    BY <1>8 DEF RecordVerified, GitOK, ReceiptInTarget, CloseHasReceipt
  <2>2. Evidence'
    BY <1>8, <2>0 DEF RecordVerified, Evidence, OnBase
  <2>3. LocalEvidence'
    BY <1>0, <1>8
       DEF RecordVerified, CandidateVerified, Cleaned, LocalEvidence, GitOK, OnBase,
           Unbuilt, TypeLocal, TypeFiles
  <2>4. ReceiptKnown'
    BY <1>0, <1>8
       DEF RecordVerified, CandidateVerified, Cleaned, ReceiptKnown, KnowsLanded,
           TypeLocal
  <2> QED BY <2>1, <2>2, <2>3, <2>4
<1> QED BY <1>1, <1>2, <1>3, <1>4, <1>5, <1>6, <1>7, <1>8 DEF Verify

\* Landing: the CAS replaces the base by a candidate that contains it.
LEMMA LandCandidateSafe == ASSUME Inv, NEW p \in Proc, LandCandidate(p) PROVE Safe'
<1> USE LandingAssumption
   DEF git, files, work, local, Goto, LeaveTo, Leave, Free, Inv, Safe
<1>0. /\ WellFormed /\ TypeGit /\ TypeFiles /\ TypeLocal
      /\ pc[p] \notin Free => txn[p] \in Txn /\ txn[p] # None
      /\ pc[p] \notin Free \cup Unbuilt => cand[p] \in Oid /\ OnBase(txn[p], cand[p])
  BY Held, TxnParts DEF WellFormed, TypeOK, LocalEvidence
<1>1. CASE QueueBlocked(p)
  <2>1. GitOK' /\ ReceiptInTarget' /\ CloseHasReceipt'
    BY <1>0, <1>1
       DEF QueueBlocked, Fail, GitOK, ReceiptInTarget, CloseHasReceipt, TypeRest
  <2>2. Evidence'
    BY <1>0, <1>1 DEF QueueBlocked, Fail, Evidence, OnBase, Unbuilt, TypeGit, TypeFiles
  <2>3. LocalEvidence'
    BY <1>0, <1>1
       DEF QueueBlocked, Fail, LocalEvidence, GitOK, OnBase, Unbuilt, TypeLocal,
           TypeFiles
  <2>4. ReceiptKnown'
    BY <1>0, <1>1 DEF QueueBlocked, Fail, ReceiptKnown, KnowsLanded, TypeLocal
  <2> QED BY <2>1, <2>2, <2>3, <2>4
<1>2. CASE ObserveLease(p)
  <2>1. GitOK' /\ ReceiptInTarget' /\ CloseHasReceipt'
    BY <1>0, <1>2 DEF ObserveLease, GitOK, ReceiptInTarget, CloseHasReceipt, TypeRest
  <2>2. Evidence'
    BY <1>0, <1>2 DEF ObserveLease, Evidence, OnBase, Unbuilt, TypeGit, TypeFiles
  <2>3. LocalEvidence'
    BY <1>0, <1>2
       DEF ObserveLease, LocalEvidence, GitOK, OnBase, Unbuilt, TypeLocal, TypeFiles
  <2>4. ReceiptKnown'
    BY <1>0, <1>2 DEF ObserveLease, ReceiptKnown, KnowsLanded, TypeLocal
  <2> QED BY <2>1, <2>2, <2>3, <2>4
<1>3. CASE WriteLease(p)
  <2>1. GitOK' /\ ReceiptInTarget' /\ CloseHasReceipt'
    BY <1>0, <1>3 DEF WriteLease, GitOK, ReceiptInTarget, CloseHasReceipt, TypeRest
  <2>2. Evidence'
    BY <1>0, <1>3 DEF WriteLease, Evidence, OnBase, Unbuilt, TypeGit, TypeFiles
  <2>3. LocalEvidence'
    BY <1>0, <1>3
       DEF WriteLease, LocalEvidence, GitOK, OnBase, Unbuilt, TypeLocal, TypeFiles
  <2>4. ReceiptKnown'
    BY <1>0, <1>3 DEF WriteLease, ReceiptKnown, KnowsLanded, TypeLocal
  <2> QED BY <2>1, <2>2, <2>3, <2>4
<1>4. CASE ConfirmLease(p)
  <2>1. Outcome(p) /\ pc[p] \notin Free \cup Unbuilt
    BY <1>4 DEF ConfirmLease, Outcome, Unbuilt
  <2>2. pc'[p] \in KnowsLanded => receipt[txn[p]] = cand[p]
    BY <1>0, <1>4 DEF ConfirmLease, Drift, Reject, Proceed, KnowsLanded, TypeLocal
  <2> QED BY <1>4, <2>1, <2>2, OutcomeSafe DEF ConfirmLease
<1>5. CASE CheckCommit(p)
  <2>1. Outcome(p) /\ pc[p] \notin Free \cup Unbuilt
    BY <1>5 DEF CheckCommit, Outcome, Unbuilt
  <2>2. pc'[p] \in KnowsLanded => receipt[txn[p]] = cand[p]
    BY <1>0, <1>5
       DEF CheckCommit, AcceptsReceipt, Drift, Reject, Proceed, KnowsLanded, TypeLocal
  <2> QED BY <1>5, <2>1, <2>2, OutcomeSafe DEF CheckCommit
<1>6. CASE Land(p)
  <2>0. /\ txn[p] \in Txn /\ cand[p] # None /\ receipt[txn[p]] = None /\ target = BaseOf(txn[p])
        /\ Contains(objects, history, cand[p], target)
    BY <1>0, <1>6 DEF Land, CasHolds, Unbuilt, OnBase
  <2>1. \A u \in Txn : receipt'[u] = IF u = txn[p] THEN cand[p] ELSE receipt[u]
    BY <1>0, <1>6 DEF Land, TypeGit
  <2>2. GitOK' /\ ReceiptInTarget'
    BY <1>6, <2>0, <2>1 DEF Land, GitOK, ReceiptInTarget, Contains
  <2>3. CloseHasReceipt'
    <3> SUFFICES ASSUME NEW a \in Task, beads[a] # None
                 PROVE  TaskOf(beads[a].txn) = a /\ receipt'[beads[a].txn] = beads[a].cand
      BY <1>6 DEF Land, CloseHasReceipt
    <3>1. beads[a].txn \in Txn /\ beads[a].cand # None
      BY DEF WellFormed, TypeOK, TypeRest, Close
    <3> QED BY <2>0, <2>1, <3>1 DEF CloseHasReceipt
  <2>4. Evidence' /\ LocalEvidence'
    BY <1>6 DEF Land, Evidence, LocalEvidence, OnBase
  <2>5. ReceiptKnown'
    <3> SUFFICES ASSUME NEW q \in Proc, pc'[q] \in KnowsLanded
                 PROVE  receipt'[txn[q]] = cand[q]
      BY <1>6 DEF Land, ReceiptKnown
    <3>1. CASE q = p
      BY <2>0, <2>1, <3>1
    <3>2. CASE q # p
      <4>1. pc[q] \in KnowsLanded /\ receipt[txn[q]] = cand[q]
        BY <1>0, <1>6, <3>2 DEF Land, ReceiptKnown, TypeLocal
      <4>2. txn[q] \in Txn /\ cand[q] # None
        BY <4>1 DEF KnowsLanded, Unbuilt, WellFormed, LocalOK
      <4> QED BY <2>0, <2>1, <4>1, <4>2
    <3> QED BY <3>1, <3>2
  <2> QED BY <2>2, <2>3, <2>4, <2>5
<1>7. CASE LandFail(p)
  <2>1. Outcome(p) /\ pc[p] \notin Free \cup Unbuilt
    BY <1>7 DEF LandFail, Outcome, Unbuilt
  <2>2. pc'[p] \in KnowsLanded => receipt[txn[p]] = cand[p]
    BY <1>0, <1>7 DEF LandFail, Drift, Reject, Proceed, KnowsLanded, TypeLocal
  <2> QED BY <1>7, <2>1, <2>2, OutcomeSafe DEF LandFail
<1>8. CASE RecordLanded(p)
  <2>0. \A u \in Txn : journal'[u].cand # None => OnBase(u, journal'[u].cand)
    BY <1>0, <1>8, AppendSafe DEF RecordLanded, Unbuilt
  <2>1. GitOK' /\ ReceiptInTarget' /\ CloseHasReceipt'
    BY <1>8 DEF RecordLanded, GitOK, ReceiptInTarget, CloseHasReceipt
  <2>2. Evidence'
    BY <1>8, <2>0 DEF RecordLanded, Evidence, OnBase
  <2>3. LocalEvidence'
    BY <1>0, <1>8
       DEF RecordLanded, Release, TargetLanded, Cleaned, LocalEvidence, GitOK, OnBase,
           Unbuilt, TypeLocal, TypeFiles
  <2>4. ReceiptKnown'
    BY <1>0, <1>8
       DEF RecordLanded, Release, TargetLanded, Cleaned, ReceiptKnown, KnowsLanded,
           TypeLocal
  <2> QED BY <2>1, <2>2, <2>3, <2>4
<1> QED BY <1>1, <1>2, <1>3, <1>4, <1>5, <1>6, <1>7, <1>8 DEF LandCandidate

\* Cleanup and close, by the process that landed the candidate.
LEMMA SettleSafe == ASSUME Inv, NEW p \in Proc, Settle(p) PROVE Safe'
<1> USE LandingAssumption
   DEF git, files, work, local, Goto, LeaveTo, Leave, Free, Inv, Safe
<1>0. /\ WellFormed /\ TypeGit /\ TypeFiles /\ TypeLocal
      /\ pc[p] \notin Free => txn[p] \in Txn /\ txn[p] # None
      /\ pc[p] \notin Free \cup Unbuilt => cand[p] \in Oid /\ OnBase(txn[p], cand[p])
  BY Held, TxnParts DEF WellFormed, TypeOK, LocalEvidence
<1>1. CASE DropWorktree(p)
  <2>1. GitOK' /\ ReceiptInTarget' /\ CloseHasReceipt'
    BY <1>0, <1>1 DEF DropWorktree, GitOK, ReceiptInTarget, CloseHasReceipt, TypeRest
  <2>2. Evidence'
    BY <1>0, <1>1 DEF DropWorktree, Evidence, OnBase, Unbuilt, TypeGit, TypeFiles
  <2>3. LocalEvidence'
    BY <1>0, <1>1
       DEF DropWorktree, LocalEvidence, GitOK, OnBase, Unbuilt, TypeLocal, TypeFiles
  <2>4. ReceiptKnown'
    BY <1>0, <1>1 DEF DropWorktree, ReceiptKnown, KnowsLanded, TypeLocal
  <2> QED BY <2>1, <2>2, <2>3, <2>4
<1>2. CASE RecordCleaned(p)
  <2>0. \A u \in Txn : journal'[u].cand # None => OnBase(u, journal'[u].cand)
    BY <1>0, <1>2, AppendSafe DEF RecordCleaned, Unbuilt
  <2>1. GitOK' /\ ReceiptInTarget' /\ CloseHasReceipt'
    BY <1>2 DEF RecordCleaned, GitOK, ReceiptInTarget, CloseHasReceipt
  <2>2. Evidence'
    BY <1>2, <2>0 DEF RecordCleaned, Evidence, OnBase
  <2>3. LocalEvidence'
    BY <1>0, <1>2
       DEF RecordCleaned, Cleaned, LocalEvidence, GitOK, OnBase, Unbuilt, TypeLocal,
           TypeFiles
  <2>4. ReceiptKnown'
    BY <1>0, <1>2 DEF RecordCleaned, Cleaned, ReceiptKnown, KnowsLanded, TypeLocal
  <2> QED BY <2>1, <2>2, <2>3, <2>4
<1>3. CASE CloseTask(p)
  <2>0. /\ txn[p] \in Txn /\ TaskOf(txn[p]) \in Task /\ receipt[txn[p]] = cand[p]
    BY <1>0, <1>3, TxnParts DEF CloseTask, ReceiptKnown, KnowsLanded
  <2>1. CloseHasReceipt'
    <3>0. UNCHANGED beads
          \/ beads' = [beads EXCEPT ![TaskOf(txn[p])] = [txn |-> txn[p], cand |-> cand[p]]]
      BY <1>3 DEF CloseTask, WriteClose
    <3>1. \A a \in Task : beads'[a] = beads[a]
                          \/ (a = TaskOf(txn[p]) /\ beads'[a] = [txn |-> txn[p], cand |-> cand[p]])
      BY <2>0, <3>0 DEF WellFormed, TypeOK, TypeRest
    <3> QED BY <1>3, <2>0, <3>1 DEF CloseTask, CloseHasReceipt
  <2>2. GitOK' /\ ReceiptInTarget' /\ Evidence' /\ LocalEvidence'
    BY <1>3 DEF CloseTask, GitOK, ReceiptInTarget, Evidence, LocalEvidence, OnBase
  <2>3. ReceiptKnown'
    BY <1>0, <1>3 DEF CloseTask, ReceiptKnown, KnowsLanded, TypeLocal
  <2> QED BY <2>1, <2>2, <2>3
<1>4. CASE CloseFail(p)
  <2>1. GitOK' /\ ReceiptInTarget' /\ CloseHasReceipt'
    BY <1>0, <1>4 DEF CloseFail, Fail, GitOK, ReceiptInTarget, CloseHasReceipt, TypeRest
  <2>2. Evidence'
    BY <1>0, <1>4 DEF CloseFail, Fail, Evidence, OnBase, Unbuilt, TypeGit, TypeFiles
  <2>3. LocalEvidence'
    BY <1>0, <1>4
       DEF CloseFail, Fail, LocalEvidence, GitOK, OnBase, Unbuilt, TypeLocal, TypeFiles
  <2>4. ReceiptKnown'
    BY <1>0, <1>4 DEF CloseFail, Fail, ReceiptKnown, KnowsLanded, TypeLocal
  <2> QED BY <2>1, <2>2, <2>3, <2>4
<1>5. CASE RecordClosed(p)
  <2>0. \A u \in Txn : journal'[u].cand # None => OnBase(u, journal'[u].cand)
    BY <1>0, <1>5, AppendSafe DEF RecordClosed, Unbuilt
  <2>1. GitOK' /\ ReceiptInTarget' /\ CloseHasReceipt'
    BY <1>5 DEF RecordClosed, GitOK, ReceiptInTarget, CloseHasReceipt
  <2>2. Evidence'
    BY <1>5, <2>0 DEF RecordClosed, Evidence, OnBase
  <2>3. LocalEvidence'
    <3>1. cand[p] \in objects
      BY <1>0, <1>5 DEF RecordClosed, Unbuilt, OnBase, Contains
    <3>2. /\ UNCHANGED pred \/ pred' = [pred EXCEPT ![p] = cand[p]]
          /\ UNCHANGED <<objects, history>>
          /\ \/ UNCHANGED <<txn, cand>>
             \/ txn' = [txn EXCEPT ![p] = None] /\ cand' = [cand EXCEPT ![p] = None]
      BY <1>5 DEF RecordClosed
    <3> QED BY <1>0, <3>1, <3>2 DEF LocalEvidence, OnBase, TypeLocal
  <2>4. ReceiptKnown'
    BY <1>0, <1>5 DEF RecordClosed, ReceiptKnown, KnowsLanded, TypeLocal
  <2> QED BY <2>1, <2>2, <2>3, <2>4
<1> QED BY <1>1, <1>2, <1>3, <1>4, <1>5 DEF Settle

\* Reconciliation closes only what a receipt proves landed.
LEMMA ReconcileSafe == ASSUME Inv, NEW p \in Proc, Reconcile(p) PROVE Safe'
<1> USE LandingAssumption
   DEF git, files, work, local, Goto, LeaveTo, Leave, Free, Inv, Safe
<1>0. /\ WellFormed /\ TypeGit /\ TypeFiles /\ TypeLocal
      /\ pc[p] \notin Free => txn[p] \in Txn /\ txn[p] # None
      /\ pc[p] \notin Free \cup Unbuilt => cand[p] \in Oid /\ OnBase(txn[p], cand[p])
  BY Held, TxnParts DEF WellFormed, TypeOK, LocalEvidence
<1>1. CASE StartScan(p)
  <2>1. GitOK' /\ ReceiptInTarget' /\ CloseHasReceipt'
    BY <1>0, <1>1
       DEF StartScan, Listed, GitOK, ReceiptInTarget, CloseHasReceipt, TypeRest
  <2>2. Evidence'
    BY <1>0, <1>1 DEF StartScan, Listed, Evidence, OnBase, Unbuilt, TypeGit, TypeFiles
  <2>3. LocalEvidence'
    BY <1>0, <1>1
       DEF StartScan, Listed, LocalEvidence, GitOK, OnBase, Unbuilt, TypeLocal,
           TypeFiles
  <2>4. ReceiptKnown'
    BY <1>0, <1>1 DEF StartScan, Listed, ReceiptKnown, KnowsLanded, TypeLocal
  <2> QED BY <2>1, <2>2, <2>3, <2>4
<1>2. CASE Examine(p)
  <2>1. GitOK' /\ ReceiptInTarget' /\ CloseHasReceipt'
    BY <1>2 DEF Examine, GitOK, ReceiptInTarget, CloseHasReceipt
  <2>2. PICK t \in todo[p] : Examine(p)!2!(t)
    BY <1>2 DEF Examine
  <2>3. t \in Txn /\ t # None
    BY <1>0, TxnParts DEF TypeLocal
  <2>4. Evidence'
    <3>1. \A u \in Txn : \/ journal'[u].cand = journal[u].cand
                         \/ u = t /\ journal'[u].cand = CandidateOid(t)
      BY <1>0, <2>2, <2>3 DEF Reconstruct, Reduce, TypeFiles
    <3>2. \A u \in Txn : journal'[u].cand # None => OnBase(u, journal'[u].cand)
      BY <2>3, <3>1, CandidateOnBase DEF Evidence
    <3> QED BY <1>2, <3>2 DEF Examine, Evidence, OnBase
  <2>5. \/ UNCHANGED <<txn, cand>> /\ (UNCHANGED pc \/ pc' = [pc EXCEPT ![p] = "down"])
        \/ /\ txn' = [txn EXCEPT ![p] = t] /\ cand' = [cand EXCEPT ![p] = CandidateOid(t)]
           /\ CandidateOid(t) # None
           /\ \/ pc' = [pc EXCEPT ![p] = "close_scan"] /\ Landed(t)
              \/ pc' = [pc EXCEPT ![p] = "drop_scan"]
    BY <2>2, LandedCandidate
  <2>6. LocalEvidence'
    <3>1. CASE UNCHANGED <<txn, cand>>
      BY <1>2, <3>1 DEF Examine, LocalEvidence, OnBase
    <3>2. CASE /\ txn' = [txn EXCEPT ![p] = t] /\ cand' = [cand EXCEPT ![p] = CandidateOid(t)]
               /\ CandidateOid(t) # None
      <4>1. OnBase(t, CandidateOid(t)) /\ BaseOf(t) \in objects
        BY <2>3, <3>2, CandidateOnBase DEF OnBase, Contains
      <4>2. txn'[p] = t /\ cand'[p] = CandidateOid(t)
            /\ \A q \in Proc \ {p} : txn'[q] = txn[q] /\ cand'[q] = cand[q]
        BY <1>0, <3>2 DEF TypeLocal
      <4> QED BY <1>2, <2>3, <4>1, <4>2 DEF Examine, LocalEvidence, OnBase
    <3> QED BY <2>5, <3>1, <3>2
  <2>7. ReceiptKnown'
    BY <1>0, <1>2, <2>5, LandedCandidate
       DEF Examine, ReceiptKnown, KnowsLanded, TypeLocal
  <2> QED BY <2>1, <2>4, <2>6, <2>7
<1>3. CASE CloseScanned(p)
  <2>0. /\ txn[p] \in Txn /\ TaskOf(txn[p]) \in Task /\ receipt[txn[p]] = cand[p]
    BY <1>0, <1>3, TxnParts DEF CloseScanned, ReceiptKnown, KnowsLanded
  <2>1. CloseHasReceipt'
    <3>0. UNCHANGED beads
          \/ beads' = [beads EXCEPT ![TaskOf(txn[p])] = [txn |-> txn[p], cand |-> cand[p]]]
      BY <1>3 DEF CloseScanned, WriteClose
    <3>1. \A a \in Task : beads'[a] = beads[a]
                          \/ (a = TaskOf(txn[p]) /\ beads'[a] = [txn |-> txn[p], cand |-> cand[p]])
      BY <2>0, <3>0 DEF WellFormed, TypeOK, TypeRest
    <3> QED BY <1>3, <2>0, <3>1 DEF CloseScanned, CloseHasReceipt
  <2>2. GitOK' /\ ReceiptInTarget' /\ Evidence' /\ LocalEvidence'
    BY <1>3 DEF CloseScanned, GitOK, ReceiptInTarget, Evidence, LocalEvidence, OnBase
  <2>3. ReceiptKnown'
    BY <1>0, <1>3 DEF CloseScanned, ReceiptKnown, KnowsLanded, TypeLocal
  <2> QED BY <2>1, <2>2, <2>3
<1>4. CASE CloseScannedFail(p)
  <2>1. GitOK' /\ ReceiptInTarget' /\ CloseHasReceipt'
    BY <1>0, <1>4
       DEF CloseScannedFail, Fail, GitOK, ReceiptInTarget, CloseHasReceipt, TypeRest
  <2>2. Evidence'
    BY <1>0, <1>4
       DEF CloseScannedFail, Fail, Evidence, OnBase, Unbuilt, TypeGit, TypeFiles
  <2>3. LocalEvidence'
    BY <1>0, <1>4
       DEF CloseScannedFail, Fail, LocalEvidence, GitOK, OnBase, Unbuilt, TypeLocal,
           TypeFiles
  <2>4. ReceiptKnown'
    BY <1>0, <1>4 DEF CloseScannedFail, Fail, ReceiptKnown, KnowsLanded, TypeLocal
  <2> QED BY <2>1, <2>2, <2>3, <2>4
<1>5. CASE EndScan(p)
  <2>1. GitOK' /\ ReceiptInTarget' /\ CloseHasReceipt'
    BY <1>0, <1>5 DEF EndScan, GitOK, ReceiptInTarget, CloseHasReceipt, TypeRest
  <2>2. Evidence'
    BY <1>0, <1>5 DEF EndScan, Evidence, OnBase, Unbuilt, TypeGit, TypeFiles
  <2>3. LocalEvidence'
    BY <1>0, <1>5
       DEF EndScan, LocalEvidence, GitOK, OnBase, Unbuilt, TypeLocal, TypeFiles
  <2>4. ReceiptKnown'
    BY <1>0, <1>5 DEF EndScan, ReceiptKnown, KnowsLanded, TypeLocal
  <2> QED BY <2>1, <2>2, <2>3, <2>4
<1> QED BY <1>1, <1>2, <1>3, <1>4, <1>5 DEF Reconcile

\* A crash loses local state and may tear a journal line, nothing else.
LEMMA CrashSafe == ASSUME Inv, NEW p \in Proc, Crash(p) PROVE Safe'
<1> USE DEF Inv, Safe, git, LeaveTo, Goto
<1>0. TypeLocal
  BY DEF WellFormed, TypeOK
<1>1. GitOK' /\ ReceiptInTarget' /\ CloseHasReceipt' /\ Evidence'
  BY DEF Crash, GitOK, ReceiptInTarget, CloseHasReceipt, Evidence, OnBase
<1>2. LocalEvidence'
  BY <1>0 DEF Crash, LocalEvidence, OnBase, TypeLocal
<1>3. ReceiptKnown'
  BY <1>0 DEF Crash, ReceiptKnown, KnowsLanded, TypeLocal
<1> QED BY <1>1, <1>2, <1>3

-----------------------------------------------------------------------------
(* The theorems *)

\* The invariant is inductive.
LEMMA InvStep == Inv /\ [Next]_vars => Inv'
<1> SUFFICES ASSUME Inv, [Next]_vars PROVE Inv'
  OBVIOUS
<1>1. WellFormed'
  BY WellFormedStep DEF Inv
<1>2. CASE \E p \in Proc : Step(p)
  BY <1>1, <1>2, BuildSafe, VerifySafe, LandCandidateSafe, SettleSafe, ReconcileSafe
     DEF Step, Inv
<1>3. CASE \E p \in Proc : Crash(p)
  BY <1>1, <1>3, CrashSafe DEF Inv
<1>4. CASE Advance
  BY <1>1, <1>4, AdvanceSafe DEF Inv
<1>5. CASE UNCHANGED vars
  BY <1>1, <1>5
     DEF vars, git, files, local, work, Inv, Safe, GitOK, Evidence, LocalEvidence,
                    ReceiptKnown, ReceiptInTarget, CloseHasReceipt, OnBase
<1> QED BY <1>2, <1>3, <1>4, <1>5 DEF Next

\* The inductive invariant of the landing plane.
THEOREM InvHolds == Spec => []Inv
<1>1. Init => Inv
  BY InitType, InitSafe DEF Inv
<1> QED BY <1>1, InvStep, PTL DEF Spec

\* A receipt names a candidate that is contained in the publish target,
\* whatever the processes, crashes and moves of the target do.
THEOREM ReceiptsHold == Spec => []ReceiptInTarget
<1>1. Inv => ReceiptInTarget
  BY DEF Inv, Safe
<1> QED BY <1>1, InvHolds, PTL

\* A task is closed only with a transaction whose receipt names the candidate.
THEOREM ClosesHold == Spec => []CloseHasReceipt
<1>1. Inv => CloseHasReceipt
  BY DEF Inv, Safe
<1> QED BY <1>1, InvHolds, PTL

\* Only a landing moves the target, only merges and agents make commits.
LEMMA QuietSteps ==
    ASSUME NEW p \in Proc, Step(p)
    PROVE  \/ UNCHANGED <<history, target>>
           \/ Land(p) \/ Merge(p) \/ AgentCommit(p)
<1> USE DEF git
<1>1. CASE Build(p)
  BY <1>1 DEF Build, Begin, Rebuild, RefuseIncident, Restore, Open, OpenTorn, MergeFail,
         WriteManifest, WriteRef, RecordCreated, Pin
<1>2. CASE Verify(p)
  BY <1>2 DEF Verify, VerifyPass, VerifyFail, StartRepair, EndRepair, ExhaustRepairs,
         BindVerification, RecordVerified
<1>3. CASE LandCandidate(p)
  BY <1>3 DEF LandCandidate, QueueBlocked, ObserveLease, WriteLease, ConfirmLease,
         CheckCommit, LandFail, RecordLanded
<1>4. CASE Settle(p)
  BY <1>4 DEF Settle, DropWorktree, RecordCleaned, CloseTask, CloseFail, RecordClosed
<1>5. CASE Reconcile(p)
  BY <1>5 DEF Reconcile, StartScan, Examine, CloseScanned, CloseScannedFail, EndScan
<1> QED BY <1>1, <1>2, <1>3, <1>4, <1>5 DEF Step

\* A step only adds to what the target contains.
LEMMA TargetGrows == ASSUME Inv, Next PROVE history[target] \subseteq history'[target']
<1> USE DEF Inv, Safe
<1>0. target \in objects
  BY DEF GitOK
<1>1. ASSUME NEW h \in objects, NEW X, NewCommit(h, X)
      PROVE  /\ history'[target] = history[target]
             /\ history'[Fresh] = history[h] \cup {Fresh} \cup X
  BY <1>0, <1>1, NewCommitGrows DEF WellFormed, TypeOK
<1>2. CASE Advance
  BY <1>0, <1>1, <1>2 DEF Advance
<1>3. ASSUME NEW p \in Proc, Land(p) PROVE history[target] \subseteq history'[target']
  <2>1. cand[p] # None
    BY <1>3, LandingAssumption DEF Land, WellFormed, LocalOK, Free, Unbuilt
  <2> QED BY <1>3, <2>1 DEF Land, CasHolds, LocalEvidence, OnBase, Contains
<1>4. ASSUME NEW p \in Proc, NEW X, NewCommit(worktree[txn[p]], X),
             worktree[txn[p]] # None, txn[p] \in Txn, target' = target
      PROVE  history[target] \subseteq history'[target']
  <2>1. worktree[txn[p]] \in objects
    BY <1>4 DEF Evidence, OnBase, Contains
  <2> QED BY <1>1, <1>4, <2>1
<1>5. ASSUME NEW p \in Proc, Merge(p) PROVE history[target] \subseteq history'[target']
  <2>1. txn[p] \in Txn
    BY <1>5, Held DEF Merge, Free
  <2> QED BY <1>4, <1>5, <2>1 DEF Merge
<1>6. ASSUME NEW p \in Proc, AgentCommit(p) PROVE history[target] \subseteq history'[target']
  <2>1. txn[p] \in Txn
    BY <1>6, Held DEF AgentCommit, Free
  <2> QED BY <1>4, <1>6, <2>1 DEF AgentCommit
<1>7. ASSUME NEW p \in Proc, Step(p) PROVE history[target] \subseteq history'[target']
  BY <1>3, <1>5, <1>6, <1>7, QuietSteps
<1>8. ASSUME NEW p \in Proc, Crash(p) PROVE history[target] \subseteq history'[target']
  BY <1>8 DEF Crash, git
<1> QED BY <1>2, <1>7, <1>8 DEF Next

\* No step of anybody removes from the publish target what it contained.
THEOREM NothingLost == Spec => LandedNeverLost
<1>1. Inv /\ [Next]_vars => [history[target] \subseteq history'[target']]_vars
  BY TargetGrows
<1> QED BY <1>1, InvHolds, PTL DEF Spec, LandedNeverLost

-----------------------------------------------------------------------------
(***************************************************************************)
(* A task lands at most once and no journal runs ahead of the evidence, as *)
(* long as no two processes claim a task and no reconciliation was cut     *)
(* short by an integrity incident.                                         *)
(*                                                                         *)
(* The argument: a batch is selected at the end of a reconciliation that   *)
(* came to every landing of the claimed tasks (Reviewed), so what is not   *)
(* closed by then has not landed; from there to the CAS nobody else can    *)
(* land the task (Owns), so it has still not landed (Unlanded).            *)
(***************************************************************************)

\* A process is on its way to a landing of its task ...
Working == {"pin", "building", "merged", "manifested", "reffed", "created", "verified",
            "unverified", "repairing", "repaired", "bound", "ready", "acquiring",
            "confirming", "commit", "cas", "drop_drift", "mark_drift", "rebuild"}

\* ... or at work on a task of its batch at all.
Merging == Working \cup {"drop_fail", "mark_fail", "landed", "drop_land", "mark_land",
                         "close", "note"}

\* A process reconciles.
Scanning == {"scan", "close_scan", "note_scan", "drop_scan", "mark_scan"}

LandedTask(a) == \E t \in Txn : TaskOf(t) = a /\ receipt[t] # None

\* A process works on tasks it claims, each taken out of its batch.
Owns ==
    \A p \in Proc :
        /\ batch[p] \subseteq Claims[p]
        /\ pc[p] \in Merging => TaskOf(txn[p]) \in Claims[p] \ batch[p]

\* What is in a batch, or on its way to a landing, has not landed before.
Unlanded ==
    \A p \in Proc :
        /\ \A a \in batch[p] : ~LandedTask(a)
        /\ pc[p] \in Working => ~LandedTask(TaskOf(txn[p]))

\* The reconciliation of p has yet to come to the landing t, or Beads shows it.
InSight(p, t) ==
    t \in todo[p] \/ beads[TaskOf(t)] # None \/ (pc[p] = "close_scan" /\ txn[p] = t)

\* A reconciliation comes to every landing of the tasks the process claims.
Reviewed ==
    \A p \in Proc : pc[p] \in Scanning =>
        \A t \in Txn : TaskOf(t) \in Claims[p] /\ receipt[t] # None => InSight(p, t)

Selection == Owns /\ (~cutShort => Unlanded /\ Reviewed /\ AtMostOneLanding)

\* A process that is to record a close in the journal has written it to Beads.
Noted == \A p \in Proc : pc[p] \in {"note", "note_scan"} => MatchingClose(txn[p], cand[p])

Records == ~cutShort => Noted /\ JournalNeverAhead

OnceInv == Inv /\ Selection /\ Records

-----------------------------------------------------------------------------
(* Selection *)

\* The metadata of a close is not mistaken for a missing close.
LEMMA ClosedIsSome ==
    ASSUME NEW t \in Txn, NEW c \in MaybeOid
    PROVE  [txn |-> t, cand |-> c] # None
BY LandingAssumption DEF Txn, MaybeOid

\* A close names a candidate.
LEMMA CloseNames ==
    ASSUME TypeGit, TypeRest, NEW t \in Txn, MatchingClose(t, receipt[t])
    PROVE  receipt[t] # None
<1>1. TaskOf(t) \in Task /\ receipt[t] \in MaybeOid
  BY TxnParts DEF TypeGit
<1>2. [txn |-> t, cand |-> receipt[t]] \in Close
  BY <1>1, ClosedIsSome DEF MatchingClose, TypeRest
<1> QED BY <1>2, LandingAssumption DEF Close

\* A step of p leaves the local state of the others alone.
OthersKept(p) ==
    \A q \in Proc \ {p} :
        /\ pc'[q] = pc[q] /\ txn'[q] = txn[q] /\ cand'[q] = cand[q]
        /\ batch'[q] = batch[q] /\ todo'[q] = todo[q]

\* The step lands nothing, selects nothing and takes no close back.
Quiet(p) ==
    /\ UNCHANGED <<receipt, cutShort>>
    /\ batch'[p] \subseteq batch[p]
    /\ \A a \in Task : beads'[a] = None => beads[a] = None
    /\ pc'[p] \in Working => pc[p] \in Working /\ TaskOf(txn'[p]) = TaskOf(txn[p])
    /\ pc'[p] \in Merging => pc[p] \in Merging /\ TaskOf(txn'[p]) = TaskOf(txn[p])
    /\ pc'[p] \in Scanning =>
         pc[p] \in Scanning /\ pc[p] # "close_scan" /\ todo'[p] = todo[p]

\* Such a step disturbs nothing the selection rests on.
LEMMA QuietKeeps ==
    ASSUME Inv, Selection, NEW p \in Proc, OthersKept(p), Quiet(p)
    PROVE  Selection'
<1>1. Owns'
  BY DEF Selection, Owns, OthersKept, Quiet
<1>2. \A a : LandedTask(a)' = LandedTask(a)
  BY DEF LandedTask, Quiet
<1>3. Unlanded => Unlanded'
  BY <1>2 DEF Unlanded, OthersKept, Quiet
<1>4. Reviewed => Reviewed'
  <2> SUFFICES ASSUME Reviewed, NEW q \in Proc, pc'[q] \in Scanning, NEW t \in Txn,
                      TaskOf(t) \in Claims[q], receipt'[t] # None
               PROVE  InSight(q, t)'
    BY DEF Reviewed
  <2>1. InSight(q, t) /\ TaskOf(t) \in Task
    BY TxnParts DEF Reviewed, OthersKept, Quiet
  <2> QED BY <2>1 DEF InSight, OthersKept, Quiet
<1>5. AtMostOneLanding => AtMostOneLanding'
  BY DEF AtMostOneLanding, Quiet
<1>6. cutShort' = cutShort
  BY DEF Quiet
<1> QED BY <1>1, <1>3, <1>4, <1>5, <1>6 DEF Selection

\* Building a candidate neither lands nor closes, and stays with its task.
LEMMA BuildQuiet ==
    ASSUME Inv, NEW p \in Proc, Build(p), ~Begin(p)
    PROVE  OthersKept(p) /\ Quiet(p)
<1> USE DEF OthersKept, Quiet, Working, Merging, Scanning, git, files, ghost, work, local, Goto, LeaveTo, Leave
<1>0. TypeLocal /\ TypeRest
  BY DEF Inv, WellFormed, TypeOK
<1>1. CASE Rebuild(p)
  <2>1. TaskOf(txn'[p]) = TaskOf(txn[p])
    BY <1>0, <1>1 DEF Rebuild, Pin, TaskOf, TypeLocal
  <2> QED BY <1>0, <1>1, <2>1 DEF Rebuild, Pin, TypeLocal
<1>2. CASE RefuseIncident(p)
  BY <1>0, <1>2 DEF RefuseIncident, TypeLocal
<1>3. CASE Restore(p)
  BY <1>0, <1>3 DEF Restore, TypeLocal
<1>4. CASE Open(p)
  BY <1>0, <1>4 DEF Open, TypeLocal
<1>5. CASE OpenTorn(p)
  BY <1>0, <1>5 DEF OpenTorn, TypeLocal
<1>6. CASE Merge(p)
  BY <1>0, <1>6 DEF Merge, TypeLocal
<1>7. CASE MergeFail(p)
  BY <1>0, <1>7 DEF MergeFail, Fail, TypeLocal
<1>8. CASE WriteManifest(p)
  BY <1>0, <1>8 DEF WriteManifest, TypeLocal
<1>9. CASE WriteRef(p)
  BY <1>0, <1>9 DEF WriteRef, TypeLocal
<1>10. CASE RecordCreated(p)
  BY <1>0, <1>10 DEF RecordCreated, TypeLocal
<1> QED BY <1>1, <1>2, <1>3, <1>4, <1>5, <1>6, <1>7, <1>8, <1>9, <1>10 DEF Build

\* Verification and repair stay with the task.
LEMMA VerifyQuiet ==
    ASSUME Inv, NEW p \in Proc, Verify(p)
    PROVE  OthersKept(p) /\ Quiet(p)
<1> USE DEF OthersKept, Quiet, Working, Merging, Scanning, git, files, ghost, work, local, Goto, LeaveTo, Leave
<1>0. TypeLocal /\ TypeRest
  BY DEF Inv, WellFormed, TypeOK
<1>1. CASE VerifyPass(p)
  BY <1>0, <1>1 DEF VerifyPass, TypeLocal
<1>2. CASE VerifyFail(p)
  BY <1>0, <1>2 DEF VerifyFail, Fail, TypeLocal
<1>3. CASE StartRepair(p)
  BY <1>0, <1>3 DEF StartRepair, TypeLocal
<1>4. CASE AgentCommit(p)
  BY <1>0, <1>4 DEF AgentCommit, TypeLocal
<1>5. CASE EndRepair(p)
  BY <1>0, <1>5 DEF EndRepair, Fail, TypeLocal
<1>6. CASE ExhaustRepairs(p)
  BY <1>0, <1>6 DEF ExhaustRepairs, TypeLocal
<1>7. CASE BindVerification(p)
  BY <1>0, <1>7 DEF BindVerification, TypeLocal
<1>8. CASE RecordVerified(p)
  BY <1>0, <1>8 DEF RecordVerified, TypeLocal
<1> QED BY <1>1, <1>2, <1>3, <1>4, <1>5, <1>6, <1>7, <1>8 DEF Verify

\* An attempt to land stays with its task until the references move.
LEMMA LandCandidateQuiet ==
    ASSUME Inv, NEW p \in Proc, LandCandidate(p), ~Land(p)
    PROVE  OthersKept(p) /\ Quiet(p)
<1> USE DEF OthersKept, Quiet, Working, Merging, Scanning, git, files, ghost, work, local, Goto, LeaveTo, Leave
<1>0. TypeLocal /\ TypeRest
  BY DEF Inv, WellFormed, TypeOK
<1>1. CASE QueueBlocked(p)
  BY <1>0, <1>1 DEF QueueBlocked, Fail, TypeLocal
<1>2. CASE ObserveLease(p)
  BY <1>0, <1>2 DEF ObserveLease, TypeLocal
<1>3. CASE WriteLease(p)
  BY <1>0, <1>3 DEF WriteLease, TypeLocal
<1>4. CASE ConfirmLease(p)
  BY <1>0, <1>4 DEF ConfirmLease, Drift, Reject, Proceed, TypeLocal
<1>5. CASE CheckCommit(p)
  BY <1>0, <1>5 DEF CheckCommit, Drift, Reject, Proceed, TypeLocal
<1>6. CASE LandFail(p)
  BY <1>0, <1>6 DEF LandFail, Drift, Reject, Proceed, TypeLocal
<1>7. CASE RecordLanded(p)
  BY <1>0, <1>7 DEF RecordLanded, TypeLocal
<1> QED BY <1>1, <1>2, <1>3, <1>4, <1>5, <1>6, <1>7 DEF LandCandidate

\* Cleaning up and closing start no landing.
LEMMA SettleQuiet ==
    ASSUME Inv, NEW p \in Proc, Settle(p)
    PROVE  OthersKept(p) /\ Quiet(p)
<1> USE DEF OthersKept, Quiet, Working, Merging, Scanning, git, files, ghost, work, local, Goto, LeaveTo, Leave
<1>0. TypeLocal /\ TypeRest
  BY DEF Inv, WellFormed, TypeOK
<1>1. CASE DropWorktree(p)
  BY <1>0, <1>1 DEF DropWorktree, TypeLocal
<1>2. CASE RecordCleaned(p)
  BY <1>0, <1>2 DEF RecordCleaned, TypeLocal
<1>3. CASE CloseTask(p)
  <2>1. \A a \in Task : beads'[a] = None => beads[a] = None
    BY <1>0, <1>3, ClosedIsSome, Held DEF CloseTask, WriteClose, TypeRest, Inv, Free, Unbuilt, MaybeOid
  <2> QED BY <1>0, <1>3, <2>1 DEF CloseTask, TypeLocal
<1>4. CASE CloseFail(p)
  BY <1>0, <1>4 DEF CloseFail, Fail, TypeLocal
<1>5. CASE RecordClosed(p)
  BY <1>0, <1>5 DEF RecordClosed, TypeLocal
<1> QED BY <1>1, <1>2, <1>3, <1>4, <1>5 DEF Settle

\* A bd error ends a reconciliation.
LEMMA ReconcileQuiet ==
    ASSUME Inv, NEW p \in Proc, Reconcile(p), ~StartScan(p), ~Examine(p), ~CloseScanned(p), ~EndScan(p)
    PROVE  OthersKept(p) /\ Quiet(p)
<1> USE DEF OthersKept, Quiet, Working, Merging, Scanning, git, files, ghost, work, local, Goto, LeaveTo, Leave
<1>0. TypeLocal /\ TypeRest
  BY DEF Inv, WellFormed, TypeOK
<1>1. CASE CloseScannedFail(p)
  BY <1>0, <1>1 DEF CloseScannedFail, Fail, TypeLocal
<1> QED BY <1>1 DEF Reconcile

\* What a reconciliation comes to next.
LEMMA StartScanOnce ==
    ASSUME Inv, Selection, NEW p \in Proc, StartScan(p) PROVE Selection'
<1> USE DEF StartScan, Goto, git, files, work, ghost
<1>0. TypeLocal
  BY DEF Inv, WellFormed, TypeOK
<1>1. Owns'
  BY <1>0 DEF Selection, Owns, TypeLocal, Merging, Working
<1>2. \A a : LandedTask(a)' = LandedTask(a)
  BY DEF LandedTask
<1>3. Unlanded => Unlanded'
  BY <1>0, <1>2 DEF Unlanded, TypeLocal, Working
<1>4. Reviewed => Reviewed'
  <2> SUFFICES ASSUME Reviewed, NEW q \in Proc, pc'[q] \in Scanning, NEW t \in Txn,
                      TaskOf(t) \in Claims[q], receipt[t] # None
               PROVE  InSight(q, t)'
    BY DEF Reviewed
  <2>1. CASE q = p
    BY <1>0, <2>1 DEF InSight, Listed, TypeLocal
  <2>2. CASE q # p
    BY <1>0, <2>2 DEF InSight, Reviewed, TypeLocal
  <2> QED BY <2>1, <2>2
<1>5. AtMostOneLanding => AtMostOneLanding'
  BY DEF AtMostOneLanding
<1> QED BY <1>1, <1>3, <1>4, <1>5 DEF Selection

\* The next task of the batch has not landed.
LEMMA BeginOnce ==
    ASSUME Inv, Selection, NEW p \in Proc, Begin(p) PROVE Selection'
<1> USE DEF Begin, Pin, Goto, git, files, work, ghost
<1>0. TypeLocal
  BY DEF Inv, WellFormed, TypeOK
<1>p. PICK a \in batch[p] : Pin(p, a) /\ batch' = [batch EXCEPT ![p] = @ \ {a}]
  OBVIOUS
<1>1. /\ TaskOf(txn'[p]) = a
      /\ pc' = [pc EXCEPT ![p] = "pin"]
      /\ \A q \in Proc \ {p} : txn'[q] = txn[q]
  BY <1>0, <1>p DEF TaskOf, TypeLocal
<1>2. Owns'
  BY <1>0, <1>p, <1>1 DEF Selection, Owns, TypeLocal
<1>3. \A b : LandedTask(b)' = LandedTask(b)
  BY DEF LandedTask
<1>4. Unlanded => Unlanded'
  BY <1>0, <1>p, <1>1, <1>3 DEF Unlanded, TypeLocal
<1>5. Reviewed => Reviewed'
  BY <1>0, <1>p, <1>1 DEF Reviewed, InSight, TypeLocal, Scanning
<1>6. AtMostOneLanding => AtMostOneLanding'
  BY DEF AtMostOneLanding
<1> QED BY <1>2, <1>4, <1>5, <1>6 DEF Selection

\* One transaction of a reconciliation: a landing is either closed or will be, by the
\* very process; an integrity incident is the exception.
LEMMA ExamineOnce ==
    ASSUME Inv, Selection, NEW p \in Proc, Examine(p) PROVE Selection'
<1>0. TypeLocal /\ pc[p] = "scan" /\ UNCHANGED <<receipt, beads, batch>>
  BY DEF Inv, WellFormed, TypeOK, Examine, git
<1>1. PICK t \in todo[p] : Examine(p)!2!(t)
  BY DEF Examine
<1>2. t \in Txn
  BY <1>0 DEF TypeLocal
<1>3. /\ pc'[p] \notin Merging
      /\ \A q \in Proc \ {p} : pc'[q] = pc[q] /\ txn'[q] = txn[q] /\ todo'[q] = todo[q]
  BY <1>0, <1>1 DEF TypeLocal, Merging, Working, Goto
<1>4. Owns'
  BY <1>0, <1>3 DEF Selection, Owns
<1>5. \A a : LandedTask(a)' = LandedTask(a)
  BY <1>0 DEF LandedTask
<1>6. Unlanded => Unlanded'
  BY <1>0, <1>3, <1>5 DEF Unlanded, Merging
<1>7. AtMostOneLanding => AtMostOneLanding'
  BY <1>0 DEF AtMostOneLanding
<1>8. CASE IntegrityIncident(t)
  <2>1. cutShort'
    BY <1>1, <1>8
  <2> QED BY <1>4, <2>1 DEF Selection
<1>9. CASE ~IntegrityIncident(t)
  <2>1. cutShort' = cutShort
    BY <1>1, <1>9
  <2>2. ASSUME Reviewed, NEW q \in Proc, pc'[q] \in Scanning, NEW u \in Txn,
               TaskOf(u) \in Claims[q], receipt[u] # None
        PROVE  InSight(q, u)'
    <3>1. CASE q # p
      BY <1>0, <1>3, <2>2, <3>1 DEF Reviewed, InSight
    <3>2. CASE q = p
      <4>1. u \in todo[p] \/ beads[TaskOf(u)] # None
        BY <1>0, <2>2, <3>2 DEF Reviewed, InSight, Scanning
      <4>2. CASE beads[TaskOf(u)] # None
        BY <1>0, <4>2 DEF InSight
      <4>3. CASE u \in todo[p] /\ beads[TaskOf(u)] = None
        <5>1. ~AppendThrows(t)
          BY <1>0, <1>1, <1>9, <2>2, <3>2 DEF Goto, TypeLocal, Scanning
        <5>2. CASE u # t
          <6>1. todo' = [todo EXCEPT ![p] = @ \ {t}]
            BY <1>1, <1>9, <5>1
          <6> QED BY <1>0, <3>2, <4>3, <5>2, <6>1 DEF InSight, TypeLocal
        <5>3. CASE u = t
          <6>1. Landed(t) /\ ~ClosedInBeads(t)
            <7>1. [txn |-> t, cand |-> IF CandidateOid(t) # None THEN CandidateOid(t)
                                       ELSE receipt[t]] # None
              <8>1. (IF CandidateOid(t) # None THEN CandidateOid(t) ELSE receipt[t]) \in Oid
                BY <1>2, <2>2, <5>3 DEF CandidateOid, Inv, WellFormed, TypeOK, TypeGit,
                                        TypeFiles, MaybeOid
              <8> QED BY <1>2, <8>1, ClosedIsSome DEF MaybeOid
            <7> QED BY <1>9, <2>2, <4>3, <5>3, <7>1
                    DEF Landed, ClosedInBeads, MatchingClose
          <6>2. txn' = [txn EXCEPT ![p] = t] /\ pc' = [pc EXCEPT ![p] = "close_scan"]
            BY <1>1, <1>9, <5>1, <6>1 DEF Goto
          <6> QED BY <1>0, <3>2, <5>3, <6>2 DEF InSight, TypeLocal
        <5> QED BY <5>2, <5>3
      <4> QED BY <4>1, <4>2, <4>3
    <3> QED BY <3>1, <3>2
  <2>3. Reviewed => Reviewed'
    BY <1>0, <2>2 DEF Reviewed
  <2> QED BY <1>4, <1>6, <1>7, <2>1, <2>3 DEF Selection
<1> QED BY <1>8, <1>9

\* The close that reconciliation owes is written.
LEMMA CloseScannedOnce ==
    ASSUME Inv, Selection, NEW p \in Proc, CloseScanned(p) PROVE Selection'
<1> USE DEF CloseScanned, Goto, git, files, work, ghost
<1>0. TypeLocal /\ TypeRest /\ txn[p] \in Txn /\ cand[p] \in Oid /\ TaskOf(txn[p]) \in Task
  BY Held DEF Inv, WellFormed, TypeOK, Free, Unbuilt
<1>1. /\ beads'[TaskOf(txn[p])] # None
      /\ \A a \in Task : beads'[a] = None => beads[a] = None
  BY <1>0, ClosedIsSome DEF WriteClose, MatchingClose, TypeRest, MaybeOid
<1>2. Owns'
  BY <1>0 DEF Selection, Owns, TypeLocal, Merging, Working
<1>3. \A a : LandedTask(a)' = LandedTask(a)
  BY DEF LandedTask
<1>4. Unlanded => Unlanded'
  BY <1>0, <1>3 DEF Unlanded, TypeLocal, Working
<1>5. Reviewed => Reviewed'
  <2> SUFFICES ASSUME Reviewed, NEW q \in Proc, pc'[q] \in Scanning, NEW t \in Txn,
                      TaskOf(t) \in Claims[q], receipt[t] # None
               PROVE  InSight(q, t)'
    BY DEF Reviewed
  <2>1. pc[q] \in Scanning /\ TaskOf(t) \in Task
    BY <1>0, TxnParts DEF TypeLocal, Scanning
  <2>2. InSight(q, t)
    BY <2>1 DEF Reviewed
  <2> QED BY <1>0, <1>1, <2>1, <2>2 DEF InSight, TypeLocal
<1>6. AtMostOneLanding => AtMostOneLanding'
  BY DEF AtMostOneLanding
<1> QED BY <1>2, <1>4, <1>5, <1>6 DEF Selection

\* The tasks of the new batch have not landed: Reviewed at the end of the reconciliation.
LEMMA EndScanOnce ==
    ASSUME Inv, Selection, NEW p \in Proc, EndScan(p) PROVE Selection'
<1> USE DEF EndScan, Goto, git, files, ghost
<1>0. TypeLocal
  BY DEF Inv, WellFormed, TypeOK
<1>1. Owns'
  BY <1>0 DEF Selection, Owns, TypeLocal, Merging, Working
<1>2. \A a : LandedTask(a)' = LandedTask(a)
  BY DEF LandedTask
<1>3. ASSUME Unlanded, Reviewed PROVE Unlanded'
  <2>1. ASSUME NEW a \in batch'[p] PROVE ~LandedTask(a)
    <3>1. a \in Claims[p] /\ beads[a] = None
      BY <1>0, <2>1 DEF TypeLocal
    <3>2. ASSUME NEW t \in Txn, TaskOf(t) = a, receipt[t] # None PROVE FALSE
      <4>1. InSight(p, t)
        BY <1>3, <3>1, <3>2 DEF Reviewed, Scanning
      <4> QED BY <3>1, <3>2, <4>1 DEF InSight
    <3> QED BY <3>2 DEF LandedTask
  <2> QED BY <1>0, <1>2, <1>3, <2>1 DEF Unlanded, TypeLocal, Working
<1>4. Reviewed => Reviewed'
  BY <1>0 DEF Reviewed, InSight, TypeLocal, Scanning
<1>5. AtMostOneLanding => AtMostOneLanding'
  BY DEF AtMostOneLanding
<1> QED BY <1>1, <1>3, <1>4, <1>5 DEF Selection

\* The one step that lands: nobody else works on the task.
LEMMA LandOnce ==
    ASSUME ClaimsDisjoint, Inv, Selection, NEW p \in Proc, Land(p) PROVE Selection'
<1> USE DEF Land, Goto, files, work, ghost
<1>0. TypeLocal /\ TypeGit /\ txn[p] \in Txn /\ pc[p] = "cas"
  BY Held DEF Inv, WellFormed, TypeOK, Free
<1>1. /\ TaskOf(txn[p]) \in Claims[p] \ batch[p]
      /\ \A q \in Proc \ {p} : TaskOf(txn[p]) \notin Claims[q]
  BY <1>0 DEF Selection, Owns, Merging, Working, ClaimsDisjoint
<1>2. Owns'
  BY <1>0 DEF Selection, Owns, TypeLocal, Merging, Working
<1>3. \A t \in Txn : t # txn[p] => receipt'[t] = receipt[t]
  BY <1>0 DEF TypeGit
<1>4. \A a : a # TaskOf(txn[p]) /\ LandedTask(a)' => LandedTask(a)
  BY <1>3 DEF LandedTask
<1>5. Unlanded => Unlanded'
  <2> SUFFICES ASSUME Unlanded, NEW q \in Proc
               PROVE  /\ \A a \in batch[q] : ~LandedTask(a)'
                      /\ pc'[q] \in Working => ~LandedTask(TaskOf(txn[q]))'
    BY DEF Unlanded, LandedTask
  <2>1. \A a \in batch[q] : a # TaskOf(txn[p])
    BY <1>1 DEF Selection, Owns
  <2>2. pc'[q] \in Working => pc[q] \in Working /\ q # p
    BY <1>0 DEF TypeLocal, Working
  <2>3. pc'[q] \in Working => TaskOf(txn[q]) # TaskOf(txn[p])
    BY <1>1, <2>2 DEF Selection, Owns, Merging
  <2> QED BY <1>4, <2>1, <2>2, <2>3 DEF Unlanded
<1>6. Reviewed => Reviewed'
  <2> SUFFICES ASSUME Reviewed, NEW q \in Proc, pc'[q] \in Scanning, NEW t \in Txn,
                      TaskOf(t) \in Claims[q], receipt'[t] # None
               PROVE  InSight(q, t)'
    BY DEF Reviewed
  <2>1. q # p /\ pc[q] \in Scanning
    BY <1>0 DEF TypeLocal, Scanning
  <2>2. receipt[t] # None
    BY <1>1, <1>3, <2>1
  <2> QED BY <1>0, <2>1, <2>2 DEF Reviewed, InSight, TypeLocal
<1>7. Unlanded /\ AtMostOneLanding => AtMostOneLanding'
  <2> SUFFICES ASSUME Unlanded, AtMostOneLanding, NEW t \in Txn, NEW u \in Txn,
                      TaskOf(t) = TaskOf(u), receipt'[t] # None, receipt'[u] # None
               PROVE  t = u
    BY DEF AtMostOneLanding
  <2>1. \A v \in Txn : TaskOf(v) = TaskOf(txn[p]) => receipt[v] = None
    BY <1>0 DEF Unlanded, LandedTask, Working
  <2> QED BY <1>3, <2>1 DEF AtMostOneLanding
<1> QED BY <1>2, <1>5, <1>6, <1>7 DEF Selection

\* A crash loses the batch; the next reconciliation comes to every landing again.
LEMMA CrashOnce ==
    ASSUME Inv, Selection, NEW p \in Proc, Crash(p) PROVE Selection'
<1>0. TypeLocal
  BY DEF Inv, WellFormed, TypeOK
<1>1. OthersKept(p) /\ Quiet(p)
  BY <1>0 DEF Crash, LeaveTo, Goto, git, ghost, OthersKept, Quiet, Working, Merging,
              Scanning, TypeLocal
<1> QED BY <1>1, QuietKeeps

\* A move of the target by others is no landing.
LEMMA AdvanceOnce ==
    ASSUME Inv, Selection, Advance PROVE Selection'
BY DEF Advance, local, work, ghost, Selection, Owns, Unlanded, LandedTask, Reviewed, InSight,
       AtMostOneLanding

\* Every step keeps the selection sound.
LEMMA SelectionStep ==
    ASSUME ClaimsDisjoint, Inv, Selection, [Next]_vars PROVE Selection'
<1>1. ASSUME NEW p \in Proc, Step(p) PROVE Selection'
  <2>1. CASE Begin(p) \/ StartScan(p) \/ Examine(p) \/ CloseScanned(p) \/ EndScan(p) \/ Land(p)
    BY <2>1, BeginOnce, StartScanOnce, ExamineOnce, CloseScannedOnce, EndScanOnce, LandOnce
  <2>2. CASE ~(Begin(p) \/ StartScan(p) \/ Examine(p) \/ CloseScanned(p) \/ EndScan(p)
               \/ Land(p))
    <3>1. OthersKept(p) /\ Quiet(p)
      BY <1>1, <2>2, BuildQuiet, VerifyQuiet, LandCandidateQuiet, SettleQuiet, ReconcileQuiet
         DEF Step
    <3> QED BY <3>1, QuietKeeps
  <2> QED BY <2>1, <2>2
<1>2. CASE \E p \in Proc : Crash(p)
  BY <1>2, CrashOnce
<1>3. CASE Advance
  BY <1>3, AdvanceOnce
<1>4. CASE UNCHANGED vars
  BY <1>4 DEF vars, git, local, work, ghost, Selection, Owns, Unlanded, LandedTask, Reviewed,
              InSight, AtMostOneLanding
<1> QED BY <1>1, <1>2, <1>3, <1>4 DEF Next

-----------------------------------------------------------------------------
(* The journal *)

\* A rank the evidence of the transaction bears out.
Truthful(t, r) ==
    /\ r = TargetLanded => receipt[t] # None
    /\ r = TaskClosed => MatchingClose(t, receipt[t])

\* Every rank a journal gets in this step is borne out.
Honest == \A t \in Txn : journal'[t].rank = journal[t].rank \/ Truthful(t, journal'[t].rank)

\* The step changes nothing the journal speaks of, and what it appends is true.
Faithful(p) ==
    /\ UNCHANGED <<receipt, beads>>
    /\ cutShort => cutShort'
    /\ pc'[p] \notin {"note", "note_scan"}
    /\ Honest

\* A true checkpoint makes a true journal.
LEMMA AppendHonest ==
    ASSUME TypeFiles, NEW t \in Txn, NEW r \in 0 .. Cleaned, NEW c, Truthful(t, r),
           AppendCheckpoint(t, r, c)
    PROVE  Honest
BY DEF AppendCheckpoint, Reduce, MaxOf, TypeFiles, Honest

\* Checkpoints that say nothing about landing and closing are true.
LEMMA LowRanks ==
    ASSUME NEW t, NEW r \in {CandidateCreated, CandidateVerified, Cleaned}
    PROVE  Truthful(t, r) /\ r \in 0 .. Cleaned
BY DEF Truthful, CandidateCreated, CandidateVerified, Cleaned, TargetLanded, TaskClosed

\* The checkpoints that reconciliation reconstructs are true.
LEMMA MissingTrue ==
    ASSUME Inv, NEW t \in Txn, NEW r \in MissingRanks(t)
    PROVE  Truthful(t, r)
<1>1. r \in {Opened, BasePinned} \cup ProvenRanks(t)
  BY DEF MissingRanks
<1>2. CASE r = TargetLanded
  BY <1>1, <1>2
     DEF ProvenRanks, Truthful, Landed, Opened, BasePinned, TargetLanded, TaskClosed,
         CandidateCreated, CandidateVerified, Cleaned
<1>3. CASE r = TaskClosed
  <2>1. ClosedInBeads(t)
    BY <1>1, <1>3
       DEF ProvenRanks, Opened, BasePinned, TargetLanded, TaskClosed, CandidateCreated,
           CandidateVerified, Cleaned
  <2>2. PICK c \in MaybeOid : beads[TaskOf(t)] = [txn |-> t, cand |-> c]
    BY <2>1 DEF ClosedInBeads, MatchingClose, CandidateOid, Inv, WellFormed, TypeOK, TypeGit,
                TypeFiles
  <2>3. receipt[t] = c
    <3>1. TaskOf(t) \in Task /\ beads[TaskOf(t)] \in Close \cup {None}
      BY TxnParts DEF Inv, WellFormed, TypeOK, TypeRest
    <3>2. CASE beads[TaskOf(t)] # None
      BY <2>2, <3>1, <3>2 DEF Inv, Safe, CloseHasReceipt
    <3> QED BY <2>2, <3>2, ClosedIsSome
  <2> QED BY <1>3, <2>2, <2>3 DEF Truthful, MatchingClose, TargetLanded, TaskClosed
<1> QED BY <1>2, <1>3 DEF Truthful

\* One transaction of a reconciliation.
LEMMA ExamineFaithful == ASSUME Inv, NEW p \in Proc, Examine(p) PROVE Faithful(p)
<1>0. TypeLocal /\ TypeFiles /\ UNCHANGED <<receipt, beads>>
  BY DEF Inv, WellFormed, TypeOK, Examine, git
<1>1. PICK t \in todo[p] : Examine(p)!2!(t)
  BY DEF Examine
<1>2. t \in Txn /\ pc[p] = "scan"
  BY <1>0 DEF TypeLocal, Examine
<1>3. pc'[p] \notin {"note", "note_scan"} /\ (cutShort => cutShort')
  BY <1>0, <1>1, <1>2 DEF TypeLocal, Goto
<1>4. Honest
  <2>1. CASE UNCHANGED journal
    BY <2>1 DEF Honest
  <2>2. CASE ~UNCHANGED journal
    <3> DEFINE missing == MissingRanks(t)
               kept == {r \in missing : t \in torn => \E s \in missing : s < r}
               highest == CHOOSE r \in kept : \A s \in kept : s <= r
    <3>1. Reconstruct(t)
      BY <1>1, <2>2
    <3>2. kept # {} /\ journal' = [journal EXCEPT ![t] = Reduce(@, highest, CandidateOid(t))]
      BY <2>2, <3>1 DEF Reconstruct
    <3>3. missing \subseteq 1 .. Cleaned
      BY DEF MissingRanks, ProvenRanks, Opened, BasePinned, CandidateCreated, Cleaned
    <3>4. highest \in kept
      BY <3>2, <3>3, HighestRank
    <3>5. Truthful(t, highest)
      BY <1>2, <3>4, MissingTrue
    <3> HIDE DEF highest
    <3>6. journal'[t].rank \in {journal[t].rank, highest}
          /\ \A u \in Txn : u # t => journal'[u] = journal[u]
      BY <1>0, <1>2, <3>2 DEF Reduce, MaxOf, TypeFiles
    <3> QED BY <3>5, <3>6 DEF Honest
  <2> QED BY <2>1, <2>2
<1> QED BY <1>0, <1>3, <1>4 DEF Faithful

\* What a reconciliation has missed stays missed.
LEMMA CutStays == ASSUME Inv, NEW p \in Proc, Step(p), cutShort PROVE cutShort'
<1> USE DEF ghost
<1>1. CASE Examine(p)
  BY <1>1, ExamineFaithful DEF Faithful
<1>2. CASE ~Examine(p)
  <2>1. CASE Begin(p) \/ StartScan(p) \/ CloseScanned(p) \/ EndScan(p) \/ Land(p)
    BY <2>1 DEF Begin, Pin, StartScan, CloseScanned, EndScan, Land
  <2>2. CASE ~(Begin(p) \/ StartScan(p) \/ CloseScanned(p) \/ EndScan(p) \/ Land(p))
    BY <1>2, <2>2, BuildQuiet, VerifyQuiet, LandCandidateQuiet, SettleQuiet, ReconcileQuiet
       DEF Step, Quiet
  <2> QED BY <2>1, <2>2
<1> QED BY <1>1, <1>2

\* Building a candidate appends nothing about landings.
LEMMA BuildFaithful ==
    ASSUME Inv, NEW p \in Proc, Build(p)
    PROVE  Faithful(p)
<1> USE DEF Faithful, git, files, ghost, work, local, Goto, LeaveTo, Leave, Free
<1>0. /\ TypeLocal /\ TypeFiles
      /\ pc[p] \notin Free => txn[p] \in Txn
      /\ pc[p] \notin Free \cup Unbuilt => cand[p] \in Oid
  BY Held DEF Inv, WellFormed, TypeOK
<1>1. CASE Begin(p)
  BY <1>0, <1>1 DEF Begin, Pin, Honest, TypeLocal
<1>2. CASE Rebuild(p)
  BY <1>0, <1>2 DEF Rebuild, Pin, Honest, TypeLocal
<1>3. CASE RefuseIncident(p)
  BY <1>0, <1>3 DEF RefuseIncident, Honest, TypeLocal
<1>4. CASE Restore(p)
  <2>1. Honest
    <3>1. CASE journal[txn[p]].cand = RestoredOid(txn[p])
      BY <1>4, <3>1 DEF Restore, Honest
    <3>2. CASE journal[txn[p]].cand # RestoredOid(txn[p])
      BY <1>0, <1>4, <3>2, AppendHonest, LowRanks DEF Restore
    <3> QED BY <3>1, <3>2
  <2> QED BY <1>0, <1>4, <2>1 DEF Restore, TypeLocal
<1>5. CASE Open(p)
  <2>1. Honest
    BY <1>0, <1>5 DEF Open, Honest, Reduce, MaxOf, TypeFiles, Truthful, BasePinned,
                       TargetLanded, TaskClosed
  <2> QED BY <1>0, <1>5, <2>1 DEF Open, TypeLocal
<1>6. CASE OpenTorn(p)
  BY <1>0, <1>6 DEF OpenTorn, Honest, TypeLocal
<1>7. CASE Merge(p)
  BY <1>0, <1>7 DEF Merge, Honest, TypeLocal
<1>8. CASE MergeFail(p)
  BY <1>0, <1>8 DEF MergeFail, Fail, Honest, TypeLocal
<1>9. CASE WriteManifest(p)
  BY <1>0, <1>9 DEF WriteManifest, Honest, TypeLocal
<1>10. CASE WriteRef(p)
  BY <1>0, <1>10 DEF WriteRef, Honest, TypeLocal
<1>11. CASE RecordCreated(p)
  <2>1. Honest
    BY <1>0, <1>11, AppendHonest, LowRanks DEF RecordCreated
  <2> QED BY <1>0, <1>11, <2>1 DEF RecordCreated, TypeLocal
<1> QED BY <1>1, <1>2, <1>3, <1>4, <1>5, <1>6, <1>7, <1>8, <1>9, <1>10, <1>11 DEF Build

\* Nor does verification.
LEMMA VerifyFaithful ==
    ASSUME Inv, NEW p \in Proc, Verify(p)
    PROVE  Faithful(p)
<1> USE DEF Faithful, git, files, ghost, work, local, Goto, LeaveTo, Leave, Free
<1>0. /\ TypeLocal /\ TypeFiles
      /\ pc[p] \notin Free => txn[p] \in Txn
      /\ pc[p] \notin Free \cup Unbuilt => cand[p] \in Oid
  BY Held DEF Inv, WellFormed, TypeOK
<1>1. CASE VerifyPass(p)
  BY <1>0, <1>1 DEF VerifyPass, Honest, TypeLocal
<1>2. CASE VerifyFail(p)
  BY <1>0, <1>2 DEF VerifyFail, Fail, Honest, TypeLocal
<1>3. CASE StartRepair(p)
  BY <1>0, <1>3 DEF StartRepair, Honest, TypeLocal
<1>4. CASE AgentCommit(p)
  BY <1>0, <1>4 DEF AgentCommit, Honest, TypeLocal
<1>5. CASE EndRepair(p)
  BY <1>0, <1>5 DEF EndRepair, Fail, Honest, TypeLocal
<1>6. CASE ExhaustRepairs(p)
  BY <1>0, <1>6 DEF ExhaustRepairs, Honest, TypeLocal
<1>7. CASE BindVerification(p)
  BY <1>0, <1>7 DEF BindVerification, Honest, TypeLocal
<1>8. CASE RecordVerified(p)
  <2>1. Honest
    BY <1>0, <1>8, AppendHonest, LowRanks DEF RecordVerified
  <2> QED BY <1>0, <1>8, <2>1 DEF RecordVerified, TypeLocal
<1> QED BY <1>1, <1>2, <1>3, <1>4, <1>5, <1>6, <1>7, <1>8 DEF Verify

\* target_landed is appended behind the receipt.
LEMMA LandCandidateFaithful ==
    ASSUME Inv, NEW p \in Proc, LandCandidate(p), ~Land(p)
    PROVE  Faithful(p)
<1> USE DEF Faithful, git, files, ghost, work, local, Goto, LeaveTo, Leave, Free
<1>0. /\ TypeLocal /\ TypeFiles
      /\ pc[p] \notin Free => txn[p] \in Txn
      /\ pc[p] \notin Free \cup Unbuilt => cand[p] \in Oid
  BY Held DEF Inv, WellFormed, TypeOK
<1>1. CASE QueueBlocked(p)
  BY <1>0, <1>1 DEF QueueBlocked, Fail, Honest, TypeLocal
<1>2. CASE ObserveLease(p)
  BY <1>0, <1>2 DEF ObserveLease, Honest, TypeLocal
<1>3. CASE WriteLease(p)
  BY <1>0, <1>3 DEF WriteLease, Honest, TypeLocal
<1>4. CASE ConfirmLease(p)
  BY <1>0, <1>4 DEF ConfirmLease, Drift, Reject, Proceed, Honest, TypeLocal
<1>5. CASE CheckCommit(p)
  BY <1>0, <1>5 DEF CheckCommit, Drift, Reject, Proceed, Honest, TypeLocal
<1>6. CASE LandFail(p)
  BY <1>0, <1>6 DEF LandFail, Drift, Reject, Proceed, Honest, TypeLocal
<1>7. CASE RecordLanded(p)
  <2>1. receipt[txn[p]] = cand[p] /\ cand[p] # None
    BY <1>0, <1>7, LandingAssumption DEF RecordLanded, Inv, Safe, ReceiptKnown, KnowsLanded, Unbuilt
  <2>2. Honest
    BY <1>0, <1>7, <2>1, AppendHonest
       DEF RecordLanded, Truthful, TargetLanded, TaskClosed, Cleaned
  <2> QED BY <1>0, <1>7, <2>2 DEF RecordLanded, TypeLocal
<1> QED BY <1>1, <1>2, <1>3, <1>4, <1>5, <1>6, <1>7 DEF LandCandidate

\* task_closed is appended behind the close.
LEMMA SettleFaithful ==
    ASSUME Inv, Noted, NEW p \in Proc, Settle(p), ~CloseTask(p)
    PROVE  Faithful(p)
<1> USE DEF Faithful, git, files, ghost, work, local, Goto, LeaveTo, Leave, Free
<1>0. /\ TypeLocal /\ TypeFiles
      /\ pc[p] \notin Free => txn[p] \in Txn
      /\ pc[p] \notin Free \cup Unbuilt => cand[p] \in Oid
  BY Held DEF Inv, WellFormed, TypeOK
<1>1. CASE DropWorktree(p)
  BY <1>0, <1>1 DEF DropWorktree, Honest, TypeLocal
<1>2. CASE RecordCleaned(p)
  <2>1. Honest
    BY <1>0, <1>2, AppendHonest, LowRanks DEF RecordCleaned
  <2> QED BY <1>0, <1>2, <2>1 DEF RecordCleaned, TypeLocal
<1>3. CASE CloseFail(p)
  BY <1>0, <1>3 DEF CloseFail, Fail, Honest, TypeLocal
<1>4. CASE RecordClosed(p)
  <2>1. receipt[txn[p]] = cand[p] /\ MatchingClose(txn[p], cand[p])
    BY <1>0, <1>4 DEF RecordClosed, Inv, Safe, ReceiptKnown, KnowsLanded, Noted
  <2>2. Honest
    BY <1>0, <1>4, <2>1, AppendHonest
       DEF RecordClosed, Truthful, TargetLanded, TaskClosed, Cleaned
  <2> QED BY <1>0, <1>4, <2>2 DEF RecordClosed, TypeLocal
<1> QED BY <1>1, <1>2, <1>3, <1>4 DEF Settle

\* Reconciliation appends what the evidence proves.
LEMMA ReconcileFaithful ==
    ASSUME Inv, NEW p \in Proc, Reconcile(p), ~CloseScanned(p)
    PROVE  Faithful(p)
<1> USE DEF Faithful, git, files, ghost, work, local, Goto, LeaveTo, Leave, Free
<1>0. /\ TypeLocal /\ TypeFiles
      /\ pc[p] \notin Free => txn[p] \in Txn
      /\ pc[p] \notin Free \cup Unbuilt => cand[p] \in Oid
  BY Held DEF Inv, WellFormed, TypeOK
<1>1. CASE StartScan(p)
  BY <1>0, <1>1 DEF StartScan, Honest, TypeLocal
<1>2. CASE Examine(p)
  BY <1>2, ExamineFaithful
<1>3. CASE CloseScannedFail(p)
  BY <1>0, <1>3 DEF CloseScannedFail, Fail, Honest, TypeLocal
<1>4. CASE EndScan(p)
  BY <1>0, <1>4 DEF EndScan, Honest, TypeLocal
<1> QED BY <1>1, <1>2, <1>3, <1>4 DEF Reconcile

\* A close that is written is the one that counts: the task has landed only once.
LEMMA CloseRecords ==
    ASSUME ClaimsDisjoint, Inv, Selection, Records, NEW p \in Proc,
           CloseTask(p) \/ CloseScanned(p)
    PROVE  Records'
<1> USE DEF CloseTask, CloseScanned, Goto, git, files, work, ghost
<1>0. /\ TypeLocal /\ TypeRest /\ txn[p] \in Txn /\ cand[p] \in Oid
      /\ TaskOf(txn[p]) \in Task /\ receipt[txn[p]] = cand[p] /\ cand[p] # None
  BY Held, LandingAssumption
     DEF Inv, WellFormed, TypeOK, Free, Unbuilt, Safe, ReceiptKnown, KnowsLanded
<1>1. /\ MatchingClose(txn[p], cand[p])'
      /\ \A a \in Task : a # TaskOf(txn[p]) => beads'[a] = beads[a]
  BY <1>0 DEF WriteClose, MatchingClose, TypeRest
<1> SUFFICES ASSUME ~cutShort PROVE Noted' /\ JournalNeverAhead'
  BY DEF Records
<1>2. ASSUME NEW t \in Txn, receipt[t] # None, MatchingClose(t, receipt[t])
      PROVE  MatchingClose(t, receipt[t])'
  <2>1. TaskOf(t) \in Task
    BY TxnParts
  <2>2. CASE TaskOf(t) = TaskOf(txn[p])
    <3>1. t = txn[p]
      BY <1>0, <1>2, <2>2 DEF Selection, AtMostOneLanding
    <3> QED BY <1>0, <1>1, <3>1 DEF MatchingClose
  <2>3. CASE TaskOf(t) # TaskOf(txn[p])
    BY <1>1, <1>2, <2>1, <2>3 DEF MatchingClose
  <2> QED BY <2>2, <2>3
<1>3. JournalNeverAhead'
  <2> SUFFICES ASSUME NEW t \in Txn
               PROVE  /\ journal[t].rank = TargetLanded => receipt[t] # None
                      /\ journal[t].rank = TaskClosed => MatchingClose(t, receipt[t])'
    BY DEF JournalNeverAhead, MatchingClose
  <2>1. ASSUME MatchingClose(t, receipt[t]) PROVE receipt[t] # None
    BY <2>1, CloseNames DEF Inv, WellFormed, TypeOK
  <2> QED BY <1>2, <2>1 DEF Records, JournalNeverAhead
<1>4. Noted'
  <2> SUFFICES ASSUME NEW q \in Proc, q # p, pc[q] \in {"note", "note_scan"}
               PROVE  MatchingClose(txn[q], cand[q])'
    BY <1>0, <1>1 DEF Noted, TypeLocal, MatchingClose
  <2>1. /\ txn[q] \in Txn /\ receipt[txn[q]] = cand[q] /\ cand[q] # None
        /\ MatchingClose(txn[q], cand[q])
    BY Held, LandingAssumption
       DEF Inv, Free, Unbuilt, Safe, ReceiptKnown, KnowsLanded, Records, Noted
  <2>2. MatchingClose(txn[q], receipt[txn[q]])'
    BY <1>2, <2>1
  <2> QED BY <1>0, <2>1, <2>2 DEF MatchingClose
<1> QED BY <1>3, <1>4

\* A landing finds its journal behind.
LEMMA LandRecords ==
    ASSUME Inv, Records, NEW p \in Proc, Land(p) PROVE Records'
<1> USE DEF Land, Goto, files, work, ghost
<1>0. /\ TypeLocal /\ TypeGit /\ TypeRest /\ txn[p] \in Txn /\ cand[p] # None
  BY Held, LandingAssumption DEF Inv, WellFormed, TypeOK, Free, Unbuilt
<1>1. \A t \in Txn : receipt[t] # None => receipt'[t] = receipt[t]
  BY <1>0 DEF CasHolds, TypeGit
<1>2. receipt'[txn[p]] # None /\ \A t \in Txn : t # txn[p] => receipt'[t] = receipt[t]
  BY <1>0 DEF TypeGit
<1> SUFFICES ASSUME ~cutShort PROVE Noted' /\ JournalNeverAhead'
  BY DEF Records
<1>3. Noted'
  BY <1>0 DEF Records, Noted, TypeLocal, MatchingClose
<1>4. ASSUME NEW t \in Txn, MatchingClose(t, receipt[t]) PROVE receipt[t] # None
  BY <1>0, <1>4, CloseNames
<1>5. JournalNeverAhead'
  <2> SUFFICES ASSUME NEW t \in Txn
               PROVE  /\ journal[t].rank = TargetLanded => receipt'[t] # None
                      /\ journal[t].rank = TaskClosed => MatchingClose(t, receipt'[t])
    BY DEF JournalNeverAhead, MatchingClose
  <2> QED BY <1>1, <1>2, <1>4 DEF Records, JournalNeverAhead
<1> QED BY <1>3, <1>5

\* A faithful step keeps the records.
LEMMA FaithfulKeeps ==
    ASSUME Records, NEW p \in Proc, OthersKept(p), Faithful(p) PROVE Records'
<1> SUFFICES ASSUME ~cutShort' PROVE Noted' /\ JournalNeverAhead'
  BY DEF Records
<1>1. Noted /\ JournalNeverAhead
  BY DEF Faithful, Records
<1>2. Noted'
  BY <1>1 DEF Noted, OthersKept, Faithful, MatchingClose
<1>3. JournalNeverAhead'
  BY <1>1 DEF JournalNeverAhead, Faithful, Honest, Truthful, MatchingClose
<1> QED BY <1>2, <1>3

\* The other processes are where they were.
LEMMA StepOthers ==
    ASSUME Inv, NEW p \in Proc, Step(p)
    PROVE  OthersKept(p)
<1> USE DEF OthersKept, git, files, ghost, work, local, Goto, LeaveTo, Leave
<1>0. TypeLocal
  BY DEF Inv, WellFormed, TypeOK
<1>1. CASE Begin(p)
  BY <1>0, <1>1 DEF Begin, Pin, TypeLocal
<1>2. CASE StartScan(p)
  BY <1>0, <1>2 DEF StartScan, TypeLocal
<1>3. CASE Examine(p)
  BY <1>0, <1>3 DEF Examine, TypeLocal
<1>4. CASE CloseScanned(p)
  BY <1>0, <1>4 DEF CloseScanned, TypeLocal
<1>5. CASE EndScan(p)
  BY <1>0, <1>5 DEF EndScan, TypeLocal
<1>6. CASE Land(p)
  BY <1>0, <1>6 DEF Land, TypeLocal
<1>7. CASE ~(Begin(p) \/ StartScan(p) \/ Examine(p) \/ CloseScanned(p) \/ EndScan(p) \/ Land(p))
  BY <1>7, BuildQuiet, VerifyQuiet, LandCandidateQuiet, SettleQuiet, ReconcileQuiet DEF Step
<1> QED BY <1>1, <1>2, <1>3, <1>4, <1>5, <1>6, <1>7

\* Every step keeps the records.
LEMMA RecordsStep ==
    ASSUME ClaimsDisjoint, Inv, Selection, Records, [Next]_vars PROVE Records'
<1>1. ASSUME NEW p \in Proc, Step(p) PROVE Records'
  <2>1. CASE CloseTask(p) \/ CloseScanned(p)
    BY <2>1, CloseRecords
  <2>2. CASE Land(p)
    BY <2>2, LandRecords
  <2>3. CASE cutShort
    <3>1. Records' \/ cutShort'
      BY <1>1, <2>3, CutStays DEF Records
    <3> QED BY <3>1 DEF Records
  <2>4. CASE ~cutShort /\ ~(CloseTask(p) \/ CloseScanned(p) \/ Land(p))
    <3>1. Faithful(p)
      BY <1>1, <2>4, BuildFaithful, VerifyFaithful, LandCandidateFaithful, SettleFaithful,
         ReconcileFaithful DEF Step, Records
    <3> QED BY <1>1, <3>1, StepOthers, FaithfulKeeps
  <2> QED BY <2>1, <2>2, <2>3, <2>4
<1>2. CASE \E p \in Proc : Crash(p)
  <2>1. PICK p \in Proc : Crash(p)
    BY <1>2
  <2>2. OthersKept(p) /\ Faithful(p)
    BY <2>1 DEF Crash, LeaveTo, Goto, git, ghost, OthersKept, Faithful, Honest, Inv, WellFormed,
                TypeOK, TypeLocal
  <2> QED BY <2>2, FaithfulKeeps
<1>3. CASE Advance
  BY <1>3 DEF Advance, files, local, work, ghost, Records, Noted, JournalNeverAhead,
              MatchingClose
<1>4. CASE UNCHANGED vars
  BY <1>4 DEF vars, git, files, local, work, ghost, Records, Noted, JournalNeverAhead,
              MatchingClose
<1> QED BY <1>1, <1>2, <1>3, <1>4 DEF Next

-----------------------------------------------------------------------------
(* The theorems *)

\* The invariant is inductive.
LEMMA OnceStep == ASSUME ClaimsDisjoint PROVE OnceInv /\ [Next]_vars => OnceInv'
BY InvStep, SelectionStep, RecordsStep DEF OnceInv

\* At first nothing has landed, and nobody works.
LEMMA OnceInit == Init => OnceInv
<1> SUFFICES ASSUME Init PROVE OnceInv
  OBVIOUS
<1>1. Inv
  BY InitType, InitSafe DEF Inv
<1>2. Selection
  BY DEF Init, Selection, Owns, Unlanded, LandedTask, Reviewed, AtMostOneLanding, Merging,
         Working, Scanning
<1>3. Records
  BY DEF Init, Records, Noted, JournalNeverAhead, TargetLanded, TaskClosed
<1> QED BY <1>1, <1>2, <1>3 DEF OnceInv

\* With disjoint claims a landing is found by whoever might land the task again, and the
\* journals and Beads say no more than the receipts do.
THEOREM OnceInvHolds == ASSUME ClaimsDisjoint PROVE Spec => []OnceInv
BY OnceInit, OnceStep, PTL DEF Spec

\* A task lands at most once, and no journal runs ahead of the evidence, unless an
\* integrity incident cut a reconciliation short.
THEOREM RecordsHold == ASSUME ClaimsDisjoint PROVE Spec => []RecordsAgree
<1>1. OnceInv => RecordsAgree
  BY DEF OnceInv, Selection, Records, RecordsAgree
<1> QED BY <1>1, OnceInvHolds, PTL

-----------------------------------------------------------------------------
(***************************************************************************)
(* Closed work is contained in the publish target, only what the verifier  *)
(* accepted lands, and LandingTransaction implements LandingLedger, as     *)
(* long as no two processes claim a task.                                  *)
(*                                                                         *)
(* The argument: a candidate is taken from a worktree in which the source  *)
(* of the task was merged (Generation), or from evidence of an earlier     *)
(* candidate (Sourced).  A worktree whose merge never came, left behind by *)
(* a crash, is not mistaken for a candidate (BareWorktree), because the    *)
(* process that finds it rebuilds it, evidence permitting no other way.    *)
(* Without a crash a worktree nobody is changing has the candidate its ref *)
(* names as HEAD (KeptAsRef), so that the verifier, which runs on HEAD,    *)
(* accepts the candidate its verification is bound to (BoundIsVerified).   *)
(***************************************************************************)

\* The commit, if there is one, contains the source of the task.
HasSource(t, c) == c # None => TaskOf(t) \in history[c]

\* Whatever names a candidate of a task names a commit with its source; so does
\* the publish target once the task has landed.
Sourced ==
    \A t \in Txn : /\ HasSource(t, manifest[t])
                   /\ HasSource(t, candRef[t])
                   /\ HasSource(t, journal[t].cand)
                   /\ receipt[t] # None => TaskOf(t) \in history[target]

LocalSourced == \A p \in Proc : HasSource(txn[p], cand[p])

\* The ref is written after the manifest, and before the journal and the receipt.
RefLast ==
    \A t \in Txn :
        /\ candRef[t] = None /\ journal[t].cand # None => manifest[t] = journal[t].cand
        /\ receipt[t] # None => candRef[t] # None

\* A worktree without the source is not restored: there is no evidence of a candidate,
\* or it contradicts itself.
BareWorktree ==
    \A t \in Txn : \/ HasSource(t, worktree[t])
                   \/ candRef[t] = None /\ manifest[t] = None
                   \/ candRef[t] # None /\ Differ(manifest[t], candRef[t])

\* The process has not yet, or has already, a candidate ref, or a merged worktree.
Unreffed == {"building", "merged"}
Reffed == {"reffed", "created", "verified", "unverified", "repairing", "repaired", "bound",
           "ready", "acquiring", "confirming", "commit", "cas", "landed", "drop_fail",
           "drop_drift", "drop_land", "drop_scan", "mark_fail", "mark_drift", "mark_land",
           "mark_scan", "rebuild", "close", "close_scan", "note", "note_scan"}
Merged == {"merged", "manifested", "reffed", "created", "unverified", "repairing", "repaired"}

GenerationOf(p) ==
    /\ pc[p] = "pin" => cand[p] = None
    /\ pc[p] \in Unreffed =>
         \/ candRef[txn[p]] # None
         \/ manifest[txn[p]] = None /\ journal[txn[p]].cand = None /\ cand[p] = None
    /\ pc[p] \in Reffed => candRef[txn[p]] # None
    /\ pc[p] \in Merged => HasSource(txn[p], worktree[txn[p]])

Generation == \A p \in Proc : GenerationOf(p)

SourceInv == Sourced /\ LocalSourced /\ RefLast /\ BareWorktree /\ Generation

FullInv == OnceInv /\ SourceInv

-----------------------------------------------------------------------------
(* Lemmas *)

\* Nobody else is at work on the transaction of a process.
LEMMA OwnTxn ==
    ASSUME ClaimsDisjoint, Owns, NEW p \in Proc, NEW q \in Proc, p # q,
           pc[p] \in Merging, pc[q] \in Merging
    PROVE  txn[p] # txn[q]
BY DEF ClaimsDisjoint, Owns

\* Every commit that is named anywhere exists.
LEMMA NamedExist ==
    ASSUME Inv
    PROVE  /\ \A t \in Txn : /\ worktree[t] # None => worktree[t] \in objects
                             /\ manifest[t] # None => manifest[t] \in objects
                             /\ candRef[t] # None => candRef[t] \in objects
                             /\ journal[t].cand # None => journal[t].cand \in objects
           /\ \A p \in Proc : cand[p] # None => cand[p] \in objects
BY DEF Inv, Safe, Evidence, LocalEvidence, OnBase, Contains

\* What a commit contains never changes.
LEMMA HistoryKept ==
    ASSUME Inv, [Next]_vars
    PROVE  \A c \in objects : history'[c] = history[c]
<1> USE DEF Inv, Safe, WellFormed, TypeOK
<1>1. ASSUME NEW p \in Proc, Step(p) PROVE \A c \in objects : history'[c] = history[c]
  <2>1. CASE Merge(p)
    <3>1. CASE UNCHANGED history
      BY <3>1
    <3>2. CASE NewCommit(worktree[txn[p]], {TaskOf(txn[p])})
      BY <2>1, <3>2, Held, NamedExist, NewCommitGrows DEF Merge, Free
    <3> QED BY <2>1, <3>1, <3>2 DEF Merge
  <2>2. CASE AgentCommit(p)
    BY <2>2, Held, NamedExist, NewCommitGrows DEF AgentCommit, Free
  <2>3. CASE Land(p)
    BY <2>3 DEF Land
  <2> QED BY <1>1, <2>1, <2>2, <2>3, QuietSteps
<1>2. CASE Advance
  BY <1>2, NewCommitGrows DEF Advance, GitOK
<1>3. CASE \E p \in Proc : Crash(p)
  BY <1>3 DEF Crash, git
<1>4. CASE UNCHANGED vars
  BY <1>4 DEF vars, git
<1> QED BY <1>1, <1>2, <1>3, <1>4 DEF Next

\* An append names the candidate that was appended, or the one before.
LEMMA AppendCand ==
    ASSUME TypeFiles, NEW t \in Txn, NEW r, NEW c, AppendCheckpoint(t, r, c)
    PROVE  \A u \in Txn : \/ journal'[u].cand = journal[u].cand
                          \/ u = t /\ journal'[u].cand = c
BY DEF AppendCheckpoint, Reduce, TypeFiles

\* The step leaves refs and manifests alone, removes worktrees at most, and appends to
\* a journal at most the candidate that the ref has named since.
Bland(p) ==
    /\ UNCHANGED <<manifest, candRef, receipt>>
    /\ \A t \in Txn : /\ worktree'[t] \in {worktree[t], None}
                      /\ \/ journal'[t].cand = journal[t].cand
                         \/ t = txn[p] /\ pc[p] \in Reffed /\ journal'[t].cand = cand[p]
    /\ cand'[p] = None \/ (cand'[p] = cand[p] /\ txn'[p] = txn[p])
    /\ pc'[p] = "pin" => cand'[p] = None
    /\ pc'[p] \in Unreffed => pc[p] \in Unreffed \cup Reffed /\ txn'[p] = txn[p]
    /\ pc'[p] \in Reffed => pc[p] \in Reffed /\ txn'[p] = txn[p]
    /\ pc'[p] \in Merged => pc[p] \in Merged /\ txn'[p] = txn[p]

\* Most steps of a build touch no evidence.
LEMMA BuildBland ==
    ASSUME Inv, NEW p \in Proc, Build(p),
           ~Restore(p), ~Open(p), ~Merge(p), ~WriteManifest(p), ~WriteRef(p)
    PROVE  Bland(p)
<1> USE DEF Bland, Unreffed, Reffed, Merged, git, files, ghost, work, local, Goto, LeaveTo, Leave
<1>0. TypeLocal /\ TypeFiles /\ (pc[p] \notin Free => txn[p] \in Txn)
  BY Held DEF Inv, WellFormed, TypeOK
<1>1. CASE Begin(p)
  BY <1>0, <1>1 DEF Begin, Pin, TypeLocal
<1>2. CASE Rebuild(p)
  BY <1>0, <1>2 DEF Rebuild, Pin, TypeLocal
<1>3. CASE RefuseIncident(p)
  BY <1>0, <1>3 DEF RefuseIncident, TypeLocal
<1>4. CASE OpenTorn(p)
  BY <1>0, <1>4 DEF OpenTorn, TypeLocal
<1>5. CASE MergeFail(p)
  BY <1>0, <1>5 DEF MergeFail, Fail, TypeLocal, TypeFiles, Free
<1>6. CASE RecordCreated(p)
  <2>1. \A t \in Txn : \/ journal'[t].cand = journal[t].cand
                       \/ t = txn[p] /\ journal'[t].cand = cand[p]
    BY <1>0, <1>6, AppendCand DEF RecordCreated, Free
  <2> QED BY <1>0, <1>6, <2>1 DEF RecordCreated, TypeLocal
<1> QED BY <1>1, <1>2, <1>3, <1>4, <1>5, <1>6 DEF Build

\* Verification touches no evidence of a candidate.
LEMMA VerifyBland ==
    ASSUME Inv, NEW p \in Proc, Verify(p), ~AgentCommit(p)
    PROVE  Bland(p)
<1> USE DEF Bland, Unreffed, Reffed, Merged, git, files, ghost, work, local, Goto, LeaveTo, Leave
<1>0. TypeLocal /\ TypeFiles /\ (pc[p] \notin Free => txn[p] \in Txn)
  BY Held DEF Inv, WellFormed, TypeOK
<1>1. CASE VerifyPass(p)
  BY <1>0, <1>1 DEF VerifyPass, TypeLocal
<1>2. CASE VerifyFail(p)
  BY <1>0, <1>2 DEF VerifyFail, Fail, TypeLocal
<1>3. CASE StartRepair(p)
  BY <1>0, <1>3 DEF StartRepair, TypeLocal
<1>4. CASE EndRepair(p)
  BY <1>0, <1>4 DEF EndRepair, Fail, TypeLocal
<1>5. CASE ExhaustRepairs(p)
  BY <1>0, <1>5 DEF ExhaustRepairs, TypeLocal
<1>6. CASE BindVerification(p)
  BY <1>0, <1>6 DEF BindVerification, TypeLocal
<1>7. CASE RecordVerified(p)
  <2>1. \A t \in Txn : \/ journal'[t].cand = journal[t].cand
                       \/ t = txn[p] /\ journal'[t].cand = cand[p]
    BY <1>0, <1>7, AppendCand DEF RecordVerified, Free
  <2> QED BY <1>0, <1>7, <2>1 DEF RecordVerified, TypeLocal
<1> QED BY <1>1, <1>2, <1>3, <1>4, <1>5, <1>6, <1>7 DEF Verify

\* Nor does an attempt to land.
LEMMA LandCandidateBland ==
    ASSUME Inv, NEW p \in Proc, LandCandidate(p), ~Land(p)
    PROVE  Bland(p)
<1> USE DEF Bland, Unreffed, Reffed, Merged, git, files, ghost, work, local, Goto, LeaveTo, Leave
<1>0. TypeLocal /\ TypeFiles /\ (pc[p] \notin Free => txn[p] \in Txn)
  BY Held DEF Inv, WellFormed, TypeOK
<1>1. CASE QueueBlocked(p)
  BY <1>0, <1>1 DEF QueueBlocked, Fail, TypeLocal
<1>2. CASE ObserveLease(p)
  BY <1>0, <1>2 DEF ObserveLease, TypeLocal
<1>3. CASE WriteLease(p)
  BY <1>0, <1>3 DEF WriteLease, TypeLocal
<1>4. CASE ConfirmLease(p)
  BY <1>0, <1>4 DEF ConfirmLease, Drift, Reject, Proceed, TypeLocal
<1>5. CASE CheckCommit(p)
  BY <1>0, <1>5 DEF CheckCommit, Drift, Reject, Proceed, TypeLocal
<1>6. CASE LandFail(p)
  BY <1>0, <1>6 DEF LandFail, Drift, Reject, Proceed, TypeLocal
<1>7. CASE RecordLanded(p)
  <2>1. \A t \in Txn : \/ journal'[t].cand = journal[t].cand
                       \/ t = txn[p] /\ journal'[t].cand = cand[p]
    BY <1>0, <1>7, AppendCand DEF RecordLanded, Free
  <2> QED BY <1>0, <1>7, <2>1 DEF RecordLanded, TypeLocal
<1> QED BY <1>1, <1>2, <1>3, <1>4, <1>5, <1>6, <1>7 DEF LandCandidate

\* Cleaning up removes a worktree.
LEMMA SettleBland ==
    ASSUME Inv, NEW p \in Proc, Settle(p)
    PROVE  Bland(p)
<1> USE DEF Bland, Unreffed, Reffed, Merged, git, files, ghost, work, local, Goto, LeaveTo, Leave
<1>0. TypeLocal /\ TypeFiles /\ (pc[p] \notin Free => txn[p] \in Txn)
  BY Held DEF Inv, WellFormed, TypeOK
<1>1. CASE DropWorktree(p)
  BY <1>0, <1>1 DEF DropWorktree, TypeLocal, TypeFiles, Free
<1>2. CASE RecordCleaned(p)
  <2>1. \A t \in Txn : \/ journal'[t].cand = journal[t].cand
                       \/ t = txn[p] /\ journal'[t].cand = cand[p]
    BY <1>0, <1>2, AppendCand DEF RecordCleaned, Free
  <2> QED BY <1>0, <1>2, <2>1 DEF RecordCleaned, TypeLocal
<1>3. CASE CloseTask(p)
  BY <1>0, <1>3 DEF CloseTask, TypeLocal
<1>4. CASE CloseFail(p)
  BY <1>0, <1>4 DEF CloseFail, Fail, TypeLocal
<1>5. CASE RecordClosed(p)
  <2>1. \A t \in Txn : \/ journal'[t].cand = journal[t].cand
                       \/ t = txn[p] /\ journal'[t].cand = cand[p]
    BY <1>0, <1>5, AppendCand DEF RecordClosed, Free
  <2> QED BY <1>0, <1>5, <2>1 DEF RecordClosed, TypeLocal
<1> QED BY <1>1, <1>2, <1>3, <1>4, <1>5 DEF Settle

\* Reconciliation follows what is there.
LEMMA ReconcileBland ==
    ASSUME Inv, NEW p \in Proc, Reconcile(p), ~Examine(p)
    PROVE  Bland(p)
<1> USE DEF Bland, Unreffed, Reffed, Merged, git, files, ghost, work, local, Goto, LeaveTo, Leave
<1>0. TypeLocal /\ TypeFiles /\ (pc[p] \notin Free => txn[p] \in Txn)
  BY Held DEF Inv, WellFormed, TypeOK
<1>1. CASE StartScan(p)
  BY <1>0, <1>1 DEF StartScan, TypeLocal
<1>2. CASE CloseScanned(p)
  BY <1>0, <1>2 DEF CloseScanned, TypeLocal
<1>3. CASE CloseScannedFail(p)
  BY <1>0, <1>3 DEF CloseScannedFail, Fail, TypeLocal
<1>4. CASE EndScan(p)
  BY <1>0, <1>4 DEF EndScan, TypeLocal
<1> QED BY <1>1, <1>2, <1>3, <1>4 DEF Reconcile

\* Such a step keeps the sources.
LEMMA BlandKeeps ==
    ASSUME Inv, SourceInv, Next, NEW p \in Proc, OthersKept(p), Bland(p),
           pc[p] \notin Free => txn[p] \in Txn
    PROVE  SourceInv'
<1>0. /\ \A c \in objects : history'[c] = history[c]
      /\ history[target] \subseteq history'[target']
  BY HistoryKept, TargetGrows
<1>1. Sourced'
  <2> SUFFICES ASSUME NEW t \in Txn
               PROVE  /\ manifest[t] # None => TaskOf(t) \in history'[manifest[t]]
                      /\ candRef[t] # None => TaskOf(t) \in history'[candRef[t]]
                      /\ journal'[t].cand # None => TaskOf(t) \in history'[journal'[t].cand]
                      /\ receipt[t] # None => TaskOf(t) \in history'[target']
    BY DEF Sourced, HasSource, Bland
  <2>1. CASE journal'[t].cand = journal[t].cand
    BY <1>0, <2>1, NamedExist DEF SourceInv, Sourced, HasSource
  <2>2. CASE t = txn[p] /\ journal'[t].cand = cand[p]
    BY <1>0, <2>2, NamedExist DEF SourceInv, Sourced, LocalSourced, HasSource
  <2> QED BY <2>1, <2>2 DEF Bland
<1>2. LocalSourced'
  <2> SUFFICES ASSUME NEW q \in Proc, cand'[q] # None
               PROVE  TaskOf(txn'[q]) \in history'[cand'[q]]
    BY DEF LocalSourced, HasSource
  <2>1. cand'[q] = cand[q] /\ txn'[q] = txn[q]
    BY DEF OthersKept, Bland
  <2> QED BY <1>0, <2>1, NamedExist DEF SourceInv, LocalSourced, HasSource
<1>3. RefLast'
  <2>1. \A t \in Txn : journal'[t].cand = journal[t].cand \/ candRef[t] # None
    BY DEF Bland, SourceInv, Generation, GenerationOf
  <2> QED BY <2>1 DEF RefLast, Bland, SourceInv
<1>4. BareWorktree'
  <2> SUFFICES ASSUME NEW t \in Txn
               PROVE  \/ worktree'[t] # None => TaskOf(t) \in history'[worktree'[t]]
                      \/ candRef[t] = None /\ manifest[t] = None
                      \/ candRef[t] # None /\ Differ(manifest[t], candRef[t])
    BY DEF BareWorktree, HasSource, Bland, Differ
  <2>1. worktree'[t] = None \/ (worktree'[t] = worktree[t] /\ worktree[t] \in objects)
    BY NamedExist DEF Bland
  <2> QED BY <1>0, <2>1 DEF SourceInv, BareWorktree, HasSource
<1>5. Generation'
  <2> SUFFICES ASSUME NEW q \in Proc
               PROVE  /\ pc'[q] = "pin" => cand'[q] = None
                      /\ pc'[q] \in Unreffed =>
                           \/ candRef[txn'[q]] # None
                           \/ /\ manifest[txn'[q]] = None /\ journal'[txn'[q]].cand = None
                              /\ cand'[q] = None
                      /\ pc'[q] \in Reffed => candRef[txn'[q]] # None
                      /\ pc'[q] \in Merged /\ worktree'[txn'[q]] # None =>
                           TaskOf(txn'[q]) \in history'[worktree'[txn'[q]]]
    BY DEF Generation, GenerationOf, HasSource, Bland
  <2>1. pc'[q] \in Reffed => pc[q] \in Reffed /\ txn'[q] = txn[q]
    BY DEF OthersKept, Bland
  <2>2. ASSUME pc'[q] \in Unreffed
        PROVE  \/ candRef[txn'[q]] # None
               \/ /\ manifest[txn'[q]] = None /\ journal'[txn'[q]].cand = None
                  /\ cand'[q] = None
    <3>1. pc[q] \in Unreffed \cup Reffed /\ txn'[q] = txn[q] /\ txn[q] \in Txn
      BY <2>2, Held DEF OthersKept, Bland, Unreffed, Reffed, Free, Inv
    <3>2. journal'[txn[q]].cand = journal[txn[q]].cand \/ candRef[txn[q]] # None
      BY <3>1 DEF Bland, SourceInv, Generation, GenerationOf
    <3>3. cand'[q] = None \/ cand'[q] = cand[q]
      BY DEF OthersKept, Bland
    <3> QED BY <3>1, <3>2, <3>3 DEF SourceInv, Generation, GenerationOf
  <2>3. ASSUME pc'[q] \in Merged, worktree'[txn'[q]] # None
        PROVE  TaskOf(txn'[q]) \in history'[worktree'[txn'[q]]]
    <3>1. pc[q] \in Merged /\ txn'[q] = txn[q] /\ txn[q] \in Txn
      BY <2>3, Held DEF OthersKept, Bland, Merged, Free, Inv
    <3>2. worktree'[txn[q]] = worktree[txn[q]] /\ worktree[txn[q]] \in objects
      BY <2>3, <3>1, NamedExist DEF Bland
    <3> QED BY <1>0, <2>3, <3>1, <3>2 DEF SourceInv, Generation, GenerationOf, HasSource
  <2>4. pc'[q] = "pin" => cand'[q] = None
    BY DEF OthersKept, Bland, SourceInv, Generation, GenerationOf
  <2> QED BY <2>1, <2>2, <2>3, <2>4 DEF SourceInv, Generation, GenerationOf
<1> QED BY <1>1, <1>2, <1>3, <1>4, <1>5 DEF SourceInv

\* A close proves a landing.
LEMMA ClosedLanded ==
    ASSUME Inv, NEW t \in Txn, ClosedInBeads(t)
    PROVE  receipt[t] # None
<1>1. PICK c \in MaybeOid : beads[TaskOf(t)] = [txn |-> t, cand |-> c]
  BY DEF ClosedInBeads, MatchingClose, CandidateOid, Inv, WellFormed, TypeOK, TypeGit, TypeFiles
<1>2. TaskOf(t) \in Task /\ beads[TaskOf(t)] # None
  BY <1>1, TxnParts, ClosedIsSome
<1>3. beads[TaskOf(t)] \in Close /\ receipt[t] = c
  BY <1>1, <1>2 DEF Inv, WellFormed, TypeOK, TypeRest, Safe, CloseHasReceipt
<1> QED BY <1>1, <1>3, LandingAssumption DEF Close

\* Reconciliation takes the candidate from the evidence.
LEMMA ExamineSource ==
    ASSUME Inv, SourceInv, NEW p \in Proc, Examine(p), OthersKept(p)
    PROVE  SourceInv'
<1> USE DEF SourceInv
<1>0. /\ TypeLocal /\ TypeFiles /\ pc[p] = "scan"
      /\ UNCHANGED <<history, target, candRef, receipt, worktree, manifest>>
  BY DEF Inv, WellFormed, TypeOK, Examine, git
<1>1. PICK t \in todo[p] : Examine(p)!2!(t)
  BY DEF Examine
<1>2. t \in Txn
  BY <1>0 DEF TypeLocal
<1>3. \A u \in Txn : \/ journal'[u].cand = journal[u].cand
                     \/ u = t /\ journal'[u].cand = CandidateOid(t)
  BY <1>0, <1>1, <1>2 DEF Reconstruct, Reduce, TypeFiles
<1>4. \/ UNCHANGED <<txn, cand>> /\ (UNCHANGED pc \/ pc' = [pc EXCEPT ![p] = "down"])
      \/ /\ txn' = [txn EXCEPT ![p] = t] /\ cand' = [cand EXCEPT ![p] = CandidateOid(t)]
         /\ pc'[p] \in {"close_scan", "drop_scan"}
         /\ Landed(t) \/ ClosedInBeads(t)
  BY <1>0, <1>1 DEF Goto, TypeLocal
<1>5. HasSource(t, CandidateOid(t))
  BY <1>2 DEF CandidateOid, Sourced, HasSource
<1>6. Sourced'
  BY <1>0, <1>3, <1>5 DEF Sourced, HasSource
<1>7. LocalSourced'
  BY <1>0, <1>4, <1>5 DEF LocalSourced, HasSource, TypeLocal
<1>8. RefLast'
  BY <1>0, <1>3 DEF RefLast, CandidateOid
<1>9. BareWorktree'
  BY <1>0 DEF BareWorktree, HasSource, Differ
<1>10. Generation'
  <2>1. ASSUME NEW q \in Proc, q # p
        PROVE  /\ pc'[q] = "pin" => cand'[q] = None
               /\ pc'[q] \in Unreffed =>
                    \/ candRef[txn'[q]] # None
                    \/ /\ manifest[txn'[q]] = None /\ journal'[txn'[q]].cand = None
                       /\ cand'[q] = None
               /\ pc'[q] \in Reffed => candRef[txn'[q]] # None
               /\ pc'[q] \in Merged => HasSource(txn'[q], worktree[txn'[q]])
    <3>1. pc'[q] = pc[q] /\ txn'[q] = txn[q] /\ cand'[q] = cand[q]
      BY <2>1 DEF OthersKept
    <3>2. pc[q] \in Unreffed => txn[q] \in Txn
      BY <2>1, Held DEF Inv, Unreffed, Free
    <3>3. pc[q] \in Unreffed /\ candRef[txn[q]] = None => journal'[txn[q]].cand = None
      BY <1>3, <2>1, <3>2 DEF Generation, GenerationOf, CandidateOid
    <3> QED BY <2>1, <3>1, <3>3 DEF Generation, GenerationOf
  <2>2. /\ pc'[p] \notin Unreffed \cup Merged \cup {"pin"}
        /\ pc'[p] \in Reffed => candRef[txn'[p]] # None
    <3>1. CASE UNCHANGED <<txn, cand>> /\ (UNCHANGED pc \/ pc' = [pc EXCEPT ![p] = "down"])
      BY <1>0, <3>1 DEF TypeLocal, Unreffed, Merged, Reffed
    <3>2. CASE /\ txn' = [txn EXCEPT ![p] = t]
               /\ pc'[p] \in {"close_scan", "drop_scan"}
               /\ Landed(t) \/ ClosedInBeads(t)
      <4>1. candRef[t] # None
        BY <1>2, <3>2, ClosedLanded DEF Landed, RefLast
      <4> QED BY <1>0, <3>2, <4>1 DEF TypeLocal, Unreffed, Merged
    <3> QED BY <1>4, <3>1, <3>2
  <2> QED BY <1>0, <2>1, <2>2 DEF Generation, GenerationOf, HasSource
<1> QED BY <1>6, <1>7, <1>8, <1>9, <1>10

\* A step that touches the evidence of its own transaction does not concern the others.
LEMMA OthersGeneration ==
    ASSUME ClaimsDisjoint, Owns, Inv, Generation, NEW p \in Proc, pc[p] \in Merging,
           OthersKept(p), Next,
           \A u \in Txn : u # txn[p] => /\ manifest'[u] = manifest[u]
                                       /\ worktree'[u] = worktree[u]
                                       /\ journal'[u].cand = journal[u].cand,
           \A u \in Txn : candRef[u] # None => candRef'[u] # None
    PROVE  \A q \in Proc \ {p} : GenerationOf(q)'
<1> SUFFICES ASSUME NEW q \in Proc \ {p} PROVE GenerationOf(q)'
  OBVIOUS
<1>1. pc'[q] = pc[q] /\ txn'[q] = txn[q] /\ cand'[q] = cand[q]
  BY DEF OthersKept
<1>2. pc[q] \in Unreffed \cup Reffed \cup Merged => txn[q] \in Txn
  BY Held DEF Inv, Unreffed, Reffed, Merged, Free
<1>3. pc[q] \in Unreffed \cup Merged => txn[q] # txn[p]
  BY OwnTxn DEF Unreffed, Merged, Merging, Working
<1>4. pc[q] \in Merged => HasSource(txn[q], worktree[txn[q]])'
  <2> SUFFICES ASSUME pc[q] \in Merged, worktree[txn[q]] # None
               PROVE  TaskOf(txn[q]) \in history'[worktree[txn[q]]]
    BY <1>1, <1>2, <1>3 DEF HasSource
  <2> QED BY <1>2, HistoryKept, NamedExist DEF Generation, GenerationOf, HasSource
<1> QED BY <1>1, <1>2, <1>3, <1>4 DEF Generation, GenerationOf

\* A restored candidate has the source, and so has the worktree it is found in.
LEMMA RestoreSource ==
    ASSUME ClaimsDisjoint, Owns, Inv, SourceInv, NEW p \in Proc, Restore(p), OthersKept(p), Next
    PROVE  SourceInv'
<1> USE DEF SourceInv
<1> DEFINE t == txn[p]
           c == RestoredOid(t)
<1>0. /\ TypeLocal /\ TypeGit /\ TypeFiles /\ pc[p] = "pin" /\ t \in Txn /\ c # None
      /\ UNCHANGED <<history, target, receipt, manifest, txn>>
      /\ candRef' = [candRef EXCEPT ![t] = c]
      /\ worktree' = [worktree EXCEPT ![t] = IF @ = None THEN c ELSE @]
      /\ cand' = [cand EXCEPT ![p] = c] /\ pc' = [pc EXCEPT ![p] = "created"]
  BY Held DEF Inv, WellFormed, TypeOK, Restore, Free, Goto
<1>1. HasSource(t, c) /\ c \in {candRef[t], manifest[t]} /\ (candRef[t] # None => c = candRef[t])
  BY <1>0 DEF RestoredOid, Sourced
<1>2. ~Differ(manifest[t], candRef[t])
  BY <1>0 DEF RestoredOid, Differ
<1>3. \A u \in Txn : \/ journal'[u].cand = journal[u].cand
                     \/ u = t /\ journal'[u].cand = c
  BY <1>0, AppendCand DEF Restore
<1>4. HasSource(t, worktree'[t])
  BY <1>0, <1>1, <1>2 DEF BareWorktree, HasSource, TypeFiles
<1> HIDE DEF c
<1>5. Sourced'
  BY <1>0, <1>1, <1>3 DEF Sourced, HasSource, TypeGit
<1>6. LocalSourced'
  BY <1>0, <1>1 DEF LocalSourced, HasSource, TypeLocal
<1>7. RefLast'
  BY <1>0, <1>3 DEF RefLast, TypeGit
<1>8. BareWorktree'
  BY <1>0, <1>4 DEF BareWorktree, HasSource, Differ, TypeGit, TypeFiles
<1>9. Generation'
  <2>1. pc'[p] \in Reffed \ Unreffed /\ candRef'[txn'[p]] # None /\ HasSource(t, worktree'[t])
    BY <1>0, <1>4 DEF TypeLocal, TypeGit, Reffed, Unreffed
  <2>2. \A q \in Proc \ {p} : GenerationOf(q)'
    BY <1>0, <1>1, <1>3, OthersGeneration DEF TypeGit, TypeFiles, Merging, Working
  <2> QED BY <1>0, <2>1, <2>2 DEF Generation, GenerationOf, HasSource, TypeLocal
<1> QED BY <1>5, <1>6, <1>7, <1>8, <1>9

\* A worktree is made anew only where no evidence would have it restored.
LEMMA OpenSource ==
    ASSUME ClaimsDisjoint, Owns, Inv, SourceInv, NEW p \in Proc, Open(p), OthersKept(p), Next
    PROVE  SourceInv'
<1> USE DEF SourceInv
<1> DEFINE t == txn[p]
<1>0. /\ TypeLocal /\ TypeGit /\ TypeFiles /\ pc[p] = "pin" /\ t \in Txn
      /\ UNCHANGED <<history, target, candRef, receipt, manifest, txn, cand>>
      /\ worktree' = [worktree EXCEPT ![t] = BaseOf(t)]
      /\ pc' = [pc EXCEPT ![p] = "building"]
      /\ \A u \in Txn : journal'[u].cand = journal[u].cand
  BY Held DEF Inv, WellFormed, TypeOK, Open, Free, Goto, git, work, Reduce, TypeFiles
<1>1. \/ candRef[t] = None /\ manifest[t] = None /\ journal[t].cand = None
      \/ candRef[t] # None /\ Differ(manifest[t], candRef[t])
  BY <1>0 DEF Open, RestoredOid, Differ, RefLast
<1>2. Sourced' /\ LocalSourced' /\ RefLast'
  BY <1>0 DEF Sourced, LocalSourced, RefLast, HasSource
<1>3. BareWorktree'
  BY <1>0, <1>1 DEF BareWorktree, HasSource, Differ, TypeFiles
<1>4. GenerationOf(p)'
  BY <1>0, <1>1 DEF Generation, GenerationOf, TypeLocal, Unreffed, Reffed, Merged
<1>5. \A q \in Proc \ {p} : GenerationOf(q)'
  BY <1>0, OthersGeneration DEF TypeFiles, Merging, Working
<1> QED BY <1>2, <1>3, <1>4, <1>5 DEF Generation

\* A commit in the worktree of a process, from now on with the source.
LEMMA CommitSource ==
    ASSUME ClaimsDisjoint, Owns, Inv, SourceInv, NEW p \in Proc, OthersKept(p), Next,
           txn[p] \in Txn, pc[p] \in Merging, pc[p] \in Unreffed \cup Reffed,
           UNCHANGED <<target, candRef, receipt, manifest, journal, txn, cand>>,
           \A u \in Txn : u # txn[p] => worktree'[u] = worktree[u],
           HasSource(txn[p], worktree[txn[p]])',
           pc'[p] \in {"merged", "repaired"}, pc'[p] = "repaired" => pc[p] \in Reffed
    PROVE  SourceInv'
<1> USE DEF SourceInv
<1>0. \A c \in objects : history'[c] = history[c]
  BY HistoryKept
<1>1. Sourced'
  <2>1. history[target] \subseteq history'[target']
    BY TargetGrows
  <2> QED BY <1>0, <2>1, NamedExist DEF Sourced, HasSource
<1>2. LocalSourced'
  BY <1>0, NamedExist DEF LocalSourced, HasSource
<1>3. RefLast'
  BY DEF RefLast
<1>4. BareWorktree'
  <2> SUFFICES ASSUME NEW u \in Txn, u # txn[p]
               PROVE  \/ HasSource(u, worktree[u])'
                      \/ candRef[u] = None /\ manifest[u] = None
                      \/ candRef[u] # None /\ Differ(manifest[u], candRef[u])
    BY DEF BareWorktree, Differ
  <2>1. HasSource(u, worktree[u]) => HasSource(u, worktree[u])'
    BY <1>0, NamedExist DEF HasSource
  <2> QED BY <2>1 DEF BareWorktree
<1>5. GenerationOf(p)'
  BY DEF Generation, GenerationOf, Unreffed, Reffed, Merged
<1>6. \A q \in Proc \ {p} : GenerationOf(q)'
  BY OthersGeneration
<1> QED BY <1>1, <1>2, <1>3, <1>4, <1>5, <1>6 DEF Generation

\* The merge brings the source into the worktree.
LEMMA MergeSource ==
    ASSUME ClaimsDisjoint, Owns, Inv, SourceInv, NEW p \in Proc, Merge(p), OthersKept(p), Next
    PROVE  SourceInv'
<1>0. /\ TypeLocal /\ TypeFiles /\ txn[p] \in Txn /\ pc[p] = "building"
      /\ worktree[txn[p]] \in objects /\ pc' = [pc EXCEPT ![p] = "merged"]
      /\ UNCHANGED <<target, candRef, receipt, manifest, journal, txn, cand>>
  BY Held, NamedExist DEF Inv, WellFormed, TypeOK, Merge, Free, Goto, files, work
<1>1. /\ \A u \in Txn : u # txn[p] => worktree'[u] = worktree[u]
      /\ HasSource(txn[p], worktree[txn[p]])'
  <2>1. CASE /\ TaskOf(txn[p]) \in history[worktree[txn[p]]]
             /\ UNCHANGED <<objects, history, worktree>>
    BY <1>0, <2>1 DEF HasSource
  <2>2. CASE /\ NewCommit(worktree[txn[p]], {TaskOf(txn[p])})
             /\ worktree' = [worktree EXCEPT ![txn[p]] = Fresh]
    <3>1. TaskOf(txn[p]) \in history'[Fresh]
      BY <1>0, <2>2, NewCommitGrows DEF Inv, WellFormed, TypeOK, Safe
    <3> QED BY <1>0, <2>2, <3>1 DEF HasSource, TypeFiles
  <2> QED BY <2>1, <2>2 DEF Merge
<1>2. pc[p] \in Merging /\ pc[p] \in Unreffed /\ pc'[p] = "merged"
  BY <1>0 DEF Merging, Working, Unreffed, TypeLocal
<1> QED BY <1>0, <1>1, <1>2, CommitSource

\* A repair is made on top of the source.
LEMMA AgentSource ==
    ASSUME ClaimsDisjoint, Owns, Inv, SourceInv, NEW p \in Proc, AgentCommit(p),
           OthersKept(p), Next
    PROVE  SourceInv'
<1>0. /\ TypeLocal /\ TypeFiles /\ txn[p] \in Txn /\ pc[p] = "repairing"
      /\ worktree[txn[p]] \in objects /\ worktree[txn[p]] # None
      /\ NewCommit(worktree[txn[p]], {})
      /\ worktree' = [worktree EXCEPT ![txn[p]] = Fresh]
      /\ pc' = [pc EXCEPT ![p] = "repaired"]
      /\ UNCHANGED <<target, candRef, receipt, manifest, journal, txn, cand>>
  BY Held, NamedExist DEF Inv, WellFormed, TypeOK, AgentCommit, Free, Goto, files, work
<1>1. /\ \A u \in Txn : u # txn[p] => worktree'[u] = worktree[u]
      /\ HasSource(txn[p], worktree[txn[p]])'
  <2>1. TaskOf(txn[p]) \in history[worktree[txn[p]]]
    BY <1>0 DEF SourceInv, Generation, GenerationOf, Merged, HasSource
  <2>2. history[worktree[txn[p]]] \subseteq history'[Fresh]
    BY <1>0, NewCommitGrows DEF Inv, WellFormed, TypeOK, Safe
  <2> QED BY <1>0, <2>1, <2>2 DEF HasSource, TypeFiles
<1>2. pc[p] \in Merging /\ pc[p] \in Reffed /\ pc'[p] = "repaired"
  BY <1>0 DEF Merging, Working, Reffed, TypeLocal
<1> QED BY <1>0, <1>1, <1>2, CommitSource

\* The manifest names the HEAD of a merged worktree.
LEMMA ManifestSource ==
    ASSUME ClaimsDisjoint, Owns, Inv, SourceInv, NEW p \in Proc, WriteManifest(p),
           OthersKept(p), Next
    PROVE  SourceInv'
<1> USE DEF SourceInv
<1> DEFINE t == txn[p]
<1>0. /\ TypeLocal /\ TypeFiles /\ pc[p] = "merged" /\ t \in Txn /\ worktree[t] # None
      /\ UNCHANGED <<history, target, candRef, receipt, worktree, journal, txn>>
      /\ cand' = [cand EXCEPT ![p] = worktree[t]]
      /\ \/ /\ pc' = [pc EXCEPT ![p] = "created"] /\ UNCHANGED manifest
            /\ worktree[t] = cand[p]
         \/ /\ pc' = [pc EXCEPT ![p] = "manifested"]
            /\ manifest' = [manifest EXCEPT ![t] = worktree[t]]
  BY Held DEF Inv, WellFormed, TypeOK, WriteManifest, Free, Goto, git
<1>1. HasSource(t, worktree[t])
  BY <1>0 DEF Generation, GenerationOf, Merged
<1>2. Sourced'
  BY <1>0, <1>1 DEF Sourced, HasSource, TypeFiles
<1>3. LocalSourced'
  BY <1>0, <1>1 DEF LocalSourced, HasSource, TypeLocal
<1>4. RefLast'
  <2>1. candRef[t] = None => journal[t].cand = None
    BY <1>0 DEF Generation, GenerationOf, Unreffed
  <2> QED BY <1>0, <2>1 DEF RefLast, TypeFiles
<1>5. BareWorktree'
  BY <1>0, <1>1 DEF BareWorktree, HasSource, Differ, TypeFiles
<1>6. GenerationOf(p)'
  <2>1. worktree[t] = cand[p] => candRef[t] # None
    BY <1>0 DEF Generation, GenerationOf, Unreffed
  <2> QED BY <1>0, <1>1, <2>1
          DEF GenerationOf, HasSource, TypeLocal, Unreffed, Reffed, Merged
<1>7. \A q \in Proc \ {p} : GenerationOf(q)'
  BY <1>0, OthersGeneration DEF TypeFiles, Merging, Working
<1> QED BY <1>2, <1>3, <1>4, <1>5, <1>6, <1>7 DEF Generation

\* The ref follows the manifest.
LEMMA RefSource ==
    ASSUME ClaimsDisjoint, Owns, Inv, SourceInv, NEW p \in Proc, WriteRef(p), OthersKept(p), Next
    PROVE  SourceInv'
<1> USE DEF SourceInv
<1> DEFINE t == txn[p]
<1>0. /\ TypeLocal /\ TypeGit /\ pc[p] = "manifested" /\ t \in Txn /\ cand[p] # None
      /\ UNCHANGED <<history, target, receipt, worktree, manifest, journal, txn, cand>>
      /\ candRef' = [candRef EXCEPT ![t] = cand[p]]
      /\ pc' = [pc EXCEPT ![p] = "reffed"]
  BY Held, LandingAssumption
     DEF Inv, WellFormed, TypeOK, WriteRef, Free, Unbuilt, Goto, files, work
<1>1. HasSource(t, worktree[t]) /\ HasSource(t, cand[p])
  BY <1>0 DEF Generation, GenerationOf, Merged, LocalSourced
<1>2. Sourced'
  BY <1>0, <1>1 DEF Sourced, HasSource, TypeGit
<1>3. LocalSourced'
  BY <1>0 DEF LocalSourced, HasSource
<1>4. RefLast'
  BY <1>0 DEF RefLast, TypeGit
<1>5. BareWorktree'
  BY <1>0, <1>1 DEF BareWorktree, HasSource, Differ, TypeGit
<1>6. GenerationOf(p)'
  BY <1>0, <1>1 DEF GenerationOf, HasSource, TypeLocal, TypeGit, Unreffed, Reffed, Merged
<1>7. \A q \in Proc \ {p} : GenerationOf(q)'
  BY <1>0, OthersGeneration DEF TypeGit, Merging, Working
<1> QED BY <1>2, <1>3, <1>4, <1>5, <1>6, <1>7 DEF Generation

\* The candidate that becomes the target has the source of its task.
LEMMA LandSource ==
    ASSUME Inv, SourceInv, NEW p \in Proc, Land(p), OthersKept(p), Next
    PROVE  SourceInv'
<1> USE DEF SourceInv
<1> DEFINE t == txn[p]
<1>0. /\ TypeLocal /\ TypeGit /\ pc[p] = "cas" /\ t \in Txn /\ cand[p] # None
      /\ UNCHANGED <<history, candRef, worktree, manifest, journal, txn, cand>>
      /\ target' = cand[p] /\ receipt' = [receipt EXCEPT ![t] = cand[p]]
      /\ pc' = [pc EXCEPT ![p] = "landed"]
  BY Held, LandingAssumption
     DEF Inv, WellFormed, TypeOK, Land, Free, Unbuilt, Goto, files, work
<1>1. history[target] \subseteq history[target'] /\ HasSource(t, cand[p])
  BY <1>0, TargetGrows DEF LocalSourced
<1>2. Sourced'
  BY <1>0, <1>1 DEF Sourced, HasSource, TypeGit
<1>3. LocalSourced' /\ BareWorktree'
  BY <1>0 DEF LocalSourced, BareWorktree, HasSource, Differ
<1>4. RefLast'
  <2>1. candRef[t] # None
    BY <1>0 DEF Generation, GenerationOf, Reffed
  <2> QED BY <1>0, <2>1 DEF RefLast, TypeGit
<1>5. Generation'
  BY <1>0 DEF Generation, GenerationOf, HasSource, TypeLocal, Unreffed, Reffed, Merged
<1> QED BY <1>2, <1>3, <1>4, <1>5

\* A commit of others changes no evidence.
LEMMA AdvanceSource ==
    ASSUME Inv, SourceInv, Advance PROVE SourceInv'
<1> USE DEF SourceInv
<1>0. /\ UNCHANGED <<candRef, receipt, worktree, manifest, journal, txn, cand, pc>>
      /\ \A c \in objects : history'[c] = history[c]
      /\ history[target] \subseteq history'[target']
  BY HistoryKept, TargetGrows DEF Next, Advance, files, local, work
<1>1. \A u \in Txn : \A c : (c # None => c \in objects) /\ HasSource(u, c) => HasSource(u, c)'
  BY <1>0 DEF HasSource
<1>2. Sourced'
  BY <1>0, NamedExist DEF Sourced, HasSource
<1>3. LocalSourced'
  BY <1>0, NamedExist DEF LocalSourced, HasSource
<1>4. RefLast'
  BY <1>0 DEF RefLast
<1>5. BareWorktree'
  BY <1>0, NamedExist DEF BareWorktree, HasSource, Differ
<1>6. Generation'
  <2> SUFFICES ASSUME NEW q \in Proc PROVE GenerationOf(q)'
    BY DEF Generation
  <2>1. pc[q] \in Merged => txn[q] \in Txn
    BY Held DEF Inv, Merged, Free
  <2>2. pc[q] \in Merged => HasSource(txn[q], worktree[txn[q]])'
    BY <1>0, <2>1, NamedExist DEF Generation, GenerationOf, HasSource
  <2> QED BY <1>0, <2>2 DEF Generation, GenerationOf
<1> QED BY <1>2, <1>3, <1>4, <1>5, <1>6

\* Every step keeps the sources.
LEMMA SourceStep ==
    ASSUME ClaimsDisjoint, Owns, Inv, SourceInv, [Next]_vars PROVE SourceInv'
<1>1. ASSUME NEW p \in Proc, Step(p) PROVE SourceInv'
  <2>0. Next /\ OthersKept(p) /\ (pc[p] \notin Free => txn[p] \in Txn)
    BY <1>1, StepOthers, Held DEF Next, Inv
  <2>1. CASE Examine(p) \/ Restore(p) \/ Open(p) \/ Merge(p) \/ AgentCommit(p)
             \/ WriteManifest(p) \/ WriteRef(p) \/ Land(p)
    BY <2>0, <2>1, ExamineSource, RestoreSource, OpenSource, MergeSource, AgentSource,
       ManifestSource, RefSource, LandSource
  <2>2. CASE ~(Examine(p) \/ Restore(p) \/ Open(p) \/ Merge(p) \/ AgentCommit(p)
               \/ WriteManifest(p) \/ WriteRef(p) \/ Land(p))
    <3>1. Bland(p)
      BY <1>1, <2>2, BuildBland, VerifyBland, LandCandidateBland, SettleBland, ReconcileBland
         DEF Step
    <3> QED BY <2>0, <3>1, BlandKeeps
  <2> QED BY <2>1, <2>2
<1>2. CASE \E p \in Proc : Crash(p)
  <2>1. PICK p \in Proc : Crash(p)
    BY <1>2
  <2>2. OthersKept(p) /\ Bland(p)
    BY <2>1 DEF Crash, LeaveTo, Goto, git, OthersKept, Bland, Unreffed, Reffed, Merged, Inv,
                WellFormed, TypeOK, TypeLocal
  <2> QED BY <1>2, <2>1, <2>2, BlandKeeps, Held DEF Next, Inv
<1>3. CASE Advance
  BY <1>3, AdvanceSource
<1>4. CASE UNCHANGED vars
  BY <1>4 DEF vars, git, files, local, work, SourceInv, Sourced, LocalSourced, RefLast,
              BareWorktree, Generation, GenerationOf, HasSource, Differ
<1> QED BY <1>1, <1>2, <1>3, <1>4 DEF Next

-----------------------------------------------------------------------------
(* The theorems *)

\* The initial state satisfies the invariant.
LEMMA FullInit == Init => FullInv
<1> SUFFICES ASSUME Init PROVE FullInv
  OBVIOUS
<1>1. SourceInv
  BY DEF Init, SourceInv, Sourced, LocalSourced, RefLast, BareWorktree, Generation,
         GenerationOf, HasSource, Unreffed, Reffed, Merged
<1> QED BY <1>1, OnceInit DEF FullInv

\* With disjoint claims every candidate has the source of its task.
THEOREM FullInvHolds == ASSUME ClaimsDisjoint PROVE Spec => []FullInv
<1>1. FullInv /\ [Next]_vars => FullInv'
  BY OnceStep, SourceStep DEF FullInv, OnceInv, Selection
<1> QED BY <1>1, FullInit, PTL DEF Spec

\* The source of a closed task is contained in the publish target, from the close on.
THEOREM ClosedContained == ASSUME ClaimsDisjoint PROVE Spec => []ClosedIsContained
<1>1. FullInv => ClosedIsContained
  <2> SUFFICES ASSUME FullInv, NEW a \in Task, beads[a] # None
               PROVE  a \in history[target]
    BY DEF ClosedIsContained
  <2>1. /\ beads[a].txn \in Txn /\ beads[a].cand # None
        /\ TaskOf(beads[a].txn) = a /\ receipt[beads[a].txn] = beads[a].cand
    BY LandingAssumption DEF FullInv, OnceInv, Inv, WellFormed, TypeOK, TypeRest, Close, Safe,
                             CloseHasReceipt
  <2> QED BY <2>1 DEF FullInv, SourceInv, Sourced
<1> QED BY <1>1, FullInvHolds, PTL

-----------------------------------------------------------------------------
(* Only what the verifier accepted lands *)

\* The worktree of the process may have a HEAD that no ref names ...
Changing == {"building", "merged", "manifested", "unverified", "repairing", "repaired",
             "drop_fail"}

\* ... and where a candidate it holds is the one the ref names.
Holding == {"merged", "reffed", "created", "verified", "unverified", "repairing", "repaired"}

AcceptedOf(p) ==
    /\ pc[p] = "building" => cand[p] = None
    /\ pc[p] \in Holding /\ cand[p] # None => candRef[txn[p]] = cand[p]
    /\ pc[p] = "manifested" => worktree[txn[p]] \in {None, cand[p]}
    /\ pc[p] \in {"verified", "cas"} => cand[p] \in passed

\* A worktree nobody is changing has the candidate its ref names, or there is none yet.
KeptAsRef ==
    \A t \in Txn : \/ \E p \in Proc : pc[p] \in Changing /\ txn[p] = t
                   \/ worktree[t] \in {None, candRef[t]}
                   \/ candRef[t] = None /\ manifest[t] = None

\* A verification is bound to a commit the verifier accepted.
BoundIsVerified == \A t \in Txn : artifact[t] # None => artifact[t] \in passed

Accepted == BoundIsVerified /\ LandedIsVerified /\ KeptAsRef /\ \A p \in Proc : AcceptedOf(p)

AcceptedInv == crashes = 0 => Accepted

\* The step verifies nothing, names no candidate and changes no HEAD.
Plain(p) ==
    /\ UNCHANGED <<passed, candRef, manifest, receipt, crashes>>
    /\ \A t \in Txn : /\ worktree'[t] \in {worktree[t], None}
                      /\ artifact'[t] \in {artifact[t], None}
    /\ pc[p] \in Changing =>
         (pc'[p] \in Changing /\ txn'[p] = txn[p]) \/ worktree'[txn[p]] = None
    /\ pc'[p] \notin {"building", "manifested", "verified"}
    /\ pc'[p] \in Holding =>
         /\ pc[p] \in Holding
         /\ cand'[p] = cand[p] /\ txn'[p] = txn[p]
    /\ pc'[p] = "cas" =>
         pc[p] = "commit" /\ cand'[p] = cand[p] /\ artifact[txn[p]] = cand[p]

\* Most steps of a build are plain, ...
LEMMA BuildPlain ==
    ASSUME Inv, NEW p \in Proc, Build(p),
           ~Restore(p), ~Open(p), ~Merge(p), ~WriteManifest(p), ~WriteRef(p)
    PROVE  Plain(p)
<1> USE DEF Plain, Changing, Holding, git, files, ghost, aux, work, local, Goto, LeaveTo, Leave
<1>0. TypeLocal /\ TypeFiles /\ (pc[p] \notin Free => txn[p] \in Txn)
  BY Held DEF Inv, WellFormed, TypeOK
<1>1. CASE Begin(p)
  BY <1>0, <1>1 DEF Begin, Pin, TypeLocal
<1>2. CASE Rebuild(p)
  BY <1>0, <1>2 DEF Rebuild, Pin, TypeLocal
<1>3. CASE RefuseIncident(p)
  BY <1>0, <1>3 DEF RefuseIncident, TypeLocal
<1>4. CASE OpenTorn(p)
  BY <1>0, <1>4 DEF OpenTorn, TypeLocal
<1>5. CASE MergeFail(p)
  BY <1>0, <1>5 DEF MergeFail, Fail, TypeLocal, TypeFiles, Free
<1>6. CASE RecordCreated(p)
  BY <1>0, <1>6 DEF RecordCreated, TypeLocal
<1> QED BY <1>1, <1>2, <1>3, <1>4, <1>5, <1>6 DEF Build

\* ... so is what follows a verification, ...
LEMMA VerifyPlain ==
    ASSUME Inv, NEW p \in Proc, Verify(p), ~AgentCommit(p), ~VerifyPass(p), ~BindVerification(p)
    PROVE  Plain(p)
<1> USE DEF Plain, Changing, Holding, git, files, ghost, aux, work, local, Goto, LeaveTo, Leave
<1>0. TypeLocal
  BY DEF Inv, WellFormed, TypeOK
<1>1. CASE VerifyFail(p)
  BY <1>0, <1>1 DEF VerifyFail, Fail, TypeLocal
<1>2. CASE StartRepair(p)
  BY <1>0, <1>2 DEF StartRepair, TypeLocal
<1>3. CASE EndRepair(p)
  BY <1>0, <1>3 DEF EndRepair, Fail, TypeLocal
<1>4. CASE ExhaustRepairs(p)
  BY <1>0, <1>4 DEF ExhaustRepairs, TypeLocal
<1>5. CASE RecordVerified(p)
  BY <1>0, <1>5 DEF RecordVerified, TypeLocal
<1> QED BY <1>1, <1>2, <1>3, <1>4, <1>5 DEF Verify

\* ... an attempt to land, which checks what it is about to land, ...
LEMMA LandCandidatePlain ==
    ASSUME Inv, NEW p \in Proc, LandCandidate(p), ~Land(p)
    PROVE  Plain(p)
<1> USE DEF Plain, Changing, Holding, git, files, ghost, aux, work, local, Goto, LeaveTo, Leave
<1>0. TypeLocal /\ TypeFiles /\ (pc[p] \notin Free => txn[p] \in Txn)
  BY Held DEF Inv, WellFormed, TypeOK
<1>1. CASE QueueBlocked(p)
  BY <1>0, <1>1 DEF QueueBlocked, Fail, TypeLocal
<1>2. CASE ObserveLease(p)
  BY <1>0, <1>2 DEF ObserveLease, TypeLocal
<1>3. CASE WriteLease(p)
  BY <1>0, <1>3 DEF WriteLease, TypeLocal
<1>4. CASE ConfirmLease(p)
  BY <1>0, <1>4 DEF ConfirmLease, Drift, Reject, Proceed, TypeLocal, TypeFiles, Free
<1>5. CASE CheckCommit(p)
  BY <1>0, <1>5 DEF CheckCommit, Drift, Reject, Proceed, IsVerified, TypeLocal, TypeFiles, Free
<1>6. CASE LandFail(p)
  BY <1>0, <1>6 DEF LandFail, Drift, Reject, Proceed, TypeLocal, TypeFiles, Free
<1>7. CASE RecordLanded(p)
  BY <1>0, <1>7 DEF RecordLanded, TypeLocal
<1> QED BY <1>1, <1>2, <1>3, <1>4, <1>5, <1>6, <1>7 DEF LandCandidate

\* ... cleaning up ...
LEMMA SettlePlain ==
    ASSUME Inv, NEW p \in Proc, Settle(p)
    PROVE  Plain(p)
<1> USE DEF Plain, Changing, Holding, git, files, ghost, aux, work, local, Goto, LeaveTo, Leave
<1>0. TypeLocal /\ TypeFiles /\ (pc[p] \notin Free => txn[p] \in Txn)
  BY Held DEF Inv, WellFormed, TypeOK
<1>1. CASE DropWorktree(p)
  BY <1>0, <1>1 DEF DropWorktree, TypeLocal, TypeFiles, Free
<1>2. CASE RecordCleaned(p)
  BY <1>0, <1>2 DEF RecordCleaned, TypeLocal
<1>3. CASE CloseTask(p)
  BY <1>0, <1>3 DEF CloseTask, TypeLocal
<1>4. CASE CloseFail(p)
  BY <1>0, <1>4 DEF CloseFail, Fail, TypeLocal
<1>5. CASE RecordClosed(p)
  BY <1>0, <1>5 DEF RecordClosed, TypeLocal
<1> QED BY <1>1, <1>2, <1>3, <1>4, <1>5 DEF Settle

\* ... and reconciliation.
LEMMA ReconcilePlain ==
    ASSUME Inv, NEW p \in Proc, Reconcile(p)
    PROVE  Plain(p)
<1> USE DEF Plain, Changing, Holding, git, files, ghost, aux, work, local, Goto, LeaveTo, Leave
<1>0. TypeLocal
  BY DEF Inv, WellFormed, TypeOK
<1>1. CASE StartScan(p)
  BY <1>0, <1>1 DEF StartScan, TypeLocal
<1>2. CASE CloseScanned(p)
  BY <1>0, <1>2 DEF CloseScanned, TypeLocal
<1>3. CASE CloseScannedFail(p)
  BY <1>0, <1>3 DEF CloseScannedFail, Fail, TypeLocal
<1>4. CASE EndScan(p)
  BY <1>0, <1>4 DEF EndScan, TypeLocal
<1>5. CASE Examine(p)
  <2>1. pc[p] = "scan" /\ pc'[p] \in {"scan", "down", "close_scan", "drop_scan"}
    BY <1>0, <1>5 DEF Examine, TypeLocal
  <2>2. UNCHANGED <<passed, candRef, manifest, receipt, crashes, worktree, artifact>>
    BY <1>5 DEF Examine
  <2> QED BY <2>1, <2>2
<1> QED BY <1>1, <1>2, <1>3, <1>4, <1>5 DEF Reconcile

\* A step that leaves refs and manifests of others alone does not concern the others.
LEMMA OthersAccepted ==
    ASSUME ClaimsDisjoint, Owns, Inv, NEW p \in Proc, OthersKept(p),
           \A q \in Proc : AcceptedOf(q), passed \subseteq passed',
           \A t \in Txn : \/ candRef'[t] = candRef[t] /\ worktree'[t] \in {worktree[t], None}
                          \/ t = txn[p] /\ pc[p] \in Merging
    PROVE  \A q \in Proc \ {p} : AcceptedOf(q)'
<1> SUFFICES ASSUME NEW q \in Proc \ {p} PROVE AcceptedOf(q)'
  OBVIOUS
<1>1. pc'[q] = pc[q] /\ txn'[q] = txn[q] /\ cand'[q] = cand[q]
  BY DEF OthersKept
<1>2. ASSUME pc[q] \in Holding \cup {"manifested"}
      PROVE  candRef'[txn[q]] = candRef[txn[q]] /\ worktree'[txn[q]] \in {worktree[txn[q]], None}
  <2>1. txn[q] \in Txn /\ pc[q] \in Merging
    BY <1>2, Held DEF Inv, Holding, Free, Merging, Working
  <2>2. pc[p] \in Merging => txn[q] # txn[p]
    BY <2>1, OwnTxn
  <2> QED BY <2>1, <2>2
<1> QED BY <1>1, <1>2 DEF AcceptedOf

\* What was kept as the ref names it stays so, up to the transaction of the process.
LEMMA OthersAsRef ==
    ASSUME KeptAsRef, NEW p \in Proc, OthersKept(p), NEW t \in Txn,
           candRef'[t] = candRef[t] /\ manifest'[t] = manifest[t],
           worktree'[t] \in {worktree[t], None},
           pc[p] \in Changing /\ txn[p] = t =>
               (pc'[p] \in Changing /\ txn'[p] = t) \/ worktree'[t] = None
    PROVE  \/ \E q \in Proc : pc'[q] \in Changing /\ txn'[q] = t
           \/ worktree'[t] \in {None, candRef'[t]}
           \/ candRef'[t] = None /\ manifest'[t] = None
<1>1. CASE \E q \in Proc : pc[q] \in Changing /\ txn[q] = t
  BY <1>1 DEF OthersKept
<1>2. CASE ~\E q \in Proc : pc[q] \in Changing /\ txn[q] = t
  BY <1>2 DEF KeptAsRef
<1> QED BY <1>1, <1>2

\* A plain step keeps the invariant.
LEMMA PlainKeeps ==
    ASSUME ClaimsDisjoint, Owns, Inv, AcceptedInv, NEW p \in Proc, OthersKept(p), Plain(p)
    PROVE  AcceptedInv'
<1> SUFFICES ASSUME crashes = 0, BoundIsVerified, LandedIsVerified, KeptAsRef,
                    \A q \in Proc : AcceptedOf(q)
             PROVE  /\ BoundIsVerified' /\ LandedIsVerified' /\ KeptAsRef'
                    /\ \A q \in Proc : AcceptedOf(q)'
  BY DEF AcceptedInv, Accepted, Plain
<1>1. BoundIsVerified' /\ LandedIsVerified'
  BY DEF BoundIsVerified, LandedIsVerified, Plain
<1>2. KeptAsRef'
  <2> SUFFICES ASSUME NEW t \in Txn
               PROVE  \/ \E q \in Proc : pc'[q] \in Changing /\ txn'[q] = t
                      \/ worktree'[t] \in {None, candRef'[t]}
                      \/ candRef'[t] = None /\ manifest'[t] = None
    BY DEF KeptAsRef
  <2> QED BY OthersAsRef DEF Plain
<1>3. \A q \in Proc \ {p} : AcceptedOf(q)'
  BY OthersAccepted DEF Plain
<1>4. AcceptedOf(p)'
  <2>1. pc'[p] = "cas" => cand'[p] \in passed
    <3> SUFFICES ASSUME pc'[p] = "cas" PROVE cand[p] \in passed
      BY DEF Plain
    <3>1. artifact[txn[p]] = cand[p] /\ pc[p] = "commit"
      BY DEF Plain
    <3>2. txn[p] \in Txn /\ cand[p] # None
      BY <3>1, Held, LandingAssumption DEF Inv, Free, Unbuilt
    <3> QED BY <3>1, <3>2 DEF BoundIsVerified
  <2>2. pc'[p] \in Holding /\ cand'[p] # None => candRef'[txn'[p]] = cand'[p]
    BY DEF Plain, AcceptedOf
  <2> QED BY <2>1, <2>2 DEF Plain, AcceptedOf
<1> QED BY <1>1, <1>2, <1>3, <1>4

\* A step that makes or names a commit keeps the invariant if it does for the process.
LEMMA OwnKeeps ==
    ASSUME ClaimsDisjoint, Owns, Inv, Accepted, NEW p \in Proc, OthersKept(p),
           pc[p] \in Merging, UNCHANGED <<artifact, receipt, passed>>,
           \A t \in Txn : t # txn[p] => candRef'[t] = candRef[t] /\ manifest'[t] = manifest[t]
                                        /\ worktree'[t] = worktree[t],
           AcceptedOf(p)',
           \/ pc'[p] \in Changing /\ txn'[p] = txn[p]
           \/ worktree'[txn[p]] \in {None, candRef'[txn[p]]}
    PROVE  Accepted'
<1>1. BoundIsVerified' /\ LandedIsVerified'
  BY DEF Accepted, BoundIsVerified, LandedIsVerified
<1>2. KeptAsRef'
  <2> SUFFICES ASSUME NEW t \in Txn
               PROVE  \/ \E q \in Proc : pc'[q] \in Changing /\ txn'[q] = t
                      \/ worktree'[t] \in {None, candRef'[t]}
                      \/ candRef'[t] = None /\ manifest'[t] = None
    BY DEF KeptAsRef
  <2>1. CASE t = txn[p]
    BY <2>1
  <2>2. CASE t # txn[p]
    BY <2>2, OthersAsRef DEF Accepted
  <2> QED BY <2>1, <2>2
<1>3. \A q \in Proc \ {p} : AcceptedOf(q)'
  <2>1. \A t \in Txn : \/ candRef'[t] = candRef[t] /\ worktree'[t] \in {worktree[t], None}
                       \/ t = txn[p] /\ pc[p] \in Merging
    OBVIOUS
  <2> QED BY <2>1, OthersAccepted DEF Accepted
<1> QED BY <1>1, <1>2, <1>3 DEF Accepted

\* Nobody else is changing the worktree of a process.
LEMMA OwnWorktree ==
    ASSUME ClaimsDisjoint, Owns, KeptAsRef, NEW p \in Proc, txn[p] \in Txn,
           pc[p] \in Merging \ Changing
    PROVE  \/ worktree[txn[p]] \in {None, candRef[txn[p]]}
           \/ candRef[txn[p]] = None /\ manifest[txn[p]] = None
<1>1. \A q \in Proc : pc[q] \in Changing => pc[q] \in Merging
  BY DEF Changing, Merging, Working
<1>2. \A q \in Proc : ~(pc[q] \in Changing /\ txn[q] = txn[p])
  BY <1>1, OwnTxn
<1> QED BY <1>2 DEF KeptAsRef

\* A candidate is restored to the worktree it was found in.
LEMMA RestoreAccepted ==
    ASSUME ClaimsDisjoint, Owns, Inv, Accepted, NEW p \in Proc, OthersKept(p), Restore(p)
    PROVE  Accepted'
<1> DEFINE t == txn[p]
           c == RestoredOid(t)
<1>0. /\ TypeLocal /\ TypeGit /\ TypeFiles /\ pc[p] = "pin" /\ t \in Txn /\ c # None
      /\ UNCHANGED <<artifact, receipt, passed, manifest, txn>>
      /\ candRef' = [candRef EXCEPT ![t] = c]
      /\ worktree' = [worktree EXCEPT ![t] = IF @ = None THEN c ELSE @]
      /\ cand' = [cand EXCEPT ![p] = c] /\ pc' = [pc EXCEPT ![p] = "created"]
  BY Held DEF Inv, WellFormed, TypeOK, Restore, Free, Goto, ghost
<1>1. worktree[t] \in {None, c}
  <2>1. pc[p] \in Merging \ Changing
    BY <1>0 DEF Merging, Working, Changing
  <2>2. \/ worktree[t] \in {None, candRef[t]}
        \/ candRef[t] = None /\ manifest[t] = None
    BY <1>0, <2>1, OwnWorktree DEF Accepted
  <2> QED BY <1>0, <2>2 DEF RestoredOid
<1> HIDE DEF c
<1>2. worktree'[t] \in {None, candRef'[t]}
  BY <1>0, <1>1 DEF TypeGit, TypeFiles
<1>3. AcceptedOf(p)'
  BY <1>0 DEF AcceptedOf, TypeLocal, TypeGit
<1>4. \A u \in Txn : u # t => candRef'[u] = candRef[u] /\ manifest'[u] = manifest[u]
                               /\ worktree'[u] = worktree[u]
  BY <1>0
<1>5. pc[p] \in Merging
  BY <1>0 DEF Merging, Working
<1> HIDE DEF t
<1>6. UNCHANGED <<artifact, receipt, passed>>
  BY <1>0
<1> QED BY <1>2, <1>3, <1>4, <1>5, <1>6, OwnKeeps DEF t

\* A worktree that is made anew belongs to its process.
LEMMA OpenAccepted ==
    ASSUME ClaimsDisjoint, Owns, Inv, Accepted, Generation, NEW p \in Proc, OthersKept(p), Open(p)
    PROVE  Accepted'
<1>0. /\ TypeLocal /\ TypeFiles /\ pc[p] = "pin" /\ cand[p] = None
      /\ UNCHANGED <<candRef, artifact, receipt, passed, manifest, txn, cand>>
      /\ worktree' = [worktree EXCEPT ![txn[p]] = BaseOf(txn[p])]
      /\ pc' = [pc EXCEPT ![p] = "building"]
  BY DEF Inv, WellFormed, TypeOK, Open, Goto, git, work, ghost, Generation, GenerationOf
<1>1. AcceptedOf(p)' /\ pc'[p] \in Changing /\ pc[p] \in Merging
  BY <1>0 DEF AcceptedOf, TypeLocal, Holding, Changing, Merging, Working
<1> QED BY <1>0, <1>1, OwnKeeps DEF TypeFiles

\* A merge or a repair moves HEAD and nothing else.
LEMMA CommitAccepted ==
    ASSUME ClaimsDisjoint, Owns, Inv, Accepted, NEW p \in Proc, OthersKept(p),
           Merge(p) \/ AgentCommit(p)
    PROVE  Accepted'
<1>0. /\ TypeLocal /\ TypeFiles
      /\ UNCHANGED <<candRef, artifact, receipt, passed, manifest, txn, cand>>
      /\ \A u \in Txn : u # txn[p] => worktree'[u] = worktree[u]
      /\ \/ pc[p] = "building" /\ pc' = [pc EXCEPT ![p] = "merged"]
         \/ pc[p] = "repairing" /\ pc' = [pc EXCEPT ![p] = "repaired"]
  BY DEF Inv, WellFormed, TypeOK, Merge, AgentCommit, Goto, files, work, ghost, TypeFiles
<1>1. AcceptedOf(p)
  BY DEF Accepted
<1>2. AcceptedOf(p)' /\ pc'[p] \in Changing /\ pc[p] \in Merging
  BY <1>0, <1>1 DEF AcceptedOf, TypeLocal, Holding, Changing, Merging, Working
<1> QED BY <1>0, <1>2, OwnKeeps

\* The manifest names HEAD, which the ref does already if it is the candidate held.
LEMMA ManifestAccepted ==
    ASSUME ClaimsDisjoint, Owns, Inv, Accepted, NEW p \in Proc, OthersKept(p), WriteManifest(p)
    PROVE  Accepted'
<1> DEFINE t == txn[p]
<1>0. /\ TypeLocal /\ TypeFiles /\ pc[p] = "merged" /\ worktree[t] # None
      /\ UNCHANGED <<candRef, artifact, receipt, passed, worktree, txn>>
      /\ cand' = [cand EXCEPT ![p] = worktree[t]]
      /\ \/ /\ pc' = [pc EXCEPT ![p] = "created"] /\ UNCHANGED manifest
            /\ worktree[t] = cand[p]
         \/ /\ pc' = [pc EXCEPT ![p] = "manifested"]
            /\ manifest' = [manifest EXCEPT ![t] = worktree[t]]
  BY DEF Inv, WellFormed, TypeOK, WriteManifest, Goto, git, ghost
<1>1. worktree[t] = cand[p] => candRef[t] = cand[p]
  BY <1>0 DEF Accepted, AcceptedOf, Holding
<1>2. AcceptedOf(p)' /\ pc[p] \in Merging
  BY <1>0, <1>1 DEF AcceptedOf, TypeLocal, Holding, Merging, Working
<1>3. \/ pc'[p] \in Changing /\ txn'[p] = txn[p]
      \/ worktree'[t] \in {None, candRef'[t]}
  BY <1>0, <1>1 DEF TypeLocal, Changing
<1>4. \A u \in Txn : u # t => candRef'[u] = candRef[u] /\ manifest'[u] = manifest[u]
                               /\ worktree'[u] = worktree[u]
  BY <1>0 DEF TypeFiles
<1> QED BY <1>0, <1>2, <1>3, <1>4, OwnKeeps

\* The ref follows.
LEMMA RefAccepted ==
    ASSUME ClaimsDisjoint, Owns, Inv, Accepted, NEW p \in Proc, OthersKept(p), WriteRef(p)
    PROVE  Accepted'
<1> DEFINE t == txn[p]
<1>0. /\ TypeLocal /\ TypeGit /\ pc[p] = "manifested" /\ t \in Txn
      /\ UNCHANGED <<artifact, receipt, passed, manifest, worktree, txn, cand>>
      /\ candRef' = [candRef EXCEPT ![t] = cand[p]]
      /\ pc' = [pc EXCEPT ![p] = "reffed"]
  BY Held DEF Inv, WellFormed, TypeOK, WriteRef, Free, Goto, files, work, ghost
<1>1. worktree'[t] \in {None, candRef'[t]}
  BY <1>0 DEF Accepted, AcceptedOf, TypeGit
<1>2. AcceptedOf(p)' /\ pc[p] \in Merging
  BY <1>0 DEF AcceptedOf, TypeLocal, TypeGit, Holding, Merging, Working
<1>3. \A u \in Txn : u # t => candRef'[u] = candRef[u] /\ manifest'[u] = manifest[u]
                               /\ worktree'[u] = worktree[u]
  BY <1>0 DEF TypeGit
<1> QED BY <1>0, <1>1, <1>2, <1>3, OwnKeeps

\* The verifier runs on HEAD, which is the candidate.
LEMMA PassAccepted ==
    ASSUME ClaimsDisjoint, Owns, Inv, Accepted, NEW p \in Proc, OthersKept(p), VerifyPass(p)
    PROVE  Accepted'
<1> DEFINE t == txn[p]
<1>0. /\ TypeLocal /\ pc[p] = "created" /\ t \in Txn /\ cand[p] # None
      /\ worktree[t] # None /\ passed' = passed \cup {worktree[t]}
      /\ UNCHANGED <<candRef, artifact, receipt, manifest, worktree, txn, cand>>
      /\ pc' = [pc EXCEPT ![p] = "verified"]
  BY Held, LandingAssumption
     DEF Inv, WellFormed, TypeOK, VerifyPass, Free, Unbuilt, Goto, git, files, work
<1>1. candRef[t] = cand[p]
  BY <1>0 DEF Accepted, AcceptedOf, Holding
<1>2. worktree[t] = cand[p]
  <2>1. pc[p] \in Merging \ Changing
    BY <1>0 DEF Merging, Working, Changing
  <2> QED BY <1>0, <1>1, <2>1, OwnWorktree DEF Accepted
<1>3. BoundIsVerified' /\ LandedIsVerified'
  BY <1>0 DEF Accepted, BoundIsVerified, LandedIsVerified
<1>4. KeptAsRef'
  <2>1. ~(pc[p] \in Changing)
    BY <1>0 DEF Changing
  <2> QED BY <1>0, <2>1, OthersAsRef DEF Accepted, KeptAsRef
<1>5. \A q \in Proc \ {p} : AcceptedOf(q)'
  BY <1>0, OthersAccepted DEF Accepted
<1>6. AcceptedOf(p)'
  BY <1>0, <1>1, <1>2 DEF AcceptedOf, TypeLocal
<1> QED BY <1>3, <1>4, <1>5, <1>6 DEF Accepted

\* The artifact is bound to a commit that was accepted; the landing is of one.
LEMMA BindAccepted ==
    ASSUME ClaimsDisjoint, Owns, Inv, Accepted, NEW p \in Proc, OthersKept(p),
           BindVerification(p) \/ Land(p)
    PROVE  Accepted'
<1>0. /\ TypeLocal /\ TypeGit /\ TypeFiles /\ txn[p] \in Txn
      /\ pc[p] \in {"verified", "cas"} /\ cand[p] \in passed
      /\ UNCHANGED <<candRef, manifest, worktree, txn, cand, passed>>
      /\ \/ UNCHANGED receipt /\ artifact' = [artifact EXCEPT ![txn[p]] = cand[p]]
         \/ UNCHANGED artifact /\ receipt' = [receipt EXCEPT ![txn[p]] = cand[p]]
      /\ pc'[p] \in {"bound", "landed"}
  BY Held DEF Inv, WellFormed, TypeOK, BindVerification, Land, Free, Goto, git, files, work,
              ghost, Accepted, AcceptedOf, TypeLocal
<1>1. BoundIsVerified' /\ LandedIsVerified'
  BY <1>0 DEF Accepted, BoundIsVerified, LandedIsVerified, TypeGit, TypeFiles
<1>2. KeptAsRef'
  <2>1. ~(pc[p] \in Changing)
    BY <1>0 DEF Changing
  <2> QED BY <1>0, <2>1, OthersAsRef DEF Accepted, KeptAsRef
<1>3. \A q \in Proc \ {p} : AcceptedOf(q)'
  BY <1>0, OthersAccepted DEF Accepted
<1>4. AcceptedOf(p)'
  BY <1>0 DEF AcceptedOf, Holding
<1> QED BY <1>1, <1>2, <1>3, <1>4 DEF Accepted

\* Every step keeps the invariant.
LEMMA AcceptedStep ==
    ASSUME ClaimsDisjoint, FullInv, AcceptedInv, [Next]_vars PROVE AcceptedInv'
<1> USE DEF AcceptedInv, Accepted
<1>0. Inv /\ Owns /\ Generation /\ crashes \in Nat
  BY DEF FullInv, OnceInv, Selection, SourceInv, Inv, WellFormed, TypeOK, TypeRest
<1>1. ASSUME NEW p \in Proc, Step(p) PROVE AcceptedInv'
  <2>0. OthersKept(p)
    BY <1>0, <1>1, StepOthers
  <2>1. CASE Restore(p) \/ Open(p) \/ Merge(p) \/ AgentCommit(p) \/ WriteManifest(p)
             \/ WriteRef(p) \/ VerifyPass(p) \/ BindVerification(p) \/ Land(p)
    <3>1. crashes' = crashes
      BY <2>1 DEF Restore, Open, Merge, AgentCommit, WriteManifest, WriteRef, VerifyPass,
                  BindVerification, Land, aux
    <3>2. Accepted => Accepted'
      BY <1>0, <2>0, <2>1, RestoreAccepted, OpenAccepted, CommitAccepted, ManifestAccepted,
         RefAccepted, PassAccepted, BindAccepted
    <3> QED BY <3>1, <3>2
  <2>2. CASE ~(Restore(p) \/ Open(p) \/ Merge(p) \/ AgentCommit(p) \/ WriteManifest(p)
               \/ WriteRef(p) \/ VerifyPass(p) \/ BindVerification(p) \/ Land(p))
    <3>1. Plain(p)
      BY <1>0, <1>1, <2>2, BuildPlain, VerifyPlain, LandCandidatePlain, SettlePlain,
         ReconcilePlain DEF Step
    <3> QED BY <1>0, <2>0, <3>1, PlainKeeps
  <2> QED BY <2>1, <2>2
<1>2. CASE \E p \in Proc : Crash(p)
  BY <1>0, <1>2 DEF Crash
<1>3. CASE Advance
  BY <1>3 DEF Advance, files, local, work, ghost, BoundIsVerified, LandedIsVerified, KeptAsRef,
              AcceptedOf
<1>4. CASE UNCHANGED vars
  BY <1>4 DEF vars, git, files, local, work, ghost, aux, BoundIsVerified, LandedIsVerified,
              KeptAsRef, AcceptedOf
<1> QED BY <1>1, <1>2, <1>3, <1>4 DEF Next

\* Without a crash, only commits the verifier accepted land, whatever was restored,
\* repaired or rebuilt on the way.
THEOREM VerifiedLands == ASSUME ClaimsDisjoint PROVE Spec => []VerifiedUnlessCrashed
<1>1. Init => AcceptedInv
  BY DEF Init, AcceptedInv, Accepted, BoundIsVerified, LandedIsVerified, KeptAsRef, AcceptedOf,
         Holding
<1>2. FullInv /\ AcceptedInv /\ [Next]_vars => AcceptedInv'
  BY AcceptedStep
<1>3. AcceptedInv => VerifiedUnlessCrashed
  BY DEF AcceptedInv, Accepted, VerifiedUnlessCrashed
<1> QED BY <1>1, <1>2, <1>3, FullInvHolds, PTL DEF Spec

-----------------------------------------------------------------------------
(* The refinement of the ledger *)

\* The initial state is one of the ledger.
LEMMA LedgerInit == Init => Ledger!Init
BY LandingAssumption DEF Init, Ledger!Init, Ledger!Txn, Txn

\* What the target contains is made of commits and sources.
LEMMA LedgerGrows == ASSUME Inv, [Next]_vars, Next PROVE Ledger!Grow
<1>1. history'[target'] \in SUBSET (Oid \cup Task)
  BY WellFormedStep DEF Inv, WellFormed, TypeOK, TypeGit
<1> QED BY <1>1, TargetGrows DEF Ledger!Grow

\* A close in Beads is a close of the ledger.
LEMMA LedgerClose ==
    ASSUME Inv, NEW p \in Proc, txn[p] \in Txn, receipt[txn[p]] = cand[p], cand[p] # None,
           WriteClose(p), UNCHANGED <<history, target, receipt, cutShort>>
    PROVE  Ledger!Next
<1>1. Ledger!CloseTask(txn[p])
  BY DEF Ledger!CloseTask, WriteClose, TaskOf
<1> QED BY <1>1 DEF Ledger!Next, Ledger!Txn, Txn

\* Only landing, closing and a reconciliation that is cut short show in the ledger.
LEMMA StepQuiet ==
    ASSUME Inv, NEW p \in Proc, Step(p),
           ~(Land(p) \/ CloseTask(p) \/ CloseScanned(p) \/ Examine(p))
    PROVE  UNCHANGED <<receipt, beads, cutShort>>
<1> USE DEF git, files, ghost
<1>1. UNCHANGED <<receipt, beads>>
  <2>1. CASE Settle(p)
    BY <2>1 DEF Settle, DropWorktree, RecordCleaned, CloseFail, RecordClosed
  <2>2. CASE ~Settle(p)
    BY <2>2, BuildFaithful, VerifyFaithful, LandCandidateFaithful, ReconcileFaithful
       DEF Step, Faithful
  <2> QED BY <2>1, <2>2
<1>2. UNCHANGED cutShort
  <2>1. CASE Begin(p) \/ StartScan(p) \/ EndScan(p)
    BY <2>1 DEF Begin, Pin, StartScan, EndScan
  <2>2. CASE ~(Begin(p) \/ StartScan(p) \/ EndScan(p))
    BY <2>2, BuildQuiet, VerifyQuiet, LandCandidateQuiet, SettleQuiet, ReconcileQuiet
       DEF Step, Quiet
  <2> QED BY <2>1, <2>2
<1> QED BY <1>1, <1>2

\* Every step is one of the ledger, or changes nothing the ledger shows.
LEMMA LedgerStep ==
    ASSUME ClaimsDisjoint, FullInv, FullInv', [Next]_vars PROVE [Ledger!Next]_(Ledger!ledger)
<1> USE DEF Ledger!ledger
<1>0. Inv
  BY DEF FullInv, OnceInv
<1>1. ASSUME NEW p \in Proc, Step(p) PROVE [Ledger!Next]_(Ledger!ledger)
  <2>0. Next
    BY <1>1 DEF Next
  <2>1. CASE Land(p)
    <3>0. /\ TypeGit /\ txn[p] \in Txn /\ cand[p] \in Oid /\ cand[p] # None
      BY <1>0, <2>1, Held, LandingAssumption DEF Land, Free, Unbuilt, Inv, WellFormed, TypeOK
    <3>1. /\ receipt[txn[p]] = None /\ target' = cand[p]
          /\ receipt' = [receipt EXCEPT ![txn[p]] = cand[p]]
          /\ UNCHANGED <<history, beads, cutShort>>
      BY <2>1 DEF Land, CasHolds, ghost
    <3>2. ~cutShort => \A u \in Txn : TaskOf(u) = TaskOf(txn[p]) => receipt[u] = None
      BY <2>1, <3>0 DEF Land, FullInv, OnceInv, Selection, Unlanded, LandedTask, Working
    <3>3. cand[p] \in history'[target'] /\ TaskOf(txn[p]) \in history'[target']
      BY <1>0, <3>0, <3>1 DEF FullInv, SourceInv, LocalSourced, HasSource, Inv, Safe, GitOK,
                              LocalEvidence, OnBase, Contains
    <3>4. Ledger!Grow
      BY <1>0, <2>0, LedgerGrows
    <3>5. Ledger!Land(txn[p])
      BY <3>0, <3>1, <3>2, <3>3, <3>4 DEF Ledger!Land, Ledger!Txn, Txn, TaskOf
    <3> QED BY <3>0, <3>5 DEF Ledger!Next, Ledger!Txn, Txn
  <2>2. CASE CloseTask(p) \/ CloseScanned(p)
    <3>1. /\ txn[p] \in Txn /\ receipt[txn[p]] = cand[p] /\ cand[p] # None
      BY <1>0, <2>2, Held, LandingAssumption
         DEF CloseTask, CloseScanned, Free, Unbuilt, Inv, Safe, ReceiptKnown, KnowsLanded
    <3>2. UNCHANGED <<history, target, receipt, cutShort>>
      BY <2>2 DEF CloseTask, CloseScanned, git, ghost
    <3>3. WriteClose(p) \/ UNCHANGED beads
      BY <2>2 DEF CloseTask, CloseScanned
    <3> QED BY <1>0, <3>1, <3>2, <3>3, LedgerClose
  <2>3. CASE Examine(p)
    <3>1. UNCHANGED <<history, target, receipt, beads>> /\ (cutShort' = TRUE \/ UNCHANGED cutShort)
      BY <2>3 DEF Examine, git
    <3> QED BY <3>1 DEF Ledger!Next, Ledger!Overlook
  <2>4. CASE ~(Land(p) \/ CloseTask(p) \/ CloseScanned(p) \/ Examine(p))
    <3>1. UNCHANGED <<receipt, beads, cutShort>>
      BY <1>0, <1>1, <2>4, StepQuiet
    <3>2. Ledger!Grow
      BY <1>0, <2>0, LedgerGrows
    <3> QED BY <3>1, <3>2 DEF Ledger!Next, Ledger!Publish
  <2> QED BY <2>1, <2>2, <2>3, <2>4
<1>2. CASE \E p \in Proc : Crash(p)
  BY <1>2 DEF Crash, git, ghost
<1>3. CASE Advance
  <2>1. UNCHANGED <<receipt, beads, cutShort>> /\ Next
    BY <1>3 DEF Advance, ghost, Next
  <2> QED BY <1>0, <2>1, LedgerGrows DEF Ledger!Next, Ledger!Publish
<1>4. CASE UNCHANGED vars
  BY <1>4 DEF vars, git, ghost
<1> QED BY <1>1, <1>2, <1>3, <1>4 DEF Next

\* With disjoint claims the landing plane implements the ledger: the target only grows, a
\* task lands with its source and, with nothing overlooked, once, and is closed landed.
THEOREM LedgerImplemented == ASSUME ClaimsDisjoint PROVE Spec => ImplementsLedger
<1>1. FullInv /\ FullInv' /\ [Next]_vars => [Ledger!Next]_(Ledger!ledger)
  BY LedgerStep
<1> QED BY <1>1, LedgerInit, FullInvHolds, PTL DEF Spec, ImplementsLedger, Ledger!Spec
=============================================================================
