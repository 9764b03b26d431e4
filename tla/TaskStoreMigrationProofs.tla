---------------------- MODULE TaskStoreMigrationProofs ----------------------
(***************************************************************************)
(* Proofs about TaskStoreMigration: what the legacy store acknowledged is  *)
(* in the repository or in the quarantine through every crash and race;    *)
(* and while no two processes were past the lease and the user made no     *)
(* second database, a copy recorded as verified is complete and stays.     *)
(*                                                                         *)
(* The argument: the database of the repository and the other two never    *)
(* exist together (Apart), so that a migration that reaches the redirect   *)
(* has copied all there is in the quarantine (CopiedAll), which no longer  *)
(* changes; and a copy begins only before "verified" is recorded, by the   *)
(* process that would record it (CompleteOnce, NoCopyAfter).               *)
(***************************************************************************)
EXTENDS TaskStoreMigration, TLAPS

-----------------------------------------------------------------------------
(* The inductive invariant *)

Identities == {NoDb} \cup SUBSET (Task \cup {Seed})

\* The record a process keeps.
ProcsOK == proc \in [Proc -> [pc : Steps, legacy : BOOLEAN, snap : Identities]]

\* Two processes are past the lease only once that was noticed.
OneMigrates ==
    ~contended =>
        \A p, q \in Proc : proc[p].pc \in Holding /\ proc[q].pc \in Holding => p = q

\* A database in the repository has its marker.
Marked == Present(repo) => repo.meta

\* The repository's database goes before another one comes.
Apart == Present(repo) /\ ~reappeared => ~Present(quarantine) /\ ~Present(managed)

\* Behind the copy all of the quarantine is in the managed store.
CopiedAll ==
    "verified" \notin journal /\ ~contended /\ Present(quarantine) =>
        \A p \in Proc : proc[p].pc \in {"copyMeta", "redirect", "verify", "verified"} =>
            quarantine.db \subseteq managed.db

\* A store that is, or is about to be, recorded as verified is complete.
CompleteOnce ==
    ~contended /\ ("verified" \in journal \/ \E p \in Proc : proc[p].pc = "verified") =>
        FullyInitialized(managed)

\* No copy is under way behind the record.
NoCopyAfter ==
    ~contended /\ "verified" \in journal => \A p \in Proc : proc[p].pc # "copyDb"

CopyInv == OneMigrates /\ Marked /\ Apart /\ CopiedAll /\ CompleteOnce /\ NoCopyAfter
IInv == TypeOK /\ ProcsOK /\ OriginalsKept /\ CopyInv

-----------------------------------------------------------------------------
(* How a process moves *)

\* Behind the snapshot a process holds one.
HoldsSnapshot ==
    \A p \in Proc : proc[p].pc \in Holding \ {"start", "snapshot"} => proc[p].snap # NoDb

\* The files and the ghosts have their shapes.
FilesOK ==
    /\ repo \in Stores /\ quarantine \in Stores /\ managed \in Stores
    /\ redirect \in BOOLEAN /\ journal \subseteq Phases \ {"none"} /\ snapshot \in Identities
    /\ pending \in [owner : Proc \cup {NoProc}, waiting : BOOLEAN]
    /\ lease \in Proc \cup {NoProc}
    /\ source \in {"quiet", "server", "unreadable"} /\ contended \in BOOLEAN /\ reappeared \in BOOLEAN
    /\ legacyTasks \subseteq written \cup {Seed} /\ written \subseteq Task

ShapesOK == FilesOK /\ ProcsOK /\ HoldsSnapshot

\* The shapes are the type invariant and the records of the processes.
LEMMA Parts == TypeOK /\ ProcsOK <=> ShapesOK
BY DEF TypeOK, ShapesOK, FilesOK, ProcsOK, HoldsSnapshot, Identities

\* The same of the next state.
LEMMA PartsAfter == (TypeOK /\ ProcsOK)' <=> ShapesOK'
BY DEF TypeOK, ShapesOK, FilesOK, ProcsOK, HoldsSnapshot, Identities

\* p comes to a step, with a record of the right shape; the others stay.
Comes(p, s) ==
    /\ ProcsOK' /\ HoldsSnapshot'
    /\ proc'[p].pc = s
    /\ \A q \in Proc \ {p} : proc'[q] = proc[q]

\* Where Goto takes a process.
LEMMA GotoComes ==
    ASSUME ProcsOK, HoldsSnapshot, NEW p \in Proc, NEW s \in Steps, Goto(p, s),
           s \in Holding \ {"start", "snapshot"} => proc[p].snap # NoDb
    PROVE  Comes(p, s)
BY DEF ProcsOK, HoldsSnapshot, Goto, Comes

\* Where Hold takes a process, with its snapshot.
LEMMA HoldComes ==
    ASSUME ProcsOK, HoldsSnapshot, NEW p \in Proc, NEW s \in Steps, NEW h \in Identities,
           Hold(p, s, h),
           s \in Holding \ {"start", "snapshot"} => h # NoDb
    PROVE  Comes(p, s)
BY DEF ProcsOK, HoldsSnapshot, Hold, Comes

\* Where Enter takes a process.
LEMMA EnterComes ==
    ASSUME ProcsOK, HoldsSnapshot, NEW p \in Proc, NEW s \in Steps \ Holding, NEW b \in BOOLEAN,
           proc' = [proc EXCEPT ![p] = [At(s) EXCEPT !.legacy = b]]
    PROVE  Comes(p, s)
BY DEF ProcsOK, HoldsSnapshot, At, Comes, Identities

\* Where a new command begins.
LEMMA BeginComes ==
    ASSUME ProcsOK, HoldsSnapshot, NEW p \in Proc, NEW s \in Steps \ Holding, Begin(p, s)
    PROVE  Comes(p, s)
BY DEF ProcsOK, HoldsSnapshot, Begin, At, Comes, Identities

-----------------------------------------------------------------------------
(* The steps that leave the stores alone *)

Pendings == [owner : Proc \cup {NoProc}, waiting : BOOLEAN]

\* A recorded failure has the shape of the pending file.
LEMMA Recording == ASSUME NEW p \in Proc PROVE [owner |-> p, waiting |-> TRUE] \in Pendings
BY DEF Pendings

\* So has the record of an owner that has left.
LEMMA Leaving ==
    ASSUME pending \in Pendings, NEW p \in Proc
    PROVE  [pending EXCEPT !.owner = IF @ = p THEN NoProc ELSE @] \in Pendings
BY DEF Pendings

\* p moves on, without touching a store and without passing the copy.
Calm(p, s) ==
    /\ Comes(p, s)
    /\ UNCHANGED <<repo, quarantine, managed, legacyTasks, reappeared, contended>>
    /\ "verified" \in journal' <=> "verified" \in journal
    /\ s \notin {"copyDb", "copyMeta", "verified"}
    /\ s \in Holding => proc[p].pc \in Holding
    /\ s \in {"redirect", "verify"} => proc[p].pc \in {"copyMeta", "redirect"}

\* A step that touches no store and no record of a phase keeps the invariant.
LEMMA CalmKeeps ==
    ASSUME ProcsOK, OriginalsKept, CopyInv, NEW p \in Proc, NEW s \in Steps, Calm(p, s)
    PROVE  OriginalsKept' /\ CopyInv'
<1> USE DEF Calm, Comes
<1>1. OriginalsKept'
  BY DEF OriginalsKept, Present
<1>2. OneMigrates'
  BY DEF CopyInv, OneMigrates
<1>3. Marked' /\ Apart'
  BY DEF CopyInv, Marked, Apart, Present
<1>4. CopiedAll'
  BY DEF CopyInv, CopiedAll, Present
<1>5. CompleteOnce'
  BY DEF CopyInv, CompleteOnce, FullyInitialized, Present
<1>6. NoCopyAfter'
  BY DEF CopyInv, NoCopyAfter
<1> QED BY <1>1, <1>2, <1>3, <1>4, <1>5, <1>6 DEF CopyInv

\* Recording any phase but the last.
LEMMA Recorded ==
    ASSUME FilesOK, NEW f \in Phases \ {"none", "verified"}, Record(f) \/ UNCHANGED journal
    PROVE  journal' \subseteq Phases \ {"none"} /\ ("verified" \in journal' <=> "verified" \in journal)
BY DEF FilesOK, Record

\* A deferral, or a failure, ends the holding.
LEMMA DeferCalm ==
    ASSUME ShapesOK, NEW p \in Proc, Defer(p), journal' = journal, snapshot' \in Identities,
           UNCHANGED <<source, ghostVars>>
    PROVE  FilesOK' /\ Calm(p, "resolve")
<1>1. Comes(p, "resolve")
  BY BeginComes DEF Defer, Continue, ShapesOK, Steps, Holding
<1> QED BY <1>1 DEF Defer, RecordPending, Release, ghostVars, ShapesOK, FilesOK, Calm, Holding

\* A failure touches no store.
LEMMA FailCalm ==
    ASSUME ShapesOK, NEW p \in Proc, Fail(p), UNCHANGED <<source, ghostVars>>
    PROVE  FilesOK' /\ Calm(p, "idle")
<1>1. Comes(p, "idle")
  BY BeginComes DEF Fail, ShapesOK, Steps, Holding
<1> QED BY <1>1 DEF Fail, Release, ghostVars, ShapesOK, FilesOK, Calm, Holding

CalmStep(p) ==
    \/ Enter(p) \/ Acquire(p) \/ Start(p) \/ PrepareSnapshot(p) \/ CheckSource(p)
    \/ InstallRedirect(p) \/ InitRedirect(p) \/ ResolveStore(p) \/ Crash(p)

\* Most steps of a migration touch no store.
LEMMA CalmSteps ==
    ASSUME ShapesOK, NEW p \in Proc, CalmStep(p)
    PROVE  FilesOK' /\ \E s \in Steps : Calm(p, s)
<1>0. ProcsOK /\ HoldsSnapshot /\ FilesOK
  BY DEF ShapesOK
<1>1. {"idle", "acquire", "grab", "resolve", "exec", "snapshot", "source", "quarantine", "verify"}
        \subseteq Steps
      /\ {"idle", "acquire", "grab", "resolve", "exec"} \cap Holding = {}
  BY DEF Steps, Holding
<1>2. CASE Enter(p)
  <2>1. UNCHANGED <<repo, quarantine, managed, redirect, journal, snapshot, source, ghostVars>>
        /\ lease' \in {lease, NoProc}
    BY <1>2 DEF Enter
  <2>2. \/ pending' = pending \/ pending' = [owner |-> p, waiting |-> TRUE]
        \/ pending' = [pending EXCEPT !.owner = IF @ = p THEN NoProc ELSE @]
    BY <1>2 DEF Enter, RecordPending
  <2>3. FilesOK'
    <3>1. pending' \in Pendings
      BY <1>0, <2>2, Recording, Leaving DEF FilesOK, Pendings
    <3> QED BY <1>0, <2>1, <3>1 DEF FilesOK, ghostVars, Pendings
  <2>4. \/ Begin(p, "idle") \/ Begin(p, "resolve")
        \/ proc' = [proc EXCEPT ![p] = [At("acquire") EXCEPT !.legacy = (Kind = "legacy")]]
    BY <1>2 DEF Enter, Continue
  <2>5. \E s \in {"idle", "resolve", "acquire"} : Comes(p, s)
    <3>1. (Kind = "legacy") \in BOOLEAN
      OBVIOUS
    <3> QED BY <1>0, <1>1, <2>4, <3>1, BeginComes, EnterComes
  <2> QED BY <1>1, <2>1, <2>3, <2>5 DEF Calm, ghostVars
<1>3. CASE Acquire(p)
  <2>1. \E s \in {"resolve", "grab"} : Comes(p, s)
    BY <1>0, <1>1, <1>3, BeginComes, GotoComes DEF Acquire, Continue
  <2>2. pending' = pending \/ pending' = [owner |-> p, waiting |-> TRUE]
    BY <1>3 DEF Acquire, RecordPending
  <2>3. UNCHANGED <<repo, quarantine, managed, redirect, journal, snapshot, lease, source, ghostVars>>
    BY <1>3 DEF Acquire
  <2>4. FilesOK'
    <3>1. pending' \in Pendings
      BY <1>0, <2>2, Recording, Leaving DEF FilesOK, Pendings
    <3> QED BY <1>0, <2>3, <3>1 DEF FilesOK, ghostVars, Pendings
  <2> QED BY <1>1, <2>1, <2>3, <2>4 DEF Calm, ghostVars
<1>4. CASE Start(p)
  <2>1. proc[p].pc = "start" /\ "start" \in Holding /\ UNCHANGED <<source, ghostVars>>
    BY <1>4 DEF Start, Holding
  <2>2. CASE Defer(p) /\ UNCHANGED <<journal, snapshot>>
    <3>1. snapshot' \in Identities
      BY <1>0, <2>2 DEF FilesOK
    <3> QED BY <1>1, <2>1, <2>2, <3>1, DeferCalm
  <2>3. CASE /\ Goto(p, "snapshot")
             /\ Record("legacy_active") \/ UNCHANGED journal
             /\ UNCHANGED <<repo, quarantine, managed, redirect, snapshot, pending, lease>>
    <3>1. Comes(p, "snapshot")
      BY <1>0, <1>1, <2>3, GotoComes
    <3>2. journal' \subseteq Phases \ {"none"} /\ ("verified" \in journal' <=> "verified" \in journal)
      BY <1>0, <2>3, Recorded DEF Phases
    <3>3. FilesOK'
      BY <1>0, <2>1, <2>3, <3>2 DEF FilesOK, ghostVars
    <3> QED BY <1>1, <2>1, <2>3, <3>1, <3>2, <3>3 DEF Calm, ghostVars
  <2> QED BY <1>4, <2>2, <2>3 DEF Start, migrationVars
<1>5. CASE PrepareSnapshot(p)
  <2>1. proc[p].pc = "snapshot" /\ "snapshot" \in Holding /\ UNCHANGED <<source, ghostVars>>
    BY <1>5 DEF PrepareSnapshot, Holding
  <2>2. CASE Fail(p)
    BY <1>1, <2>1, <2>2, FailCalm
  <2>3. ASSUME NEW h \in Identities, Hold(p, "source", h), h # NoDb,
               Record("snapshot_prepared") \/ UNCHANGED journal,
               snapshot' \in Identities,
               UNCHANGED <<repo, quarantine, managed, redirect, pending, lease>>
        PROVE  FilesOK' /\ \E s \in Steps : Calm(p, s)
    <3>1. Comes(p, "source")
      BY <1>0, <1>1, <2>3, HoldComes
    <3>2. journal' \subseteq Phases \ {"none"} /\ ("verified" \in journal' <=> "verified" \in journal)
      BY <1>0, <2>3, Recorded DEF Phases
    <3>3. FilesOK'
      BY <1>0, <2>1, <2>3, <3>2 DEF FilesOK, ghostVars
    <3> QED BY <1>1, <2>1, <2>3, <3>1, <3>2, <3>3 DEF Calm, ghostVars
  <2>4. repo.db \in Identities /\ proc[p].snap \in Identities /\ snapshot \in Identities
    BY <1>0 DEF FilesOK, ProcsOK, Stores, Identities
  <2>5. CASE /\ Present(repo) /\ snapshot' = repo.db /\ Record("snapshot_prepared")
             /\ Hold(p, "source", repo.db)
             /\ UNCHANGED <<repo, quarantine, managed, redirect, pending, lease>>
    BY <2>3, <2>4, <2>5 DEF Present
  <2>6. CASE \E h \in {proc[p].snap, snapshot} :
                 h # NoDb /\ Hold(p, "source", h) /\ UNCHANGED migrationVars
    BY <2>3, <2>4, <2>6 DEF migrationVars
  <2> QED BY <1>5, <2>2, <2>5, <2>6 DEF PrepareSnapshot, Identity
<1>6. CASE CheckSource(p)
  <2>1. proc[p].pc = "source" /\ "source" \in Holding /\ UNCHANGED <<source, ghostVars>>
    BY <1>6 DEF CheckSource, Holding
  <2>2. CASE Defer(p) /\ snapshot' \in {snapshot, NoDb} /\ UNCHANGED journal
    <3>1. snapshot' \in Identities
      BY <1>0, <2>2 DEF FilesOK, Identities
    <3> QED BY <1>1, <2>1, <2>2, <3>1, DeferCalm
  <2>3. CASE Goto(p, "quarantine") /\ UNCHANGED migrationVars
    <3>1. proc[p].snap # NoDb
      BY <1>0, <2>1 DEF HoldsSnapshot
    <3>2. Comes(p, "quarantine")
      BY <1>0, <1>1, <2>3, <3>1, GotoComes
    <3>3. FilesOK'
      BY <1>0, <2>1, <2>3 DEF FilesOK, ghostVars, migrationVars
    <3> QED BY <1>1, <2>1, <2>3, <3>2, <3>3 DEF Calm, ghostVars, migrationVars
  <2> QED BY <1>6, <2>2, <2>3 DEF CheckSource
<1>7. CASE InstallRedirect(p)
  <2>1. proc[p].pc = "redirect" /\ "redirect" \in Holding /\ Goto(p, "verify")
        /\ UNCHANGED <<repo, quarantine, managed, snapshot, pending, lease, source, ghostVars>>
    BY <1>7 DEF InstallRedirect, Holding
  <2>2. proc[p].snap # NoDb
    BY <1>0, <2>1 DEF HoldsSnapshot
  <2>3. Comes(p, "verify")
    BY <1>0, <1>1, <2>1, <2>2, GotoComes
  <2>4. Record("redirect_installed") \/ UNCHANGED journal
    BY <1>7 DEF InstallRedirect
  <2>5. journal' \subseteq Phases \ {"none"} /\ ("verified" \in journal' <=> "verified" \in journal)
    BY <1>0, <2>4, Recorded DEF Phases
  <2>6. redirect' \in {redirect, TRUE}
    BY <1>7 DEF InstallRedirect, InstallHubTaskStoreRedirect
  <2>7. FilesOK'
    BY <1>0, <2>1, <2>5, <2>6 DEF FilesOK, ghostVars
  <2> QED BY <1>1, <2>1, <2>3, <2>5, <2>7 DEF Calm, ghostVars
<1>8. CASE InitRedirect(p)
  <2>1. Comes(p, "idle")
    BY <1>0, <1>1, <1>8, BeginComes DEF InitRedirect
  <2>2. UNCHANGED <<repo, quarantine, managed, journal, snapshot, pending, lease, source, ghostVars>>
        /\ redirect' = TRUE
    BY <1>8 DEF InitRedirect, InstallHubTaskStoreRedirect
  <2>3. FilesOK'
    BY <1>0, <2>2 DEF FilesOK, ghostVars
  <2> QED BY <1>1, <2>1, <2>2, <2>3 DEF Calm, ghostVars
<1>9. CASE ResolveStore(p) \/ Crash(p)
  <2>1. UNCHANGED <<migrationVars, source, ghostVars>>
    BY <1>9 DEF ResolveStore, Crash
  <2>2. \/ Begin(p, "idle")
        \/ proc' = [proc EXCEPT ![p] = [At("exec") EXCEPT !.legacy = (Kind = "legacy")]]
    BY <1>9 DEF ResolveStore, Crash
  <2>3. \E s \in {"idle", "exec"} : Comes(p, s)
    <3>1. (Kind = "legacy") \in BOOLEAN
      OBVIOUS
    <3> QED BY <1>0, <1>1, <2>2, <3>1, BeginComes, EnterComes
  <2>4. FilesOK'
    BY <1>0, <2>1 DEF FilesOK, ghostVars, migrationVars
  <2> QED BY <1>1, <2>1, <2>3, <2>4 DEF Calm, ghostVars, migrationVars
<1> QED BY <1>2, <1>3, <1>4, <1>5, <1>6, <1>7, <1>8, <1>9 DEF CalmStep
-----------------------------------------------------------------------------
(* The steps past the lease that change a store, or pass the copy *)

\* One process at a time: the others are not past the lease.
LEMMA OthersOut ==
    ASSUME OneMigrates, ~contended, NEW p \in Proc, proc[p].pc \in Holding
    PROVE  \A q \in Proc \ {p} : proc[q].pc \notin Holding
BY DEF OneMigrates

\* OneMigrates is kept by a process that holds already.
LEMMA StillOne ==
    ASSUME OneMigrates, NEW p \in Proc, proc[p].pc \in Holding, contended' = contended,
           \A q \in Proc \ {p} : proc'[q] = proc[q]
    PROVE  OneMigrates'
BY DEF OneMigrates

\* Taking the lease keeps the invariant.
LEMMA GrabKeeps == ASSUME IInv, NEW p \in Proc, Grab(p) PROVE IInv'
<1>1. ShapesOK /\ OriginalsKept /\ CopyInv
  BY Parts DEF IInv
<1>2. Comes(p, "start")
  <2>1. snapshot \in Identities /\ "start" \in Steps
    BY <1>1 DEF ShapesOK, FilesOK, Steps, Holding
  <2> QED BY <1>1, <2>1, HoldComes DEF Grab, ShapesOK
<1>3. UNCHANGED <<repo, quarantine, managed, redirect, journal, snapshot, pending, source,
                  legacyTasks, written, reappeared>>
      /\ lease' = p
      /\ contended' = (contended \/ \E q \in Proc \ {p} : proc[q].pc \in Holding)
  BY DEF Grab
<1>4. ShapesOK'
  BY <1>1, <1>2, <1>3 DEF ShapesOK, FilesOK, Comes
<1>5. OriginalsKept' /\ Marked' /\ Apart'
  BY <1>1, <1>3 DEF CopyInv, OriginalsKept, Marked, Apart, Present
<1>6. OneMigrates'
  BY <1>2, <1>3 DEF OneMigrates, Comes
<1>7. CopiedAll' /\ CompleteOnce' /\ NoCopyAfter'
  BY <1>1, <1>2, <1>3
     DEF Comes, CopyInv, CopiedAll, CompleteOnce, NoCopyAfter, FullyInitialized, Present
<1> QED BY <1>4, <1>5, <1>6, <1>7, PartsAfter DEF IInv, CopyInv

\* The rename into the quarantine keeps the invariant.
LEMMA QuarantineKeeps == ASSUME IInv, NEW p \in Proc, Quarantine(p) PROVE IInv'
<1>1. ShapesOK /\ OriginalsKept /\ CopyInv
  BY Parts DEF IInv
<1>2. /\ proc[p].pc = "quarantine" /\ "quarantine" \in Holding /\ "copy" \in Steps
      /\ Goto(p, "copy")
      /\ UNCHANGED <<managed, redirect, snapshot, pending, lease, source, ghostVars>>
      /\ Record("legacy_quarantined") \/ UNCHANGED journal
  BY DEF Quarantine, Holding, Steps
<1>3. Comes(p, "copy")
  BY <1>1, <1>2, GotoComes DEF ShapesOK, HoldsSnapshot
<1>4. journal' \subseteq Phases \ {"none"} /\ ("verified" \in journal' <=> "verified" \in journal)
  BY <1>1, <1>2, Recorded DEF ShapesOK, Phases
<1>5. CASE UNCHANGED <<repo, quarantine>>
  <2>1. FilesOK'
    BY <1>1, <1>2, <1>4, <1>5 DEF ShapesOK, FilesOK, ghostVars
  <2>2. Calm(p, "copy")
    BY <1>2, <1>3, <1>4, <1>5 DEF Calm, ghostVars
  <2>3. OriginalsKept' /\ CopyInv'
    BY <1>1, <1>2, <2>2, CalmKeeps DEF ShapesOK
  <2> QED BY <1>3, <2>1, <2>3, PartsAfter DEF IInv, ShapesOK, Comes
<1>6. CASE /\ Present(repo) /\ ~Present(quarantine)
           /\ quarantine' = [db |-> repo.db, meta |-> FALSE]
           /\ repo' = [repo EXCEPT !.db = NoDb]
  <2>1. quarantine' \in Stores /\ repo' \in Stores
        /\ quarantine'.db = repo.db /\ repo'.db = NoDb
    BY <1>1, <1>6 DEF ShapesOK, FilesOK, Stores
  <2>2. FilesOK'
    BY <1>1, <1>2, <1>4, <2>1 DEF ShapesOK, FilesOK, ghostVars
  <2>3. OriginalsKept'
    BY <1>1, <1>2, <1>6, <2>1 DEF OriginalsKept, Present, ghostVars
  <2>4. OneMigrates'
    BY <1>1, <1>2, <1>3, StillOne DEF CopyInv, ghostVars, Comes
  <2>5. Marked' /\ Apart'
    BY <2>1 DEF Marked, Apart, Present
  <2>6. CopiedAll'
    <3>1. ~contended => \A q \in Proc \ {p} : proc[q].pc \notin Holding
      BY <1>1, <1>2, OthersOut DEF CopyInv
    <3> QED BY <1>2, <1>3, <3>1 DEF CopiedAll, Comes, ghostVars, Holding
  <2>7. CompleteOnce' /\ NoCopyAfter'
    BY <1>1, <1>2, <1>3, <1>4
       DEF Comes, CopyInv, CompleteOnce, NoCopyAfter, FullyInitialized, Present, ghostVars
  <2> QED BY <1>3, <2>2, <2>3, <2>4, <2>5, <2>6, <2>7, PartsAfter
          DEF IInv, CopyInv, ShapesOK, Comes
<1> QED BY <1>5, <1>6 DEF Quarantine

\* What is not copied again is in the managed store by the journal's word.
LEMMA CopyDue ==
    ASSUME Present(quarantine), "verified" \notin journal, NEW held, FullyInitialized(managed)
    PROVE  DerivePhase(held) \in {"legacy_quarantined", "managed_copied", "redirect_installed"}
BY DEF DerivePhase, MigrationEvidence

\* The removal of an earlier copy keeps the invariant.
LEMMA CopyBeginKeeps == ASSUME IInv, NEW p \in Proc, CopyBegin(p) PROVE IInv'
<1>1. ShapesOK /\ OriginalsKept /\ CopyInv
  BY Parts DEF IInv
<1>2. /\ proc[p].pc = "copy" /\ {"copy", "copyDb", "redirect"} \subseteq Holding
      /\ {"copyDb", "redirect"} \subseteq Steps
      /\ UNCHANGED <<repo, quarantine, redirect, journal, snapshot, pending, lease, source, ghostVars>>
  BY DEF CopyBegin, Holding, Steps
<1>3. proc[p].snap # NoDb
  BY <1>1, <1>2 DEF ShapesOK, HoldsSnapshot
<1>4. ASSUME NEW s \in {"copyDb", "redirect"}, Comes(p, s) PROVE OneMigrates'
  BY <1>1, <1>2, <1>4, StillOne DEF CopyInv, ghostVars, Comes
<1>5. ~contended => \A q \in Proc \ {p} : proc[q].pc \notin Holding
  BY <1>1, <1>2, OthersOut DEF CopyInv
<1>6. OriginalsKept' /\ Marked'
  BY <1>1, <1>2 DEF CopyInv, OriginalsKept, Marked, Present, ghostVars
<1>7. CASE /\ Present(quarantine) /\ "verified" \notin journal
           /\ managed' = [db |-> {}, meta |-> FALSE]
           /\ Goto(p, "copyDb")
  <2>1. Comes(p, "copyDb")
    BY <1>1, <1>2, <1>3, <1>7, GotoComes DEF ShapesOK
  <2>2. managed' \in Stores
    BY <1>7 DEF Stores
  <2>3. FilesOK'
    BY <1>1, <1>2, <2>2 DEF ShapesOK, FilesOK, ghostVars
  <2>4. Apart'
    BY <1>1, <1>2, <1>7 DEF CopyInv, Apart, Present, ghostVars
  <2>5. CopiedAll' /\ CompleteOnce' /\ NoCopyAfter'
    BY <1>2, <1>5, <1>7, <2>1 DEF Comes, CopiedAll, CompleteOnce, NoCopyAfter, ghostVars, Holding
  <2> QED BY <1>4, <1>6, <2>1, <2>3, <2>4, <2>5, PartsAfter DEF IInv, CopyInv, ShapesOK, Comes
<1>8. CASE /\ ~Present(quarantine) \/ "verified" \in journal
           /\ Goto(p, "redirect") /\ UNCHANGED managed
  <2>1. Comes(p, "redirect")
    BY <1>1, <1>2, <1>3, <1>8, GotoComes DEF ShapesOK
  <2>2. FilesOK'
    BY <1>1, <1>2, <1>8 DEF ShapesOK, FilesOK, ghostVars
  <2>3. Apart'
    BY <1>1, <1>2, <1>8 DEF CopyInv, Apart, Present, ghostVars
  <2>4. CopiedAll'
    BY <1>2, <1>8 DEF CopiedAll, Present
  <2>5. CompleteOnce' /\ NoCopyAfter'
    BY <1>1, <1>2, <1>8, <2>1
       DEF Comes, CopyInv, CompleteOnce, NoCopyAfter, ghostVars, FullyInitialized, Present
  <2> QED BY <1>4, <1>6, <2>1, <2>2, <2>3, <2>4, <2>5, PartsAfter
          DEF IInv, CopyInv, ShapesOK, Comes
<1> QED BY <1>7, <1>8, CopyDue DEF CopyBegin

\* The copy of the database keeps the invariant.
LEMMA CopyDbKeeps == ASSUME IInv, NEW p \in Proc, CopyDb(p) PROVE IInv'
<1>1. ShapesOK /\ OriginalsKept /\ CopyInv
  BY Parts DEF IInv
<1>2. /\ proc[p].pc = "copyDb" /\ "copyDb" \in Holding /\ "copyMeta" \in Steps
      /\ Goto(p, "copyMeta") /\ managed' = [managed EXCEPT !.db = quarantine.db]
      /\ UNCHANGED <<repo, quarantine, redirect, journal, snapshot, pending, lease, source, ghostVars>>
  BY DEF CopyDb, Holding, Steps
<1>3. Comes(p, "copyMeta")
  BY <1>1, <1>2, GotoComes DEF ShapesOK, HoldsSnapshot
<1>4. managed' \in Stores /\ managed'.db = quarantine.db
  BY <1>1, <1>2 DEF ShapesOK, FilesOK, Stores
<1>5. FilesOK'
  BY <1>1, <1>2, <1>4 DEF ShapesOK, FilesOK, ghostVars
<1>6. OriginalsKept' /\ Marked' /\ Apart'
  BY <1>1, <1>2, <1>4 DEF CopyInv, OriginalsKept, Marked, Apart, Present, ghostVars
<1>7. OneMigrates'
  BY <1>1, <1>2, <1>3, StillOne DEF CopyInv, ghostVars, Comes
<1>8. CopiedAll'
  BY <1>2, <1>4 DEF CopiedAll
<1>9. CompleteOnce' /\ NoCopyAfter'
  <2>1. ~contended => "verified" \notin journal /\ \A q \in Proc \ {p} : proc[q].pc \notin Holding
    BY <1>1, <1>2, OthersOut DEF CopyInv, NoCopyAfter
  <2> QED BY <1>2, <1>3, <2>1 DEF Comes, CompleteOnce, NoCopyAfter, ghostVars, Holding
<1> QED BY <1>3, <1>5, <1>6, <1>7, <1>8, <1>9, PartsAfter DEF IInv, CopyInv, ShapesOK, Comes

\* The copy of the marker keeps the invariant.
LEMMA CopyMetaKeeps == ASSUME IInv, NEW p \in Proc, CopyMeta(p) PROVE IInv'
<1>1. ShapesOK /\ OriginalsKept /\ CopyInv
  BY Parts DEF IInv
<1>2. /\ proc[p].pc = "copyMeta" /\ "copyMeta" \in Holding /\ "redirect" \in Steps
      /\ Goto(p, "redirect") /\ managed' = [managed EXCEPT !.meta = @ \/ repo.meta]
      /\ Record("managed_copied")
      /\ UNCHANGED <<repo, quarantine, redirect, snapshot, pending, lease, source, ghostVars>>
  BY DEF CopyMeta, Holding, Steps
<1>3. Comes(p, "redirect")
  BY <1>1, <1>2, GotoComes DEF ShapesOK, HoldsSnapshot
<1>4. managed' \in Stores /\ managed'.db = managed.db /\ managed'.meta = (managed.meta \/ repo.meta)
  BY <1>1, <1>2 DEF ShapesOK, FilesOK, Stores
<1>5. journal' \subseteq Phases \ {"none"} /\ ("verified" \in journal' <=> "verified" \in journal)
  BY <1>1, <1>2, Recorded DEF ShapesOK, Phases
<1>6. FilesOK'
  BY <1>1, <1>2, <1>4, <1>5 DEF ShapesOK, FilesOK, ghostVars
<1>7. OriginalsKept' /\ Marked' /\ Apart'
  BY <1>1, <1>2, <1>4 DEF CopyInv, OriginalsKept, Marked, Apart, Present, ghostVars
<1>8. OneMigrates'
  BY <1>1, <1>2, <1>3, StillOne DEF CopyInv, ghostVars, Comes
<1>9. CopiedAll'
  BY <1>1, <1>2, <1>3, <1>4, <1>5 DEF CopyInv, CopiedAll, Comes, Present, ghostVars
<1>10. CompleteOnce' /\ NoCopyAfter'
  BY <1>1, <1>2, <1>3, <1>4, <1>5
     DEF Comes, CopyInv, CompleteOnce, NoCopyAfter, ghostVars, FullyInitialized, Present
<1> QED BY <1>3, <1>6, <1>7, <1>8, <1>9, <1>10, PartsAfter DEF IInv, CopyInv, ShapesOK, Comes

\* The comparison of copy and quarantine keeps the invariant.
LEMMA VerifyKeeps == ASSUME IInv, NEW p \in Proc, Verify(p) PROVE IInv'
<1>1. ShapesOK /\ OriginalsKept /\ CopyInv
  BY Parts DEF IInv
<1>2. /\ proc[p].pc = "verify" /\ {"verify", "verified"} \subseteq Holding
      /\ {"idle", "verified"} \subseteq Steps
      /\ UNCHANGED <<source, ghostVars>>
  BY DEF Verify, Holding, Steps
<1>3. CASE Fail(p)
  <2>1. FilesOK' /\ Calm(p, "idle")
    BY <1>1, <1>2, <1>3, FailCalm
  <2>2. OriginalsKept' /\ CopyInv'
    BY <1>1, <1>2, <2>1, CalmKeeps DEF ShapesOK
  <2> QED BY <2>1, <2>2, PartsAfter DEF IInv, ShapesOK, Comes, Calm
<1>4. CASE FullyInitialized(managed) /\ Goto(p, "verified") /\ UNCHANGED migrationVars
  <2>1. Comes(p, "verified")
    BY <1>1, <1>2, <1>4, GotoComes DEF ShapesOK, HoldsSnapshot
  <2>2. FilesOK'
    BY <1>1, <1>2, <1>4 DEF ShapesOK, FilesOK, ghostVars, migrationVars
  <2>3. OriginalsKept' /\ Marked' /\ Apart'
    BY <1>1, <1>2, <1>4
       DEF CopyInv, OriginalsKept, Marked, Apart, Present, ghostVars, migrationVars
  <2>4. OneMigrates'
    BY <1>1, <1>2, <2>1, StillOne DEF CopyInv, ghostVars, Comes
  <2>5. CopiedAll'
    BY <1>1, <1>2, <1>4, <2>1 DEF CopyInv, CopiedAll, Comes, Present, ghostVars, migrationVars
  <2>6. CompleteOnce' /\ NoCopyAfter'
    BY <1>1, <1>2, <1>4, <2>1
       DEF Comes, CopyInv, CompleteOnce, NoCopyAfter, ghostVars, migrationVars, FullyInitialized, Present
  <2> QED BY <2>1, <2>2, <2>3, <2>4, <2>5, <2>6, PartsAfter DEF IInv, CopyInv, ShapesOK, Comes
<1> QED BY <1>3, <1>4 DEF Verify

\* The record of the verification keeps the invariant.
LEMMA VerifiedKeeps == ASSUME IInv, NEW p \in Proc, Verified(p) PROVE IInv'
<1>1. ShapesOK /\ OriginalsKept /\ CopyInv
  BY Parts DEF IInv
<1>2. /\ proc[p].pc = "verified" /\ "verified" \in Holding
      /\ "resolve" \in Steps \ Holding
      /\ journal' = journal \cup {"verified"} /\ "verified" \in Phases \ {"none"}
      /\ pending' = NoPending /\ lease' = NoProc /\ Begin(p, "resolve")
      /\ UNCHANGED <<repo, quarantine, managed, redirect, snapshot, source, ghostVars>>
  BY DEF Verified, Holding, Steps, Record, Release, Continue, Phases
<1>3. Comes(p, "resolve")
  BY <1>1, <1>2, BeginComes DEF ShapesOK
<1>4. FilesOK'
  <2>1. pending' \in [owner : Proc \cup {NoProc}, waiting : BOOLEAN]
    BY <1>2 DEF NoPending
  <2> QED BY <1>1, <1>2, <2>1 DEF ShapesOK, FilesOK, ghostVars
<1>5. OriginalsKept' /\ Marked' /\ Apart'
  BY <1>1, <1>2 DEF CopyInv, OriginalsKept, Marked, Apart, Present, ghostVars
<1>6. OneMigrates'
  BY <1>1, <1>2, <1>3, StillOne DEF CopyInv, ghostVars, Comes
<1>7. ~contended => \A q \in Proc \ {p} : proc[q].pc \notin Holding
  BY <1>1, <1>2, OthersOut DEF CopyInv
<1>8. CopiedAll'
  BY <1>2 DEF CopiedAll
<1>9. CompleteOnce' /\ NoCopyAfter'
  BY <1>1, <1>2, <1>3, <1>7
     DEF Comes, CopyInv, CompleteOnce, NoCopyAfter, ghostVars, FullyInitialized, Present, Holding
<1> QED BY <1>3, <1>4, <1>5, <1>6, <1>8, <1>9, PartsAfter DEF IInv, CopyInv, ShapesOK, Comes

-----------------------------------------------------------------------------
(* The steps of tasks init, of bd and of the user that change a store *)

\* The creation of an empty managed store keeps the invariant.
LEMMA InitManagedKeeps == ASSUME IInv, NEW p \in Proc, InitManaged(p) PROVE IInv'
<1>1. ShapesOK /\ OriginalsKept /\ CopyInv
  BY Parts DEF IInv
<1>2. /\ proc[p].pc = "idle" /\ "idle" \notin Holding /\ "initRedirect" \in Steps \ Holding
      /\ ~FullyInitialized(repo) /\ ~Present(quarantine)
      /\ managed' = IF FullyInitialized(managed) THEN managed ELSE [db |-> {}, meta |-> TRUE]
      /\ pending' = [pending EXCEPT !.owner = IF @ = p THEN NoProc ELSE @]
      /\ lease' \in {lease, NoProc} /\ Goto(p, "initRedirect")
      /\ UNCHANGED <<repo, quarantine, redirect, journal, snapshot, source, ghostVars>>
  BY DEF InitManaged, Holding, Steps
<1>3. Comes(p, "initRedirect")
  BY <1>1, <1>2, GotoComes DEF ShapesOK
<1>4. FilesOK'
  <2>1. pending' \in [owner : Proc \cup {NoProc}, waiting : BOOLEAN]
    BY <1>1, <1>2 DEF ShapesOK, FilesOK
  <2>2. managed' \in Stores
    BY <1>1, <1>2 DEF ShapesOK, FilesOK, Stores
  <2> QED BY <1>1, <1>2, <2>1, <2>2 DEF ShapesOK, FilesOK, ghostVars
<1>5. OriginalsKept' /\ Marked' /\ Apart'
  BY <1>1, <1>2 DEF CopyInv, OriginalsKept, Marked, Apart, Present, FullyInitialized, ghostVars
<1>6. OneMigrates'
  BY <1>1, <1>2, <1>3 DEF CopyInv, OneMigrates, ghostVars, Comes
<1>7. CopiedAll'
  BY <1>2 DEF CopiedAll, Present
<1>8. CompleteOnce'
  <2>1. CompleteOnce /\ (FullyInitialized(managed) => managed' = managed)
    BY <1>1, <1>2 DEF CopyInv
  <2>2. "verified" \in journal' => "verified" \in journal
    BY <1>2
  <2>3. \A q \in Proc : proc'[q].pc = "verified" => proc[q].pc = "verified"
    BY <1>3 DEF Comes
  <2>4. contended' = contended
    BY <1>2 DEF ghostVars
  <2> QED BY <2>1, <2>2, <2>3, <2>4 DEF CompleteOnce, FullyInitialized, Present
<1>9. NoCopyAfter'
  BY <1>1, <1>2, <1>3 DEF CopyInv, NoCopyAfter, Comes, ghostVars
<1> QED BY <1>3, <1>4, <1>5, <1>6, <1>7, <1>8, <1>9, PartsAfter DEF IInv, CopyInv, ShapesOK, Comes
\* Every process stays, or its command ends.
Rest == ProcsOK' /\ HoldsSnapshot' /\ \A q \in Proc : proc'[q] = proc[q] \/ proc'[q].pc = "idle"

\* A step that moves no process, or ends a command, takes nobody past the lease.
LEMMA RestHolding ==
    ASSUME Rest
    PROVE  /\ \A q \in Proc : proc'[q].pc # "idle" => proc'[q].pc = proc[q].pc
           /\ "idle" \notin Holding
BY DEF Rest, Holding

\* A write of a task into the store that is in use keeps the invariant.
LEMMA WriteKeeps ==
    ASSUME ShapesOK, OriginalsKept, CopyInv, Rest, NEW w, NEW t \in Task, Write(w, t),
           UNCHANGED <<quarantine, redirect, journal, snapshot, pending, lease, source,
                       contended, reappeared>>
    PROVE  IInv'
<1>1. written' = written \cup {t} /\ written' \subseteq Task
  BY DEF Write, ShapesOK, FilesOK
<1>2. /\ \A q \in Proc : proc'[q].pc # "idle" => proc'[q].pc = proc[q].pc
      /\ "idle" \notin Holding
  BY RestHolding
<1>3. OneMigrates'
  BY <1>2 DEF CopyInv, OneMigrates
<1>4. NoCopyAfter'
  BY <1>2 DEF CopyInv, NoCopyAfter
<1>5. CASE /\ Present(repo) /\ repo' = [repo EXCEPT !.db = @ \cup {t}]
           /\ legacyTasks' = legacyTasks \cup {t} /\ managed' = managed
  <2>1. repo.db \in SUBSET (Task \cup {Seed}) /\ repo.db \cup {t} \in SUBSET (Task \cup {Seed})
    BY <1>5 DEF ShapesOK, FilesOK, Stores, Present
  <2>2. /\ repo' \in Stores /\ repo'.db = repo.db \cup {t} /\ repo'.meta = repo.meta
        /\ Present(repo)' /\ Present(repo)
    BY <1>5, <2>1, StoreAssumption DEF ShapesOK, FilesOK, Stores, Present
  <2>3. FilesOK'
    BY <1>1, <1>5, <2>2 DEF ShapesOK, FilesOK
  <2>4. OriginalsKept'
    BY <1>5, <2>2 DEF OriginalsKept, Present
  <2>5. Marked' /\ Apart'
    BY <1>5, <2>2 DEF CopyInv, Marked, Apart, Present
  <2>6. CopiedAll'
    BY <1>2, <1>5 DEF CopyInv, CopiedAll, Present
  <2>7. CompleteOnce'
    BY <1>2, <1>5 DEF CopyInv, CompleteOnce, FullyInitialized, Present
  <2> QED BY <1>3, <1>4, <2>3, <2>4, <2>5, <2>6, <2>7, PartsAfter DEF IInv, CopyInv, ShapesOK, Rest
<1>6. CASE /\ FullyInitialized(managed) /\ managed' = [managed EXCEPT !.db = @ \cup {t}]
           /\ UNCHANGED <<repo, legacyTasks>>
  <2>1. managed.db \in SUBSET (Task \cup {Seed}) /\ managed.db \cup {t} \in SUBSET (Task \cup {Seed})
    BY <1>6 DEF ShapesOK, FilesOK, Stores, Present, FullyInitialized
  <2>2. /\ managed' \in Stores /\ managed'.db = managed.db \cup {t}
        /\ FullyInitialized(managed)' /\ Present(managed)
    BY <1>6, <2>1, StoreAssumption DEF ShapesOK, FilesOK, Stores, Present, FullyInitialized
  <2>3. FilesOK'
    BY <1>1, <1>6, <2>2 DEF ShapesOK, FilesOK
  <2>4. OriginalsKept'
    BY <1>6 DEF OriginalsKept, Present
  <2>5. Marked' /\ Apart'
    BY <1>6, <2>2 DEF CopyInv, Marked, Apart, Present
  <2>6. CopiedAll'
    BY <1>2, <2>2 DEF CopyInv, CopiedAll, Present
  <2>7. CompleteOnce'
    BY <2>2 DEF CompleteOnce
  <2> QED BY <1>3, <1>4, <2>3, <2>4, <2>5, <2>6, <2>7, PartsAfter DEF IInv, CopyInv, ShapesOK, Rest
<1> QED BY <1>5, <1>6 DEF Write

\* A step that leaves the stores, the journal and the ghosts as they are.
LEMMA RestKeeps ==
    ASSUME ShapesOK, OriginalsKept, CopyInv, Rest, FilesOK',
           UNCHANGED <<repo, quarantine, managed, journal, legacyTasks, contended, reappeared>>
    PROVE  IInv'
<1>1. /\ \A q \in Proc : proc'[q].pc # "idle" => proc'[q].pc = proc[q].pc
      /\ "idle" \notin Holding
  BY RestHolding
<1>2. OriginalsKept' /\ Marked' /\ Apart'
  BY DEF CopyInv, OriginalsKept, Marked, Apart, Present
<1>3. OneMigrates' /\ NoCopyAfter'
  BY <1>1 DEF CopyInv, OneMigrates, NoCopyAfter
<1>4. CopiedAll'
  BY <1>1 DEF CopyInv, CopiedAll, Present
<1>5. CompleteOnce'
  BY <1>1 DEF CopyInv, CompleteOnce, FullyInitialized, Present
<1> QED BY <1>2, <1>3, <1>4, <1>5, PartsAfter DEF IInv, CopyInv, ShapesOK, Rest

\* A command of bd keeps the invariant.
LEMMA ExecBdKeeps == ASSUME IInv, NEW p \in Proc, ExecBd(p) PROVE IInv'
<1>1. ShapesOK /\ OriginalsKept /\ CopyInv
  BY Parts DEF IInv
<1>2. UNCHANGED <<quarantine, redirect, journal, snapshot, pending, lease, source, contended,
                  reappeared>> /\ Begin(p, "idle")
  BY DEF ExecBd
<1>3. Rest
  <2>1. Comes(p, "idle")
    BY <1>1, <1>2, BeginComes DEF ShapesOK, Steps, Holding
  <2> QED BY <2>1 DEF Comes, Rest
<1>4. CASE \E t \in Task \ written : Write(IF proc[p].legacy THEN "repo" ELSE "managed", t)
  BY <1>1, <1>2, <1>3, <1>4, WriteKeeps
<1>5. CASE UNCHANGED <<repo, managed, legacyTasks, written>>
  <2>1. FilesOK'
    BY <1>1, <1>2, <1>5 DEF ShapesOK, FilesOK
  <2> QED BY <1>1, <1>2, <1>3, <1>5, <2>1, RestKeeps
<1> QED BY <1>4, <1>5 DEF ExecBd

\* The user, other tools and time keep the invariant.
LEMMA EnvironmentKeeps ==
    ASSUME IInv, DirectBd \/ SourceChanges \/ RedirectLost \/ LegacyReappears \/ BackoffElapses
                 \/ UNCHANGED vars
    PROVE  IInv'
<1>1. ShapesOK /\ OriginalsKept /\ CopyInv
  BY Parts DEF IInv
<1>2. proc' = proc /\ Rest
  <2>1. proc' = proc
    BY DEF DirectBd, SourceChanges, RedirectLost, LegacyReappears, BackoffElapses, vars
  <2> QED BY <1>1, <2>1 DEF Rest, ShapesOK, ProcsOK, HoldsSnapshot
<1>3. CASE DirectBd
  BY <1>1, <1>2, <1>3, WriteKeeps DEF DirectBd
<1>4. CASE SourceChanges \/ RedirectLost \/ BackoffElapses \/ UNCHANGED vars
  <2>1. UNCHANGED <<repo, quarantine, managed, journal, snapshot, lease, ghostVars>>
    BY <1>4 DEF SourceChanges, RedirectLost, BackoffElapses, vars, migrationVars
  <2>2. /\ redirect' \in {redirect, FALSE}
        /\ source' \in {source, "quiet", "server", "unreadable"}
        /\ pending' = pending \/ pending' = [pending EXCEPT !.waiting = FALSE]
    BY <1>4 DEF SourceChanges, RedirectLost, BackoffElapses, vars, migrationVars
  <2>3. pending' \in [owner : Proc \cup {NoProc}, waiting : BOOLEAN]
    BY <1>1, <2>2 DEF ShapesOK, FilesOK
  <2>4. FilesOK'
    BY <1>1, <2>1, <2>2, <2>3 DEF ShapesOK, FilesOK, ghostVars
  <2> QED BY <1>1, <1>2, <2>1, <2>4, RestKeeps DEF ghostVars
<1>5. CASE LegacyReappears
  <2>1. /\ ~Present(repo) /\ repo' = [db |-> {}, meta |-> TRUE] /\ reappeared' = TRUE
        /\ UNCHANGED <<quarantine, managed, redirect, journal, snapshot, pending, lease, proc,
                       source, legacyTasks, written, contended>>
    BY <1>5 DEF LegacyReappears
  <2>2. FilesOK'
    BY <1>1, <2>1 DEF ShapesOK, FilesOK, Stores
  <2>3. OriginalsKept'
    BY <1>1, <2>1 DEF OriginalsKept, Present
  <2>4. Marked' /\ Apart'
    BY <2>1 DEF Marked, Apart
  <2>5. OneMigrates' /\ CopiedAll' /\ CompleteOnce' /\ NoCopyAfter'
    BY <1>1, <2>1
       DEF CopyInv, OneMigrates, CopiedAll, CompleteOnce, NoCopyAfter, FullyInitialized, Present
  <2> QED BY <1>2, <2>2, <2>3, <2>4, <2>5, PartsAfter DEF IInv, CopyInv, ShapesOK, Rest
<1> QED BY <1>3, <1>4, <1>5

-----------------------------------------------------------------------------
(* The theorems *)

\* The invariant holds at the start,
THEOREM InitInv == Init => IInv
<1> SUFFICES ASSUME Init PROVE IInv
  OBVIOUS
<1>1. \A p \in Proc : proc[p] = At("idle")
  BY DEF Init
<1>2. repo \in Stores /\ NoStore \in Stores /\ ~Present(NoStore)
  <2>1. NoStore \in Stores /\ [db |-> {Seed}, meta |-> TRUE] \in Stores
    BY DEF Stores, NoStore
  <2>2. ~Present(NoStore)
    BY DEF NoStore, Present
  <2> QED BY <2>1, <2>2 DEF Init
<1>3. ProcsOK /\ HoldsSnapshot
  BY <1>1 DEF Init, ProcsOK, HoldsSnapshot, At, Steps, Identities, Holding
<1>4. FilesOK
  <2>1. pending \in [owner : Proc \cup {NoProc}, waiting : BOOLEAN]
    BY DEF Init, NoPending
  <2> QED BY <1>2, <2>1 DEF Init, FilesOK, Identities
<1>5. OriginalsKept
  <2>1. CASE repo = NoStore
    BY <1>2, <2>1 DEF Init, OriginalsKept
  <2>2. CASE repo = [db |-> {Seed}, meta |-> TRUE]
    <3>1. Present(repo)
      BY <2>2, StoreAssumption DEF Present
    <3> QED BY <2>2, <3>1 DEF Init, OriginalsKept
  <2> QED BY <2>1, <2>2 DEF Init
<1>6. Marked /\ Apart
  BY <1>2 DEF Init, Marked, Apart, Present, NoStore
<1>7. OneMigrates /\ CopiedAll /\ CompleteOnce /\ NoCopyAfter
  BY <1>1, <1>2 DEF Init, OneMigrates, CopiedAll, CompleteOnce, NoCopyAfter, At, Holding
<1> QED BY <1>3, <1>4, <1>5, <1>6, <1>7, Parts DEF IInv, CopyInv, ShapesOK

\* every step keeps it,
THEOREM NextInv == IInv /\ [Next]_vars => IInv'
<1> SUFFICES ASSUME IInv, [Next]_vars PROVE IInv'
  OBVIOUS
<1>1. ASSUME NEW p \in Proc, CalmStep(p) PROVE IInv'
  <2>1. ShapesOK /\ OriginalsKept /\ CopyInv
    BY Parts DEF IInv
  <2>2. PICK s \in Steps : Calm(p, s)
    BY <1>1, <2>1, CalmSteps
  <2>3. FilesOK' /\ Comes(p, s)
    BY <1>1, <2>1, <2>2, CalmSteps DEF Calm
  <2>4. OriginalsKept' /\ CopyInv'
    BY <2>1, <2>2, CalmKeeps DEF ShapesOK
  <2> QED BY <2>3, <2>4, PartsAfter DEF IInv, ShapesOK, Comes
<1>2. ASSUME NEW p \in Proc,
             \/ Grab(p) \/ Quarantine(p) \/ CopyBegin(p) \/ CopyDb(p) \/ CopyMeta(p)
             \/ Verify(p) \/ Verified(p) \/ InitManaged(p) \/ ExecBd(p)
      PROVE  IInv'
  BY <1>2, GrabKeeps, QuarantineKeeps, CopyBeginKeeps, CopyDbKeeps, CopyMetaKeeps, VerifyKeeps,
     VerifiedKeeps, InitManagedKeeps, ExecBdKeeps
<1>3. CASE \/ DirectBd \/ SourceChanges \/ RedirectLost \/ LegacyReappears \/ BackoffElapses
           \/ UNCHANGED vars
  BY <1>3, EnvironmentKeeps
<1> QED BY <1>1, <1>2, <1>3 DEF Next, Migrate, Command, CalmStep

\* and so it holds in every behaviour.
THEOREM IInvHolds == Spec => []IInv
BY InitInv, NextInv, PTL DEF Spec

\* What the legacy store acknowledged is never without a database that holds it
\* (quarantineLegacyStore, copyManagedStore).
THEOREM OriginalsSafe == Spec => []OriginalsAreSafe
<1>1. IInv => OriginalsAreSafe
  BY DEF IInv, OriginalsAreSafe
<1> QED BY <1>1, IInvHolds, PTL

\* Only the last step of a migration records the verification.
LEMMA FirstVerified ==
    ASSUME IInv, [Next]_vars, "verified" \in journal' \ journal
    PROVE  \E p \in Proc : Verified(p)
<1>1. ASSUME NEW p \in Proc, CalmStep(p) PROVE FALSE
  <2>1. PICK s \in Steps : Calm(p, s)
    BY <1>1, Parts, CalmSteps DEF IInv
  <2> QED BY <2>1 DEF Calm
<1>2. ASSUME NEW p \in Proc, Grab(p) \/ Quarantine(p) \/ CopyBegin(p) \/ CopyDb(p) \/ CopyMeta(p)
      PROVE  FALSE
  BY <1>2 DEF Grab, Quarantine, CopyBegin, CopyDb, CopyMeta, Record
<1>3. ASSUME NEW p \in Proc, Verify(p) \/ InitManaged(p) \/ ExecBd(p) PROVE FALSE
  BY <1>3 DEF Verify, Fail, InitManaged, ExecBd, migrationVars
<1>4. CASE DirectBd \/ SourceChanges \/ RedirectLost \/ LegacyReappears \/ BackoffElapses
           \/ UNCHANGED vars
  BY <1>4 DEF DirectBd, SourceChanges, RedirectLost, LegacyReappears, BackoffElapses, vars,
              migrationVars
<1> QED BY <1>1, <1>2, <1>3, <1>4 DEF Next, Migrate, Command, CalmStep

\* A store that is recorded as verified has every task of the legacy store.
LEMMA CompleteStep ==
    ASSUME IInv, [Next]_vars, "verified" \in journal' \ journal, ~contended', ~reappeared'
    PROVE  legacyTasks \subseteq managed'.db
<1>1. PICK p \in Proc : Verified(p)
  BY FirstVerified
<1>2. /\ proc[p].pc = "verified" /\ managed' = managed
      /\ ~contended /\ ~reappeared /\ "verified" \notin journal
  BY <1>1 DEF Verified, ghostVars
<1>3. ~Present(repo)
  BY <1>2 DEF IInv, CopyInv, CompleteOnce, Apart, FullyInitialized
<1>4. Present(quarantine) => quarantine.db \subseteq managed.db
  BY <1>2 DEF IInv, CopyInv, CopiedAll
<1> QED BY <1>2, <1>3, <1>4 DEF IInv, OriginalsKept

\* A store that was recorded as verified keeps its tasks.
LEMMA KeptStep ==
    ASSUME IInv, [Next]_vars, "verified" \in journal, ~contended
    PROVE  managed.db \subseteq managed'.db
<1>1. ASSUME NEW p \in Proc, CalmStep(p) PROVE managed' = managed
  <2>1. PICK s \in Steps : Calm(p, s)
    BY <1>1, Parts, CalmSteps DEF IInv
  <2> QED BY <2>1 DEF Calm
<1>2. ASSUME NEW p \in Proc, Grab(p) \/ Quarantine(p) \/ Verify(p) \/ Verified(p)
      PROVE  managed' = managed
  BY <1>2 DEF Grab, Quarantine, Verify, Fail, Verified, migrationVars
<1>3. ASSUME NEW p \in Proc, CopyBegin(p) \/ InitManaged(p) PROVE managed' = managed
  BY <1>3 DEF CopyBegin, InitManaged, IInv, CopyInv, CompleteOnce
<1>4. ASSUME NEW p \in Proc, CopyDb(p) PROVE FALSE
  BY <1>4 DEF CopyDb, IInv, CopyInv, NoCopyAfter
<1>5. managed \in Stores
  BY DEF IInv, TypeOK
<1>6. ASSUME NEW p \in Proc, CopyMeta(p) PROVE managed'.db = managed.db
  BY <1>5, <1>6 DEF CopyMeta, Stores
<1>7. ASSUME NEW w, NEW t, Write(w, t) PROVE managed.db \subseteq managed'.db
  BY <1>5, <1>7 DEF Write, Stores
<1>8. ASSUME NEW p \in Proc, ExecBd(p) PROVE managed.db \subseteq managed'.db
  BY <1>7, <1>8 DEF ExecBd
<1>9. CASE DirectBd
  BY <1>7, <1>9 DEF DirectBd
<1>10. CASE SourceChanges \/ RedirectLost \/ LegacyReappears \/ BackoffElapses \/ UNCHANGED vars
  BY <1>10 DEF SourceChanges, RedirectLost, LegacyReappears, BackoffElapses, vars, migrationVars
<1> QED BY <1>1, <1>2, <1>3, <1>4, <1>6, <1>8, <1>9, <1>10 DEF Next, Migrate, Command, CalmStep

\* Unless two processes migrated at once or the user made a second database, the store
\* recorded as verified has every task of the legacy store, and loses none of its own
\* (verifyHubTaskStoreCopy, the resumption of a migration).
THEOREM CopyTrusted == Spec => CopyIsTrusted
<1>1. IInv /\ [Next]_vars =>
          ("verified" \in journal' \ journal /\ ~contended' /\ ~reappeared'
               => legacyTasks \subseteq managed'.db)
  BY CompleteStep
<1>2. IInv /\ [Next]_vars =>
          ("verified" \in journal /\ ~contended => managed.db \subseteq managed'.db)
  BY KeptStep
<1> QED BY <1>1, <1>2, IInvHolds, PTL DEF Spec, CopyIsTrusted, MigratedIsComplete, VerifiedIsKept

=============================================================================
