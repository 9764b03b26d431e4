------------------------- MODULE TaskStoreMigration -------------------------
(***************************************************************************)
(* The move of a project's task database out of the code repository        *)
(* (hubTaskStoreMigration.ts, with hubTaskStore.ts and                      *)
(* hubTaskStoreResolver.ts).  Three directories may hold a database: the    *)
(* repository's .beads (legacy), its quarantine and the Hub-managed         *)
(* directory; a redirect file in .beads names the managed one.  Commands of *)
(* several processes migrate before they write; the processes share the     *)
(* directories and the files journal, snapshot, pending and lease, and may  *)
(* be killed between any two effects.  A database is the set of the tasks   *)
(* in it: the identity the code captures (ids, counts, fingerprint) is      *)
(* exactly that set.  Direct bd commands of the user, an active bd server,  *)
(* the loss of the redirect and a database that reappears in the            *)
(* repository are the environment.                                          *)
(***************************************************************************)
EXTENDS Naturals, FiniteSets

CONSTANTS
    Proc,       \* processes that run archloop commands
    Task,       \* tasks written by commands and by direct bd use
    Seed,       \* the task a legacy store starts with
    NoProc,     \* no owner
    NoDb,       \* no embeddeddolt directory
    MaxCrash,   \* bound: processes killed
    MaxUser     \* bound: interventions of the user (server, lost redirect, new database)

ASSUME StoreAssumption ==
    /\ Seed \notin Task
    /\ NoProc \notin Proc
    /\ \A db \in SUBSET (Task \cup {Seed}) : db # NoDb
    /\ MaxCrash \in Nat /\ MaxUser \in Nat

VARIABLES
    repo, quarantine, managed,  \* stores: [db, meta]
    redirect,                   \* .beads/redirect names the managed directory
    journal,                    \* phases recorded in journal.jsonl
    snapshot,                   \* snapshot.json: the identity of the source, or NoDb
    pending,                    \* pending.json: [owner, waiting]
    lease,                      \* lease.json: its process, or NoProc
    source,                     \* the legacy store is quiet, owned by a live bd server, or unreadable
    proc,                       \* per process: [pc, legacy: kind at entry or store resolved, snap]
    written,                    \* ghost: tasks some store acknowledged
    legacyTasks,                \* ghost: tasks acknowledged by the legacy store
    contended,                  \* ghost: two processes were past the lease at once
    reappeared,                 \* ghost: a second database was created in the repository
    crashes, users

migrationVars == <<repo, quarantine, managed, redirect, journal, snapshot, pending, lease>>
ghostVars == <<legacyTasks, written, contended, reappeared>>
vars == <<migrationVars, source, proc, ghostVars, crashes, users>>

Phases == {"legacy_active", "snapshot_prepared", "legacy_quarantined",
           "managed_copied", "redirect_installed", "verified", "none"}

\* Steps taken while lease.json names, or should name, this process.
Holding == {"start", "snapshot", "source", "quarantine", "copy", "copyDb", "copyMeta",
            "redirect", "verify", "verified"}
Steps == Holding \cup {"idle", "acquire", "grab", "initRedirect", "resolve", "exec"}

Stores == [db : {NoDb} \cup SUBSET (Task \cup {Seed}), meta : BOOLEAN]
NoStore == [db |-> NoDb, meta |-> FALSE]
At(step) == [pc |-> step, legacy |-> FALSE, snap |-> NoDb]
NoPending == [owner |-> NoProc, waiting |-> FALSE]

----------------------------------------------------------------------------
(* Resolution and inspection: pure functions of the directories. *)

\* isBeadsStoreDatabasePresent, isBeadsStoreFullyInitialized
Present(store) == store.db # NoDb
FullyInitialized(store) == store.meta /\ Present(store)

\* resolveHubTaskStore: which store a command would use.
Kind ==
    IF redirect THEN "redirect"
    ELSE IF FullyInitialized(managed) THEN "managed"
    ELSE IF FullyInitialized(repo) THEN "legacy"
    ELSE "uninitialized"
RedirectError == redirect /\ ~managed.meta

\* detectHubTaskStoreSplitBrain
SplitBrain ==
    /\ redirect /\ ~RedirectError
    /\ Present(repo) /\ Present(managed)
    /\ repo.db # managed.db

\* hasDurableMigrationEvidence
MigrationEvidence(held) == journal # {} \/ held # NoDb \/ Present(quarantine)

\* highestPhase of a journal that has neither "verified" nor "legacy_active".
HighestPhase ==
    IF "redirect_installed" \in journal THEN "redirect_installed"
    ELSE IF "managed_copied" \in journal THEN "managed_copied"
    ELSE IF "legacy_quarantined" \in journal THEN "legacy_quarantined"
    ELSE IF "snapshot_prepared" \in journal THEN "snapshot_prepared"
    ELSE "none"

\* captureStoreIdentity: database identity, prefix, ids, counts and working state name the
\* tasks of a store; identitiesMatch compares two of them.
Identity(store) == store.db
IdentitiesMatch(expected, actual) == expected = actual

\* derivePhase: physical layout before the journal.
DerivePhase(held) ==
    LET managedReady == FullyInitialized(managed)
        redirectReady == redirect /\ ~RedirectError /\ managedReady
        late(phase) == IF MigrationEvidence(held) THEN phase ELSE "none"
    IN  IF redirectReady /\ "verified" \in journal THEN "verified"
        ELSE IF redirectReady THEN late("redirect_installed")
        ELSE IF managedReady THEN late("managed_copied")
        ELSE IF Present(quarantine) THEN "legacy_quarantined"
        ELSE IF held # NoDb THEN "snapshot_prepared"
        ELSE IF Kind = "legacy" \/ "legacy_active" \in journal THEN "legacy_active"
        ELSE HighestPhase

----------------------------------------------------------------------------
Init ==
    /\ repo \in {[db |-> {Seed}, meta |-> TRUE], NoStore}
    /\ quarantine = NoStore /\ managed = NoStore
    /\ redirect = FALSE /\ journal = {} /\ snapshot = NoDb
    /\ pending = NoPending /\ lease = NoProc /\ source = "quiet"
    /\ proc = [p \in Proc |-> At("idle")]
    /\ legacyTasks = IF Present(repo) THEN {Seed} ELSE {}
    /\ written = {} /\ contended = FALSE /\ reappeared = FALSE
    /\ crashes = 0 /\ users = 0

\* isProcessAlive: one process per command, so an idle slot is a process that ended.
Alive(owner) == owner # NoProc /\ proc[owner].pc # "idle"

Goto(p, step) == proc' = [proc EXCEPT ![p].pc = step]
Hold(p, step, held) == proc' = [proc EXCEPT ![p].pc = step, ![p].snap = held]
Begin(p, step) == proc' = [proc EXCEPT ![p] = At(step)]

\* appendJournalPhase: a phase is recorded once.
Record(phase) == journal' = journal \cup {phase}

\* recordPending by deferMigration; the delay (2 s to 2 min by attempt) is the flag waiting.
RecordPending(p) == pending' = [owner |-> p, waiting |-> TRUE]

\* releaseMigrationLease in the finally block: whoever owns the file.
Release == lease' = NoProc

\* installHubTaskStoreRedirect: written aside and renamed, with the Git excludes.
InstallHubTaskStoreRedirect == redirect' = TRUE

\* A command whose migration was deferred or not needed goes on to write.
Continue(p) == Begin(p, "resolve")

\* deferMigration after the lease was taken.
Defer(p) ==
    /\ RecordPending(p) /\ Release /\ Continue(p)
    /\ UNCHANGED <<repo, quarantine, managed, redirect>>

\* An error thrown past the finally block ends the command.
Fail(p) ==
    /\ Release /\ Begin(p, "idle")
    /\ UNCHANGED <<repo, quarantine, managed, redirect, journal, snapshot, pending>>

----------------------------------------------------------------------------
(* ensureHubTaskStoreMigrated *)

\* inspectHubTaskStoreMigration reads the files as they are.
InspectedPhase == DerivePhase(snapshot)

\* readPending: a record defers while it waits or its owner lives.
StillPending == pending.waiting \/ Alive(pending.owner)

\* Its entry, up to the lease: an invalid redirect throws; a split brain, a finished
\* migration, a store that never was legacy and a pending record that waits or has a live
\* owner return.  The command is a new process: files its predecessor left have a dead owner.
Enter(p) ==
    LET phase == InspectedPhase
        gone == [pending EXCEPT !.owner = IF @ = p THEN NoProc ELSE @]
    IN  /\ proc[p].pc = "idle"
        /\ IF RedirectError \/ SplitBrain
             THEN Begin(p, "idle") /\ pending' = gone
             ELSE IF phase = "verified" \/ StillPending
                     \/ (Kind # "legacy" /\ phase = "none" /\ ~Present(quarantine))
               THEN Continue(p) /\ pending' = gone
             ELSE IF Kind = "legacy" /\ ~Present(quarantine) /\ source = "unreadable"
               THEN /\ IF snapshot # NoDb THEN RecordPending(p) ELSE pending' = gone
                    /\ Continue(p)
             ELSE /\ proc' = [proc EXCEPT ![p] = [At("acquire") EXCEPT !.legacy = (Kind = "legacy")]]
                  /\ pending' = gone
        /\ lease' = IF lease = p THEN NoProc ELSE lease
        /\ UNCHANGED <<repo, quarantine, managed, redirect, journal, snapshot>>
        /\ UNCHANGED <<source, ghostVars, crashes, users>>

\* acquireMigrationLease reads the file; a process that died is superseded.
Acquire(p) ==
    /\ proc[p].pc = "acquire"
    /\ IF Alive(lease)
         THEN RecordPending(p) /\ Continue(p)
         ELSE Goto(p, "grab") /\ UNCHANGED pending
    /\ UNCHANGED <<repo, quarantine, managed, redirect, journal, snapshot, lease>>
    /\ UNCHANGED <<source, ghostVars, crashes, users>>

\* ... and writes it in a second step, whatever happened in between.
Grab(p) ==
    /\ proc[p].pc = "grab"
    /\ lease' = p
    /\ contended' = (contended \/ \E q \in Proc \ {p} : proc[q].pc \in Holding)
    /\ Hold(p, "start", snapshot)
    /\ UNCHANGED <<repo, quarantine, managed, redirect, journal, snapshot, pending>>
    /\ UNCHANGED <<source, legacyTasks, written, reappeared, crashes, users>>

Start(p) ==
    LET phase == DerivePhase(proc[p].snap)
    IN  /\ proc[p].pc = "start"
        /\ IF phase \notin {"none", "legacy_active"}
             THEN Goto(p, "snapshot") /\ UNCHANGED migrationVars
             ELSE IF proc[p].legacy /\ source = "server"
               THEN Defer(p) /\ UNCHANGED <<journal, snapshot>>
             ELSE /\ Record("legacy_active")
                  /\ Goto(p, "snapshot")
                  /\ UNCHANGED <<repo, quarantine, managed, redirect, snapshot, pending, lease>>
        /\ UNCHANGED <<source, ghostVars, crashes, users>>

\* Capturing the identity of a store that is not there throws; so does an error of bd.
PrepareSnapshot(p) ==
    /\ proc[p].pc = "snapshot"
    /\ IF DerivePhase(proc[p].snap) = "legacy_active" \/ (proc[p].snap = NoDb /\ Kind = "legacy")
         THEN IF ~Present(repo) \/ source = "unreadable" THEN Fail(p)
              ELSE /\ snapshot' = Identity(repo)
                   /\ Record("snapshot_prepared")
                   /\ Hold(p, "source", Identity(repo))
                   /\ UNCHANGED <<repo, quarantine, managed, redirect, pending, lease>>
         ELSE LET held == IF proc[p].snap # NoDb THEN proc[p].snap ELSE snapshot
              IN  IF held = NoDb THEN Fail(p)
                  ELSE Hold(p, "source", held) /\ UNCHANGED migrationVars
    /\ UNCHANGED <<source, ghostVars, crashes, users>>

\* The source must still be what the snapshot says.
CheckSource(p) ==
    /\ proc[p].pc = "source"
    /\ IF Present(repo) /\ ~Present(quarantine)
         THEN \/ /\ source = "unreadable"
                 /\ Defer(p) /\ UNCHANGED <<journal, snapshot>>
              \/ /\ source # "unreadable" /\ ~IdentitiesMatch(proc[p].snap, Identity(repo))
                 /\ snapshot' = NoDb
                 /\ Defer(p) /\ UNCHANGED journal
              \/ /\ source # "unreadable" /\ IdentitiesMatch(proc[p].snap, Identity(repo))
                 /\ Goto(p, "quarantine") /\ UNCHANGED migrationVars
         ELSE Goto(p, "quarantine") /\ UNCHANGED migrationVars
    /\ UNCHANGED <<source, ghostVars, crashes, users>>

\* quarantineLegacyStore: the database directory is renamed, an existing target is kept;
\* the marker metadata.json stays.
Quarantine(p) ==
    LET phase == DerivePhase(proc[p].snap)
    IN  /\ proc[p].pc = "quarantine"
        /\ IF phase = "snapshot_prepared" \/ (phase = "legacy_active" /\ Present(repo))
             THEN /\ IF Present(repo) /\ ~Present(quarantine)
                       THEN /\ quarantine' = [db |-> repo.db, meta |-> FALSE]
                            /\ repo' = [repo EXCEPT !.db = NoDb]
                       ELSE UNCHANGED <<repo, quarantine>>
                  /\ Record("legacy_quarantined")
             ELSE UNCHANGED <<repo, quarantine, journal>>
        /\ Goto(p, "copy")
        /\ UNCHANGED <<managed, redirect, snapshot, pending, lease>>
        /\ UNCHANGED <<source, ghostVars, crashes, users>>

\* Mutant: what an interrupted copy left is not removed.
CopyBeginKeepsPartial(p) ==
    /\ proc[p].pc = "copy"
    /\ IF /\ Present(quarantine) /\ "verified" \notin journal
          /\ \/ DerivePhase(proc[p].snap) \in {"legacy_quarantined", "managed_copied", "redirect_installed"}
             \/ ~FullyInitialized(managed)
         THEN IF Present(managed) THEN Goto(p, "copyMeta") /\ UNCHANGED managed
              ELSE managed' = [db |-> {}, meta |-> FALSE] /\ Goto(p, "copyDb")
         ELSE Goto(p, "redirect") /\ UNCHANGED managed
    /\ UNCHANGED <<repo, quarantine, redirect, journal, snapshot, pending, lease>>
    /\ UNCHANGED <<source, ghostVars, crashes, users>>

\* The managed directory is removed before the copy begins.
CopyBegin(p) ==
    /\ proc[p].pc = "copy"
    /\ IF /\ Present(quarantine) /\ "verified" \notin journal
          /\ \/ DerivePhase(proc[p].snap) \in {"legacy_quarantined", "managed_copied", "redirect_installed"}
             \/ ~FullyInitialized(managed)
         THEN /\ managed' = [db |-> {}, meta |-> FALSE]
              /\ Goto(p, "copyDb")
         ELSE Goto(p, "redirect") /\ UNCHANGED managed
    /\ UNCHANGED <<repo, quarantine, redirect, journal, snapshot, pending, lease>>
    /\ UNCHANGED <<source, ghostVars, crashes, users>>

\* Mutant: the quarantined database is moved.
CopyDbMoves(p) ==
    /\ proc[p].pc = "copyDb"
    /\ managed' = [managed EXCEPT !.db = quarantine.db]
    /\ quarantine' = NoStore
    /\ Goto(p, "copyMeta")
    /\ UNCHANGED <<repo, redirect, journal, snapshot, pending, lease>>
    /\ UNCHANGED <<source, ghostVars, crashes, users>>

\* Mutant: only the tasks of the snapshot are copied.
CopyDbOfSnapshot(p) ==
    /\ proc[p].pc = "copyDb"
    /\ managed' = [managed EXCEPT !.db = proc[p].snap]
    /\ Goto(p, "copyMeta")
    /\ UNCHANGED <<repo, quarantine, redirect, journal, snapshot, pending, lease>>
    /\ UNCHANGED <<source, ghostVars, crashes, users>>

\* copyManagedStore: the quarantined entries, ...
CopyDb(p) ==
    /\ proc[p].pc = "copyDb"
    /\ managed' = [managed EXCEPT !.db = quarantine.db]
    /\ Goto(p, "copyMeta")
    /\ UNCHANGED <<repo, quarantine, redirect, journal, snapshot, pending, lease>>
    /\ UNCHANGED <<source, ghostVars, crashes, users>>

\* ... then the marker and configuration left in the repository.
CopyMeta(p) ==
    /\ proc[p].pc = "copyMeta"
    /\ managed' = [managed EXCEPT !.meta = @ \/ repo.meta]
    /\ Record("managed_copied")
    /\ Goto(p, "redirect")
    /\ UNCHANGED <<repo, quarantine, redirect, snapshot, pending, lease>>
    /\ UNCHANGED <<source, ghostVars, crashes, users>>

InstallRedirect(p) ==
    /\ proc[p].pc = "redirect"
    /\ IF ~redirect \/ RedirectError \/ DerivePhase(proc[p].snap) = "managed_copied"
         THEN InstallHubTaskStoreRedirect /\ Record("redirect_installed")
         ELSE UNCHANGED <<redirect, journal>>
    /\ Goto(p, "verify")
    /\ UNCHANGED <<repo, quarantine, managed, snapshot, pending, lease>>
    /\ UNCHANGED <<source, ghostVars, crashes, users>>

\* verifyManagedStore: complete and equal to the snapshot, or the command fails.
Verify(p) ==
    /\ proc[p].pc = "verify"
    /\ IF FullyInitialized(managed) /\ IdentitiesMatch(proc[p].snap, Identity(managed))
         THEN Goto(p, "verified") /\ UNCHANGED migrationVars
         ELSE Fail(p)
    /\ UNCHANGED <<source, ghostVars, crashes, users>>

\* The last phase is recorded, the pending record removed and the lease released.
Verified(p) ==
    /\ proc[p].pc = "verified"
    /\ Record("verified")
    /\ pending' = NoPending
    /\ Release /\ Continue(p)
    /\ UNCHANGED <<repo, quarantine, managed, redirect, snapshot>>
    /\ UNCHANGED <<source, ghostVars, crashes, users>>

----------------------------------------------------------------------------
(* initHubTaskStore and runBdTextForHubTaskStore *)

\* tasks init where neither a legacy store nor a quarantine exists creates the managed store.
InitManaged(p) ==
    /\ proc[p].pc = "idle"
    /\ ~FullyInitialized(repo) /\ ~Present(quarantine)
    /\ managed' = IF FullyInitialized(managed) THEN managed ELSE [db |-> {}, meta |-> TRUE]
    /\ pending' = [pending EXCEPT !.owner = IF @ = p THEN NoProc ELSE @]
    /\ lease' = IF lease = p THEN NoProc ELSE lease
    /\ Goto(p, "initRedirect")
    /\ UNCHANGED <<repo, quarantine, redirect, journal, snapshot>>
    /\ UNCHANGED <<source, ghostVars, crashes, users>>

InitRedirect(p) ==
    /\ proc[p].pc = "initRedirect"
    /\ InstallHubTaskStoreRedirect
    /\ Begin(p, "idle")
    /\ UNCHANGED <<repo, quarantine, managed, journal, snapshot, pending, lease>>
    /\ UNCHANGED <<source, ghostVars, crashes, users>>

\* resolveBeadsDirForPresenceCheck: an unresolved store is looked for in the repository.
MarkerPresent == IF Kind \in {"redirect", "managed"} THEN managed.meta ELSE repo.meta

\* A mutating command resolves the store and refuses a missing or split one; ...
ResolveStore(p) ==
    /\ proc[p].pc = "resolve"
    /\ IF RedirectError \/ SplitBrain \/ ~MarkerPresent
         THEN Begin(p, "idle")
         ELSE proc' = [proc EXCEPT ![p] = [At("exec") EXCEPT !.legacy = (Kind = "legacy")]]
    /\ UNCHANGED <<migrationVars, source, ghostVars, crashes, users>>

\* Adding a task to the store a command names; bd fails where there is no database.
Write(where, t) ==
    /\ written' = written \cup {t}
    /\ \/ /\ where = "repo" /\ Present(repo)
          /\ repo' = [repo EXCEPT !.db = @ \cup {t}]
          /\ legacyTasks' = legacyTasks \cup {t}
          /\ UNCHANGED managed
       \/ /\ where = "managed" /\ FullyInitialized(managed)
          /\ managed' = [managed EXCEPT !.db = @ \cup {t}]
          /\ UNCHANGED <<repo, legacyTasks>>

\* ... bd then runs in the store that was resolved.
ExecBd(p) ==
    /\ proc[p].pc = "exec"
    /\ \/ \E t \in Task \ written : Write(IF proc[p].legacy THEN "repo" ELSE "managed", t)
       \/ UNCHANGED <<repo, managed, legacyTasks, written>>
    /\ Begin(p, "idle")
    /\ UNCHANGED <<quarantine, redirect, journal, snapshot, pending, lease>>
    /\ UNCHANGED <<source, contended, reappeared, crashes, users>>

----------------------------------------------------------------------------
(* The environment *)

\* A bd command the user runs directly follows the redirect.
DirectBd ==
    /\ \E t \in Task \ written : Write(IF redirect THEN "managed" ELSE "repo", t)
    /\ UNCHANGED <<quarantine, redirect, journal, snapshot, pending, lease>>
    /\ UNCHANGED <<proc, source, contended, reappeared, crashes, users>>

\* A bd server starts, or reading the store begins to fail, and ends.
SourceChanges ==
    /\ \/ source = "quiet" /\ users < MaxUser /\ users' = users + 1
          /\ source' \in {"server", "unreadable"}
       \/ source # "quiet" /\ source' = "quiet" /\ UNCHANGED users
    /\ UNCHANGED <<migrationVars, proc, ghostVars, crashes>>

\* The Git-ignored redirect is removed, or a database is created in the repository again.
RedirectLost ==
    /\ users < MaxUser /\ redirect
    /\ redirect' = FALSE /\ users' = users + 1
    /\ UNCHANGED <<repo, quarantine, managed, journal, snapshot, pending, lease>>
    /\ UNCHANGED <<proc, source, ghostVars, crashes>>

LegacyReappears ==
    /\ users < MaxUser /\ ~Present(repo)
    /\ repo' = [db |-> {}, meta |-> TRUE]
    /\ users' = users + 1 /\ reappeared' = TRUE
    /\ UNCHANGED <<quarantine, managed, redirect, journal, snapshot, pending, lease>>
    /\ UNCHANGED <<proc, source, legacyTasks, written, contended, crashes>>

\* The delay of a pending record ends.
BackoffElapses ==
    /\ pending.waiting
    /\ pending' = [pending EXCEPT !.waiting = FALSE]
    /\ UNCHANGED <<repo, quarantine, managed, redirect, journal, snapshot, lease>>
    /\ UNCHANGED <<proc, source, ghostVars, crashes, users>>

\* A kill leaves every file as it is; a database being copied stays partial.
Crash(p) ==
    /\ crashes < MaxCrash /\ proc[p].pc # "idle"
    /\ crashes' = crashes + 1
    /\ Begin(p, "idle")
    /\ UNCHANGED <<migrationVars, source, ghostVars, users>>

Migrate(p) ==
    \/ Acquire(p) \/ Grab(p) \/ Start(p) \/ PrepareSnapshot(p) \/ CheckSource(p)
    \/ Quarantine(p) \/ CopyBegin(p) \/ CopyDb(p) \/ CopyMeta(p) \/ InstallRedirect(p)
    \/ Verify(p) \/ Verified(p)

Command(p) == InitRedirect(p) \/ ResolveStore(p) \/ ExecBd(p)

Next ==
    \/ \E p \in Proc : Enter(p) \/ Migrate(p) \/ InitManaged(p) \/ Command(p) \/ Crash(p)
    \/ DirectBd \/ SourceChanges \/ RedirectLost \/ LegacyReappears
    \/ BackoffElapses

Spec == Init /\ [][Next]_vars

\* A process that runs goes on, commands keep being issued, delays elapse, and a server or
\* a read error of the legacy store does not last for ever.
FairSpec ==
    /\ Spec
    /\ \A p \in Proc : WF_vars(Enter(p)) /\ WF_vars(Migrate(p) \/ Command(p))
    /\ WF_vars(BackoffElapses) /\ WF_vars(source # "quiet" /\ SourceChanges)

----------------------------------------------------------------------------
(* Properties *)

\* Every file has one of its shapes, and a process past the snapshot step holds one.
TypeOK ==
    /\ repo \in Stores /\ quarantine \in Stores /\ managed \in Stores
    /\ redirect \in BOOLEAN /\ journal \subseteq Phases \ {"none"}
    /\ snapshot \in {NoDb} \cup SUBSET (Task \cup {Seed})
    /\ pending \in [owner : Proc \cup {NoProc}, waiting : BOOLEAN]
    /\ lease \in Proc \cup {NoProc}
    /\ source \in {"quiet", "server", "unreadable"} /\ contended \in BOOLEAN /\ reappeared \in BOOLEAN
    /\ \A p \in Proc : proc[p].pc \in Steps
    /\ \A p \in Proc : proc[p].pc \in Holding \ {"start", "snapshot"} => proc[p].snap # NoDb
    /\ legacyTasks \subseteq written \cup {Seed} /\ written \subseteq Task

\* A task the legacy store acknowledged stays in the repository's database or in the
\* quarantine through every crash, retry and race (the retained backup).
OriginalsKept ==
    legacyTasks \subseteq UNION {s.db : s \in {x \in {repo, quarantine} : Present(x)}}

\* When the journal records "verified", the managed store has every task the legacy store
\* ever acknowledged; unless two processes migrated at once or the user created a second
\* database.
MigratedIsComplete ==
    [][ /\ "verified" \in journal' \ journal
        /\ ~contended' /\ ~reappeared'
        => legacyTasks \subseteq managed'.db ]_vars

\* Once "verified" is recorded no step drops a task from the managed store: a lost redirect,
\* a retry or a crash never starts the copy again.
VerifiedIsKept ==
    [][ "verified" \in journal /\ ~contended => managed.db \subseteq managed'.db ]_vars

\* A write that reached the database between the check of the source and its rename: no
\* retry can verify the copy any more.
SourceOutran == Present(quarantine) /\ quarantine.db # snapshot

\* A migration that was started is verified in the end, by retries of the command after
\* crashes and deferrals; unless it stays in one of the three states the code cannot leave,
\* or two processes got past the lease and may go on taking it from each other.
MigrationCompletes ==
    "legacy_active" \in journal ~>
        ("verified" \in journal \/ contended \/ [](RedirectError \/ SplitBrain \/ SourceOutran))

\* TypeOK and OriginalsKept: no step leaves a file in a shape the migration does not know,
\* nor one that held a task nowhere (runHubTaskStoreMigration).
OriginalsAreSafe == TypeOK /\ OriginalsKept

\* The copy is complete when it is recorded as verified, and stays so: MigratedIsComplete
\* and VerifiedIsKept (verifyHubTaskStoreCopy, the resumption of a migration).
CopyIsTrusted == MigratedIsComplete /\ VerifiedIsKept
=============================================================================
