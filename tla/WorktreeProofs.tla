--------------------------- MODULE WorktreeProofs ---------------------------
(***************************************************************************)
(* Proofs about WorktreeRun: a worktree is held by one process at a time   *)
(* unless a lease was removed from under its owner, and uncommitted work   *)
(* goes only with a worktree that processes shared.                        *)
(*                                                                         *)
(* The argument: whoever holds a worktree and was not robbed is named by   *)
(* the lock file (HeldIsLocked), and a lock file names one process.  Two   *)
(* processes are inside a worktree only if the second found the first one  *)
(* there when it created or reused it (SharedIsMixed), and only somebody   *)
(* else can dirty a worktree between git status and its removal            *)
(* (RemovesClean).                                                         *)
(***************************************************************************)
EXTENDS WorktreeRun, TLAPS

-----------------------------------------------------------------------------
(* The order of the phases *)

\* The turn of the lease and of the prune.
LeaseTurn(p) == IF name[p] = p THEN 3 ELSE IF entry[p] = "run" THEN 1 ELSE 2
PruneTurn(p) == IF name[p] = p THEN 1 ELSE IF entry[p] = "run" THEN 2 ELSE 1

\* The order of the phases of a call.
LEMMA Orders ==
    ASSUME NEW p, NEW o, o = Order(entry[p], name[p] = p), entry[p] \in {"run", "worktree", "sandbox"},
           NEW i \in 1 .. 7
    PROVE  /\ DOMAIN o = 1 .. 7
           /\ o[i] = "lease" <=> i = LeaseTurn(p)
           /\ o[i] = "prune" <=> i = PruneTurn(p)
           /\ o[i] = "create" => (i = 2 /\ name[p] = p) \/ (i = 3 /\ name[p] # p)
           /\ o[i] = "setup" <=> i = 4
           /\ o[i] = "use" <=> i = 5
           /\ o[i] = "clean" <=> i = 6
           /\ o[i] = "release" <=> i = 7
           /\ o[i] # "idle"
<1>0. i \in {1, 2, 3, 4, 5, 6, 7}
  OBVIOUS
<1>1. CASE name[p] = p
  <2>1. o = <<"prune", "create", "lease", "setup", "use", "clean", "release">>
    BY <1>1 DEF Order
  <2>2. DOMAIN o = 1 .. 7
    BY <2>1
  <2>3. /\ o[1] = "prune" /\ o[2] = "create" /\ o[3] = "lease" /\ o[4] = "setup"
        /\ o[5] = "use" /\ o[6] = "clean" /\ o[7] = "release"
    BY <2>1
  <2>4. LeaseTurn(p) = 3 /\ PruneTurn(p) = 1
    BY <1>1 DEF LeaseTurn, PruneTurn
  <2> QED BY <1>0, <1>1, <2>2, <2>3, <2>4
<1>2. CASE name[p] # p /\ entry[p] = "run"
  <2>1. o = <<"lease", "prune", "create", "setup", "use", "clean", "release">>
    BY <1>2 DEF Order
  <2>2. DOMAIN o = 1 .. 7
    BY <2>1
  <2>3. /\ o[1] = "lease" /\ o[2] = "prune" /\ o[3] = "create" /\ o[4] = "setup"
        /\ o[5] = "use" /\ o[6] = "clean" /\ o[7] = "release"
    BY <2>1
  <2>4. LeaseTurn(p) = 1 /\ PruneTurn(p) = 2
    BY <1>2 DEF LeaseTurn, PruneTurn
  <2> QED BY <1>0, <1>2, <2>2, <2>3, <2>4
<1>3. CASE name[p] # p /\ entry[p] # "run"
  <2>1. o = <<"prune", "lease", "create", "setup", "use", "clean", "release">>
    BY <1>3 DEF Order
  <2>2. DOMAIN o = 1 .. 7
    BY <2>1
  <2>3. /\ o[1] = "prune" /\ o[2] = "lease" /\ o[3] = "create" /\ o[4] = "setup"
        /\ o[5] = "use" /\ o[6] = "clean" /\ o[7] = "release"
    BY <2>1
  <2>4. LeaseTurn(p) = 2 /\ PruneTurn(p) = 1
    BY <1>3 DEF LeaseTurn, PruneTurn
  <2> QED BY <1>0, <1>3, <2>2, <2>3, <2>4
<1> QED BY <1>1, <1>2, <1>3

\* No name is None, and the entry points are those of the code.
LEMMA NoName == None \notin Name /\ None \notin Entries /\ Entries \subseteq {"run", "worktree", "sandbox"}
BY WorktreeAssumption DEF Name

\* A phase starts with a check, a scan or its only step, never with a removal.
LEMMA FirstSteps == ASSUME NEW f PROVE FirstStep(f) \in {"check", "scan", "start"}
BY DEF FirstStep

\* p works in its worktree, or prepares or cleans it.
In(p) == entry[p] # None /\ at[p] \in 4 .. 6

\* p is past its lease.
Holding(p) == entry[p] # None /\ at[p] > LeaseTurn(p)

\* A process in a call is on a branch all may name or on one of its own.
OwnName == \A p \in Proc : entry[p] # None => name[p] \in Branch \cup (Temporary \cap {p})

\* The pid of a process is counted by its crashes.
EpochsCounted == \A p \in Proc : epoch[p] <= crashes

\* Only a prune has lock files to remove.
DoomedInPrune ==
    \A p \in Proc : doomed[p] # {} => /\ entry[p] # None
                                      /\ at[p] = PruneTurn(p)

WellFormed == TypeOK /\ OwnName /\ EpochsCounted /\ DoomedInPrune

\* The phases of a process in a call, by their turns.
LEMMA Phases ==
    ASSUME WellFormed, NEW p \in Proc
    PROVE  /\ Phase(p) \in {"lease", "prune", "create", "setup", "use", "clean", "release"} =>
                entry[p] # None /\ name[p] \in Name
           /\ Phase(p) = "lease" => at[p] = LeaseTurn(p)
           /\ Phase(p) = "prune" => at[p] = PruneTurn(p)
           /\ Phase(p) = "create" => (at[p] = 2 /\ name[p] = p) \/ (at[p] = 3 /\ name[p] # p)
           /\ Phase(p) = "setup" => at[p] = 4
           /\ Phase(p) = "use" => at[p] = 5
           /\ Phase(p) = "clean" => at[p] = 6
           /\ Phase(p) = "release" => at[p] = 7
           /\ Phase(p) \in {"setup", "use", "clean"} <=> In(p)
           /\ Holds(p) <=> Holding(p)
<1>0. entry[p] # None => /\ entry[p] \in {"run", "worktree", "sandbox"} /\ name[p] \in Name
                         /\ name[p] # None /\ at[p] \in 1 .. 7
  <2> SUFFICES ASSUME entry[p] # None
               PROVE  /\ entry[p] \in {"run", "worktree", "sandbox"} /\ name[p] \in Name
                      /\ name[p] # None /\ at[p] \in 1 .. 7
    OBVIOUS
  <2>1. entry[p] \in Entries /\ at[p] \in 1 .. 7
    BY DEF WellFormed, TypeOK
  <2>2. name[p] \in Name
    BY DEF WellFormed, OwnName, Name
  <2> QED BY <2>1, <2>2, NoName
<1>1. CASE entry[p] = None
  BY <1>1 DEF Phase, In, Holds, Holding
<1>2. CASE entry[p] # None
  <2>1. PICK o : o = Order(entry[p], name[p] = p)
    OBVIOUS
  <2>2. Phase(p) = o[at[p]]
    BY <1>2, <2>1 DEF Phase
  <2>3. Holds(p) <=> Holding(p)
    <3>1. \A i \in 1 .. 7 : o[i] = "lease" <=> i = LeaseTurn(p)
      BY <1>0, <1>2, <2>1, Orders
    <3>2. LeaseTurn(p) \in 1 .. 7
      BY DEF LeaseTurn
    <3> QED BY <1>0, <1>2, <2>1, <3>1, <3>2 DEF Holds, Holding
  <2>4. /\ o[at[p]] = "lease" <=> at[p] = LeaseTurn(p)
        /\ o[at[p]] = "prune" <=> at[p] = PruneTurn(p)
        /\ o[at[p]] = "create" => (at[p] = 2 /\ name[p] = p) \/ (at[p] = 3 /\ name[p] # p)
        /\ o[at[p]] = "setup" <=> at[p] = 4
        /\ o[at[p]] = "use" <=> at[p] = 5
        /\ o[at[p]] = "clean" <=> at[p] = 6
        /\ o[at[p]] = "release" <=> at[p] = 7
    BY <1>0, <1>2, <2>1, Orders
  <2> QED BY <1>0, <1>2, <2>2, <2>3, <2>4 DEF In
<1> QED BY <1>1, <1>2

-----------------------------------------------------------------------------
(* How a process moves *)

Pcs == {"start", "check", "remove", "recheck", "reremove", "open", "reopen", "write", "scan"}

\* The part of the types and of the invariant that is about the calls.
CallsOK ==
    /\ entry \in [Proc -> Entries \cup {None}] /\ name \in [Proc -> Name \cup {None}]
    /\ \A p \in Proc : entry[p] = None => name[p] = None /\ at[p] = 1 /\ doomed[p] = {}
    /\ at \in [Proc -> 1 .. 7] /\ pc \in [Proc -> Pcs] /\ doomed \in [Proc -> SUBSET Name]
    /\ OwnName /\ DoomedInPrune

\* The rest of it.
WorldOK ==
    /\ dir \in [Name -> BOOLEAN] /\ dirty \in [Name -> BOOLEAN]
    /\ lease \in [Name -> {None} \cup [by : Pid, written : BOOLEAN]]
    /\ epoch \in [Proc -> 0 .. MaxCrashes] /\ mixed \subseteq Name /\ robbed \subseteq Proc
    /\ crashes \in 0 .. MaxCrashes /\ failures \in 0 .. MaxFailures
    /\ EpochsCounted

\* The type invariant with what makes it inductive, as calls and files.
LEMMA Parts == WellFormed <=> CallsOK /\ WorldOK
BY DEF WellFormed, TypeOK, CallsOK, WorldOK, Pcs

\* A step of p leaves the calls of the others alone.
OthersKept(p) ==
    \A q \in Proc \ {p} : /\ entry'[q] = entry[q] /\ name'[q] = name[q] /\ at'[q] = at[q]
                          /\ pc'[q] = pc[q] /\ epoch'[q] = epoch[q]

\* p ends or starts its call, stays in its phase, or goes to a later one without having
\* taken the lease or entered the worktree.
Goes(p) ==
    /\ OthersKept(p)
    /\ \/ entry'[p] = None
       \/ at'[p] = 1 /\ entry'[p] # None
       \/ /\ entry'[p] = entry[p] /\ name'[p] = name[p] /\ epoch'[p] = epoch[p]
          /\ \/ at'[p] = at[p]
             \/ at'[p] = at[p] + 1 /\ at[p] \notin {LeaseTurn(p), 3} /\ pc'[p] # "remove"
             \/ at'[p] = 7 /\ Holding(p)

\* A step inside a phase keeps the calls well formed.
LEMMA MoveStep ==
    ASSUME CallsOK, NEW p \in Proc, NEW s \in Pcs, Step(p, s), entry[p] # None,
           \/ doomed' = doomed
           \/ /\ at[p] = PruneTurn(p)
              /\ \E D \in SUBSET Name : doomed' = [doomed EXCEPT ![p] = D],
           epoch' = epoch
    PROVE  CallsOK' /\ Goes(p)
BY DEF CallsOK, Step, OwnName, DoomedInPrune, PruneTurn, Goes, OthersKept

\* So does the step to the next phase,
LEMMA MoveNext ==
    ASSUME CallsOK, NEW p \in Proc, NextPhase(p), entry[p] # None, at[p] < 7,
           \/ doomed' = doomed /\ at[p] # PruneTurn(p)
           \/ doomed' = [doomed EXCEPT ![p] = {}],
           epoch' = epoch
    PROVE  /\ CallsOK' /\ OthersKept(p) /\ UNCHANGED <<entry, name>>
           /\ at'[p] = at[p] + 1 /\ pc'[p] # "remove"
<1>1. PICK s \in {"check", "scan", "start"} : pc' = [pc EXCEPT ![p] = s]
  BY FirstSteps DEF NextPhase
<1>2. UNCHANGED <<entry, name>> /\ at' = [at EXCEPT ![p] = @ + 1]
  BY DEF NextPhase
<1> QED BY <1>1, <1>2 DEF CallsOK, OwnName, DoomedInPrune, PruneTurn, OthersKept, Pcs

\* the end of a call
LEMMA MoveEnd ==
    ASSUME CallsOK, NEW p \in Proc, End(p),
           \/ doomed' = doomed /\ at[p] # PruneTurn(p)
           \/ doomed' = [doomed EXCEPT ![p] = {}],
           \A q \in Proc \ {p} : epoch'[q] = epoch[q]
    PROVE  CallsOK' /\ Goes(p)
BY DEF CallsOK, End, OwnName, DoomedInPrune, PruneTurn, Goes, OthersKept, Pcs

\* and the jump of a failed call to its release.
LEMMA MoveRelease ==
    ASSUME CallsOK, WellFormed, NEW p \in Proc, GotoPhase(p, "release"), Holding(p),
           doomed' = doomed, at[p] # PruneTurn(p), epoch' = epoch
    PROVE  CallsOK' /\ Goes(p)
<1>1. PICK s \in {"check", "scan", "start"} : pc' = [pc EXCEPT ![p] = s]
  BY FirstSteps DEF GotoPhase
<1>2. at' = [at EXCEPT ![p] = 7]
  <2>1. PICK o : o = Order(entry[p], name[p] = p)
    OBVIOUS
  <2>2. at' = [at EXCEPT ![p] = CHOOSE i \in DOMAIN o : o[i] = "release"]
    BY <2>1 DEF GotoPhase
  <2>3. entry[p] \in {"run", "worktree", "sandbox"}
    BY NoName DEF CallsOK, Holding
  <2>4. DOMAIN o = 1 .. 7 /\ \A i \in 1 .. 7 : o[i] = "release" <=> i = 7
    BY <2>1, <2>3, Orders
  <2> DEFINE turn == CHOOSE i \in DOMAIN o : o[i] = "release"
  <2>5. \E i \in DOMAIN o : o[i] = "release"
    BY <2>4
  <2>6. turn \in DOMAIN o /\ o[turn] = "release"
    BY <2>5
  <2> HIDE DEF turn
  <2>7. turn = 7
    BY <2>4, <2>6
  <2> QED BY <2>2, <2>7 DEF turn
<1>3. UNCHANGED <<entry, name>>
  BY DEF GotoPhase
<1> QED BY <1>1, <1>2, <1>3
        DEF CallsOK, OwnName, DoomedInPrune, PruneTurn, Goes, OthersKept, Pcs, Holding

\* Every step but the creation of the worktree and of the lock file.
Ordinary(p) ==
    \/ \E e \in Entries, n \in Name : Call(p, e, n)
    \/ CheckLease(p) \/ RemoveStale(p) \/ OpenLease(p) \/ PruneScan(p) \/ PruneRemove(p)
    \/ Setup(p) \/ Finish(p) \/ CheckDirty(p) \/ RemoveWorktree(p) \/ Release(p)
    \/ CreateFails(p) \/ SetupFails(p) \/ Edit(p) \/ Crash(p)

\* The ordinary steps keep the calls well formed.
LEMMA OrdinaryGoes ==
    ASSUME WellFormed, NEW p \in Proc, Ordinary(p)
    PROVE  CallsOK' /\ Goes(p)
<1>0. /\ CallsOK /\ p \in Proc /\ at[p] \in 1 .. 7
      /\ LeaseTurn(p) \in 1 .. 3 /\ PruneTurn(p) \in 1 .. 2 /\ LeaseTurn(p) # PruneTurn(p)
  BY Parts DEF CallsOK, LeaseTurn, PruneTurn
<1> USE DEF who
<1>1. ASSUME NEW e \in Entries, NEW n \in Name, Call(p, e, n) PROVE CallsOK' /\ Goes(p)
  <2>1. PICK s \in {"check", "scan", "start"} : pc' = [pc EXCEPT ![p] = s]
    BY <1>1, FirstSteps DEF Call
  <2>2. /\ entry[p] = None /\ e # None
        /\ n \in Branch \cup (Temporary \cap {p})
        /\ entry' = [entry EXCEPT ![p] = e] /\ name' = [name EXCEPT ![p] = n]
        /\ at' = [at EXCEPT ![p] = 1] /\ UNCHANGED <<epoch, doomed>>
    BY <1>1, NoName DEF Call
  <2> QED BY <1>0, <2>1, <2>2
          DEF CallsOK, OwnName, DoomedInPrune, PruneTurn, Goes, OthersKept, Pcs
<1>2. CASE CheckLease(p)
  <2>1. Phase(p) = "lease" /\ UNCHANGED <<epoch, doomed>>
        /\ (End(p) \/ \E s \in Pcs : Step(p, s))
    BY <1>2 DEF CheckLease, At, Recover, Pcs
  <2> QED BY <1>0, <2>1, Phases, MoveEnd, MoveStep
<1>3. CASE RemoveStale(p)
  <2>1. Phase(p) = "lease" /\ UNCHANGED <<epoch, doomed>> /\ \E s \in Pcs : Step(p, s)
    BY <1>3 DEF RemoveStale, At, Pcs
  <2> QED BY <1>0, <2>1, Phases, MoveStep
<1>4. CASE OpenLease(p)
  <2>1. Phase(p) = "lease" /\ UNCHANGED <<epoch, doomed>>
        /\ (End(p) \/ \E s \in Pcs : Step(p, s))
    BY <1>4 DEF OpenLease, Pcs
  <2> QED BY <1>0, <2>1, Phases, MoveEnd, MoveStep
<1>5. CASE PruneScan(p)
  <2>1. Phase(p) = "prune" /\ epoch' = epoch /\ \E s \in Pcs : Step(p, s)
    BY <1>5 DEF PruneScan, At, Pcs
  <2>2. \E D \in SUBSET Name : doomed' = [doomed EXCEPT ![p] = D]
    BY <1>5 DEF PruneScan
  <2> QED BY <1>0, <2>1, <2>2, Phases, MoveStep
<1>6. CASE PruneRemove(p)
  <2>1. Phase(p) = "prune" /\ NextPhase(p) /\ epoch' = epoch
        /\ doomed' = [doomed EXCEPT ![p] = {}]
    BY <1>6 DEF PruneRemove, At
  <2>2. entry[p] # None /\ at[p] = PruneTurn(p)
    BY <2>1, Phases
  <2>3. at[p] \notin {LeaseTurn(p), 3} /\ at[p] < 7
    BY <1>0, <2>2
  <2> QED BY <1>0, <2>1, <2>2, <2>3, MoveNext DEF Goes
<1>7. CASE Setup(p) \/ Finish(p)
  <2>1. Phase(p) \in {"setup", "use"} /\ NextPhase(p) /\ UNCHANGED <<epoch, doomed>>
    BY <1>7 DEF Setup, Finish
  <2>2. entry[p] # None /\ at[p] \in {4, 5}
    BY <2>1, Phases
  <2>3. at[p] # PruneTurn(p) /\ at[p] \notin {LeaseTurn(p), 3} /\ at[p] < 7
    BY <1>0, <2>2
  <2> QED BY <1>0, <2>1, <2>2, <2>3, MoveNext DEF Goes
<1>8. CASE CheckDirty(p) \/ RemoveWorktree(p)
  <2>1. Phase(p) = "clean" /\ UNCHANGED <<epoch, doomed>>
        /\ (End(p) \/ NextPhase(p) \/ \E s \in Pcs : Step(p, s))
    BY <1>8 DEF CheckDirty, RemoveWorktree, At, Pcs
  <2>2. entry[p] # None /\ at[p] = 6
    BY <2>1, Phases
  <2> QED BY <1>0, <2>1, <2>2, MoveNext, MoveEnd, MoveStep DEF Goes
<1>9. CASE Release(p)
  <2>1. Phase(p) = "release" /\ UNCHANGED <<epoch, doomed>> /\ End(p)
    BY <1>9 DEF Release
  <2> QED BY <1>0, <2>1, Phases, MoveEnd
<1>10. CASE CreateFails(p) \/ SetupFails(p)
  <2>1. /\ UNCHANGED <<epoch, doomed>>
        /\ \/ End(p)
           \/ GotoPhase(p, "release") /\ (Phase(p) = "create" => name[p] # p)
    BY <1>10 DEF CreateFails, SetupFails, FailSetup
  <2>2. Phase(p) \in {"create", "setup"}
    BY <1>10 DEF CreateFails, SetupFails
  <2>3. /\ entry[p] # None
        /\ Phase(p) = "create" => (at[p] = 2 /\ name[p] = p) \/ (at[p] = 3 /\ name[p] # p)
        /\ Phase(p) = "setup" => at[p] = 4
    BY <2>2, Phases
  <2>4. at[p] # PruneTurn(p)
    BY <2>2, <2>3 DEF PruneTurn
  <2>5. ASSUME GotoPhase(p, "release"), ~End(p) PROVE Holding(p)
    BY <2>5, <2>1, <2>2, <2>3 DEF Holding, LeaseTurn
  <2>6. CASE End(p)
    BY <1>0, <2>1, <2>4, <2>6, MoveEnd
  <2>7. CASE ~End(p)
    BY <1>0, <2>1, <2>4, <2>5, <2>7, MoveRelease
  <2> QED BY <2>6, <2>7
<1>11. CASE Edit(p)
  <2>1. UNCHANGED <<entry, name, at, pc, epoch, doomed>>
    BY <1>11 DEF Edit
  <2> QED BY <1>0, <2>1 DEF CallsOK, OwnName, DoomedInPrune, PruneTurn, Goes, OthersKept
<1>12. CASE Crash(p)
  <2>1. /\ End(p) /\ doomed' = [doomed EXCEPT ![p] = {}]
        /\ epoch' = [epoch EXCEPT ![p] = @ + 1]
    BY <1>12 DEF Crash
  <2>2. \A q \in Proc \ {p} : epoch'[q] = epoch[q]
    BY <2>1, Parts DEF WorldOK
  <2> QED BY <1>0, <2>1, <2>2, MoveEnd
<1> QED BY <1>1, <1>2, <1>3, <1>4, <1>5, <1>6, <1>7, <1>8, <1>9, <1>10, <1>11, <1>12
        DEF Ordinary

\* The worktree is there, or the lease is taken: the next phase begins.
LEMMA EnterGoes ==
    ASSUME WellFormed, NEW p \in Proc, Create(p) \/ WriteLease(p)
    PROVE  /\ CallsOK' /\ OthersKept(p) /\ UNCHANGED <<entry, name, epoch>>
           /\ entry[p] # None /\ name[p] \in Name
           /\ at'[p] = at[p] + 1 /\ pc'[p] # "remove"
           /\ Create(p) => at[p] = 2 \/ name[p] # p
           /\ WriteLease(p) => at[p] = LeaseTurn(p)
<1>0. CallsOK /\ at[p] \in 1 .. 7
  BY Parts DEF CallsOK
<1>1. Phase(p) \in {"create", "lease"} /\ NextPhase(p) /\ UNCHANGED <<epoch, doomed>>
      /\ (WriteLease(p) => Phase(p) = "lease") /\ (Create(p) => Phase(p) = "create")
  BY DEF Create, WriteLease, At
<1>2. /\ entry[p] # None /\ name[p] \in Name
      /\ Phase(p) = "create" => (at[p] = 2 /\ name[p] = p) \/ (at[p] = 3 /\ name[p] # p)
      /\ Phase(p) = "lease" => at[p] = LeaseTurn(p)
  BY <1>1, Phases
<1>3. at[p] # PruneTurn(p) /\ at[p] < 7
  BY <1>1, <1>2 DEF PruneTurn, LeaseTurn
<1>4. UNCHANGED <<entry, name>>
  BY <1>1 DEF NextPhase
<1> QED BY <1>0, <1>1, <1>2, <1>3, <1>4, MoveNext

-----------------------------------------------------------------------------
(* Types *)

\* The lock files that go, and those who relied on them.
LEMMA RemoveType ==
    ASSUME WorldOK, NEW ns, RemoveLeases(ns)
    PROVE  /\ lease' \in [Name -> {None} \cup [by : Pid, written : BOOLEAN]]
           /\ robbed' \subseteq Proc
BY DEF WorldOK, RemoveLeases

\* The lock file of a process is one.
LEMMA LockType ==
    ASSUME WorldOK, NEW p \in Proc
    PROVE  {Opened(p), Lock(p)} \subseteq [by : Pid, written : BOOLEAN]
BY DEF WorldOK, Opened, Lock, Self, Pid

\* Every step keeps the types of the world.
LEMMA WorldStep ==
    ASSUME WellFormed, NEW p \in Proc, Ordinary(p) \/ Create(p) \/ WriteLease(p)
    PROVE  WorldOK'
<1> USE DEF world, who
<1>0. WorldOK
  BY Parts DEF WorldOK
<1>1. CASE \/ \E e \in Entries, n \in Name : Call(p, e, n)
           \/ CheckLease(p) \/ PruneScan(p) \/ Setup(p) \/ Finish(p)
           \/ CreateFails(p) \/ SetupFails(p)
  <2>1. /\ UNCHANGED <<dir, dirty, lease, epoch, mixed, crashes, failures>>
        /\ robbed' \subseteq robbed
    BY <1>1 DEF Call, CheckLease, PruneScan, Setup, Finish, CreateFails, SetupFails, FailSetup
  <2> QED BY <1>0, <2>1 DEF WorldOK, EpochsCounted
<1>2. CASE RemoveStale(p) \/ PruneRemove(p)
  <2>1. /\ UNCHANGED <<dir, dirty, epoch, mixed, crashes>>
        /\ failures' \in 0 .. MaxFailures
        /\ UNCHANGED <<lease, robbed>> \/ \E ns : RemoveLeases(ns)
    BY <1>0, <1>2, WorktreeAssumption DEF RemoveStale, PruneRemove, Fail, WorldOK
  <2>2. /\ lease' \in [Name -> {None} \cup [by : Pid, written : BOOLEAN]]
        /\ robbed' \subseteq Proc
    BY <1>0, <2>1, RemoveType DEF WorldOK
  <2> QED BY <1>0, <2>1, <2>2 DEF WorldOK, EpochsCounted
<1>3. CASE OpenLease(p) \/ WriteLease(p)
  <2>1. /\ UNCHANGED <<dir, dirty, epoch, mixed, crashes, failures>> /\ robbed' \subseteq robbed \cup {p}
        /\ \/ UNCHANGED lease
           \/ \E l \in {Opened(p), Lock(p)} : lease' = [lease EXCEPT ![name[p]] = l]
    BY <1>3 DEF OpenLease, WriteLease
  <2>2. lease' \in [Name -> {None} \cup [by : Pid, written : BOOLEAN]]
    BY <1>0, <2>1, LockType DEF WorldOK
  <2> QED BY <1>0, <2>1, <2>2 DEF WorldOK, EpochsCounted
<1>4. CASE Create(p)
  <2>1. name[p] \in Name
    BY <1>4, EnterGoes
  <2> QED BY <1>0, <1>4, <2>1 DEF Create, WorldOK, EpochsCounted
<1>5. CASE Edit(p) \/ CheckDirty(p)
  <2>1. failures' \in 0 .. MaxFailures /\ UNCHANGED <<dir, lease, epoch, mixed, robbed, crashes>>
    BY <1>0, <1>5, WorktreeAssumption DEF Edit, CheckDirty, Fail, WorldOK
  <2>2. dirty' \in [Name -> BOOLEAN]
    BY <1>0, <1>5 DEF Edit, CheckDirty, WorldOK
  <2> QED BY <1>0, <2>1, <2>2 DEF WorldOK, EpochsCounted
<1>6. CASE RemoveWorktree(p)
  <2>1. UNCHANGED <<lease, epoch, robbed, crashes, failures>> /\ mixed' \subseteq mixed
    BY <1>6 DEF RemoveWorktree
  <2>2. dir' \in [Name -> BOOLEAN] /\ dirty' \in [Name -> BOOLEAN]
    BY <1>0, <1>6 DEF RemoveWorktree, WorldOK
  <2> QED BY <1>0, <2>1, <2>2 DEF WorldOK, EpochsCounted
<1>7. CASE Release(p)
  BY <1>0, <1>7 DEF Release, WorldOK, EpochsCounted
<1>8. CASE Crash(p)
  <2>1. /\ UNCHANGED <<dir, dirty, lease, mixed, robbed, failures>>
        /\ crashes < MaxCrashes /\ crashes' = crashes + 1
        /\ epoch' = [epoch EXCEPT ![p] = @ + 1]
    BY <1>8 DEF Crash
  <2>2. epoch' \in [Proc -> 0 .. MaxCrashes] /\ crashes' \in 0 .. MaxCrashes /\ EpochsCounted'
    BY <1>0, <2>1, WorktreeAssumption DEF WorldOK, EpochsCounted
  <2> QED BY <1>0, <2>1, <2>2 DEF WorldOK
<1> QED BY <1>1, <1>2, <1>3, <1>4, <1>5, <1>6, <1>7, <1>8 DEF Ordinary

\* The steps, as the proofs tell them apart.
LEMMA Steps ==
    ASSUME [Next]_vars
    PROVE  (\E p \in Proc : Ordinary(p) \/ Create(p) \/ WriteLease(p)) \/ UNCHANGED vars
BY DEF Next, Progress, Ordinary

\* Every step keeps calls and files well formed.
LEMMA WellFormedStep == ASSUME WellFormed, [Next]_vars PROVE WellFormed'
<1>1. ASSUME NEW p \in Proc, Ordinary(p) \/ Create(p) \/ WriteLease(p) PROVE WellFormed'
  <2>1. CallsOK'
    BY <1>1, OrdinaryGoes, EnterGoes
  <2>2. WorldOK'
    BY <1>1, WorldStep
  <2> QED BY <2>1, <2>2 DEF WellFormed, TypeOK, CallsOK, WorldOK, Pcs
<1>2. CASE UNCHANGED vars
  BY <1>2 DEF vars, world, who, WellFormed, TypeOK, OwnName, EpochsCounted, DoomedInPrune, PruneTurn
<1> QED BY <1>1, <1>2, Steps

\* They are at the start.
LEMMA WellFormedInit == Init => WellFormed
BY WorktreeAssumption, NoName
   DEF Init, WellFormed, TypeOK, OwnName, EpochsCounted, DoomedInPrune

-----------------------------------------------------------------------------
(* The lease *)

\* Whoever is past its lease and was not robbed is named by the lock file.
HeldIsLocked == \A p \in Proc : Holding(p) /\ p \notin robbed => lease[name[p]] = Lock(p)

LockInv == WellFormed /\ HeldIsLocked

\* Nobody comes to hold a worktree by moving on.
LEMMA GoesHolding ==
    ASSUME WellFormed, NEW p \in Proc, Goes(p), CallsOK', NEW q \in Proc, Holding(q)'
    PROVE  Holding(q) /\ name'[q] = name[q] /\ name[q] \in Name /\ Lock(q)' = Lock(q)
<1>1. at[p] \in 1 .. 7 /\ at'[p] \in 1 .. 7 /\ LeaseTurn(p) \in 1 .. 3 /\ LeaseTurn(p)' \in 1 .. 3
  BY Parts DEF CallsOK, LeaseTurn
<1>2. Holding(q) => name[q] \in Name
  BY Parts DEF CallsOK, OwnName, Holding, Name
<1>3. CASE q # p
  BY <1>2, <1>3 DEF Goes, OthersKept, Holding, LeaseTurn, Lock, Self
<1>4. CASE q = p
  <2>1. entry'[p] # None /\ at'[p] > LeaseTurn(p)'
    BY <1>4 DEF Holding
  <2>2. entry'[p] = entry[p] /\ name'[p] = name[p] /\ epoch'[p] = epoch[p]
    BY <1>1, <2>1 DEF Goes
  <2>3. LeaseTurn(p)' = LeaseTurn(p)
    BY <2>2 DEF LeaseTurn
  <2>4. at[p] > LeaseTurn(p)
    BY <1>1, <2>1, <2>2, <2>3 DEF Goes, Holding
  <2> QED BY <1>2, <1>4, <2>1, <2>2, <2>4 DEF Holding, Lock, Self
<1> QED BY <1>3, <1>4

\* Two processes have different lock files.
LEMMA LocksDiffer ==
    ASSUME NEW p \in Proc, NEW q \in Proc, p # q
    PROVE  Lock(p) # Lock(q) /\ Lock(q) # Opened(p)
BY DEF Lock, Opened, Self

\* Lock files are removed with a word to those who relied on them.
LEMMA RemoveKeeps ==
    ASSUME LockInv, NEW ns, RemoveLeases(ns), NEW q \in Proc, Holding(q), name[q] \in Name,
           q \notin robbed'
    PROVE  lease'[name[q]] = Lock(q)
BY DEF LockInv, HeldIsLocked, RemoveLeases, Lock

\* A step that moves on keeps the locks.
LEMMA OrdinaryLock ==
    ASSUME LockInv, NEW p \in Proc, Ordinary(p) PROVE HeldIsLocked'
<1>0. WellFormed /\ Goes(p) /\ CallsOK'
  BY OrdinaryGoes DEF LockInv
<1> SUFFICES ASSUME NEW q \in Proc, Holding(q)', q \notin robbed'
             PROVE  lease'[name'[q]] = Lock(q)'
  BY DEF HeldIsLocked
<1>1. Holding(q) /\ name'[q] = name[q] /\ name[q] \in Name /\ Lock(q)' = Lock(q)
  BY <1>0, GoesHolding
<1>2. q \notin robbed => lease[name[q]] = Lock(q)
  BY <1>1 DEF LockInv, HeldIsLocked
<1> USE DEF world, who
<1>3. CASE \E e \in Entries, n \in Name : Call(p, e, n)
  <2>1. UNCHANGED lease /\ robbed' = robbed \ {p} /\ entry[p] = None
    BY <1>3 DEF Call
  <2> QED BY <1>1, <1>2, <2>1 DEF Holding
<1>4. CASE RemoveStale(p) \/ PruneRemove(p)
  <2>1. UNCHANGED <<lease, robbed>> \/ \E ns : RemoveLeases(ns)
    BY <1>4 DEF RemoveStale, PruneRemove
  <2> QED BY <1>1, <1>2, <2>1, RemoveKeeps
<1>5. CASE OpenLease(p)
  <2>1. UNCHANGED robbed /\ (UNCHANGED lease \/ \E n \in {name[p]} : lease[n] = None /\ lease' = [lease EXCEPT ![n] = Opened(p)])
    BY <1>5 DEF OpenLease, CanOpen
  <2>2. Lock(q) # None
    BY <1>0, Parts, LockType, WorktreeAssumption DEF Pid
  <2> QED BY <1>0, <1>1, <1>2, <2>1, <2>2 DEF WellFormed, TypeOK
<1>6. CASE Release(p)
  <2>1. /\ lease' = [lease EXCEPT ![name[p]] = None]
        /\ robbed' = robbed \cup {r \in Proc \ {p} : lease[name[p]] = Lock(r) /\ name[r] = name[p]}
        /\ entry' = [entry EXCEPT ![p] = None]
    BY <1>6 DEF Release, End
  <2>2. q # p
    BY <1>0, <2>1 DEF Holding, WellFormed, TypeOK
  <2> QED BY <1>0, <1>1, <1>2, <2>1, <2>2 DEF WellFormed, TypeOK
<1>7. CASE \/ CheckLease(p) \/ PruneScan(p) \/ Setup(p) \/ Finish(p) \/ CheckDirty(p)
           \/ RemoveWorktree(p) \/ CreateFails(p) \/ SetupFails(p) \/ Edit(p) \/ Crash(p)
  <2>1. UNCHANGED <<lease, robbed>>
    BY <1>7 DEF CheckLease, PruneScan, Setup, Finish, CheckDirty, RemoveWorktree, CreateFails,
                SetupFails, FailSetup, Edit, Crash
  <2> QED BY <1>1, <1>2, <2>1
<1> QED BY <1>3, <1>4, <1>5, <1>6, <1>7 DEF Ordinary

\* The lock file is written for the process that created it.
LEMMA EnterLock ==
    ASSUME LockInv, NEW p \in Proc, Create(p) \/ WriteLease(p) PROVE HeldIsLocked'
<1>0. /\ WellFormed /\ CallsOK' /\ OthersKept(p) /\ UNCHANGED <<entry, name, epoch>>
      /\ entry[p] # None /\ name[p] \in Name /\ at'[p] = at[p] + 1
  BY EnterGoes DEF LockInv
<1> SUFFICES ASSUME NEW q \in Proc, Holding(q)', q \notin robbed'
             PROVE  lease'[name'[q]] = Lock(q)'
  BY DEF HeldIsLocked
<1>1. Lock(q)' = Lock(q) /\ name'[q] = name[q]
  BY <1>0 DEF Lock, Self
<1>2. Holding(q) /\ q \notin robbed => lease[name[q]] = Lock(q)
  BY DEF LockInv, HeldIsLocked
<1>3. Holding(q) => name[q] \in Name
  BY <1>0 DEF WellFormed, OwnName, Holding, Name
<1>4. q # p => Holding(q)
  BY <1>0 DEF OthersKept, Holding, LeaseTurn
<1>5. CASE WriteLease(p)
  <2>1. \/ lease[name[p]] = Opened(p) /\ lease' = [lease EXCEPT ![name[p]] = Lock(p)] /\ UNCHANGED robbed
        \/ robbed' = robbed \cup {p} /\ UNCHANGED lease
    BY <1>5 DEF WriteLease
  <2>2. CASE q = p
    BY <1>0, <1>1, <2>1, <2>2 DEF WellFormed, TypeOK
  <2>3. CASE q # p
    BY <1>0, <1>1, <1>2, <1>3, <1>4, <2>1, <2>3, LocksDiffer DEF WellFormed, TypeOK
  <2> QED BY <2>2, <2>3
<1>6. CASE Create(p)
  <2>1. UNCHANGED <<lease, robbed>> /\ Phase(p) = "create"
    BY <1>6 DEF Create
  <2>2. q = p => Holding(q)
    <3>1. (at[p] = 2 /\ name[p] = p) \/ (at[p] = 3 /\ name[p] # p)
      BY <1>0, <2>1, Phases
    <3> QED BY <1>0, <3>1 DEF Holding, LeaseTurn
  <2> QED BY <1>1, <1>2, <1>4, <2>1, <2>2
<1> QED BY <1>5, <1>6

\* Every step keeps the invariant of the locks.
LEMMA LockStep == ASSUME LockInv, [Next]_vars PROVE LockInv'
<1> SUFFICES HeldIsLocked'
  BY WellFormedStep DEF LockInv
<1>1. CASE \E p \in Proc : Ordinary(p) \/ Create(p) \/ WriteLease(p)
  BY <1>1, OrdinaryLock, EnterLock
<1>2. CASE UNCHANGED vars
  <2>1. UNCHANGED <<lease, epoch, entry, name, at, robbed>>
    BY <1>2 DEF vars, world, who
  <2> QED BY <2>1 DEF LockInv, HeldIsLocked, Holding, LeaseTurn, Lock, Self
<1> QED BY <1>1, <1>2, Steps

\* It holds at the start.
LEMMA LockInit == Init => LockInv
BY WellFormedInit DEF Init, LockInv, HeldIsLocked, Holding

\* A worktree has one owner at a time, as long as no lease is taken from one.
THEOREM OneOwnerHolds == Spec => []OneOwner
<1>1. LockInv => OneOwner
  <2> SUFFICES ASSUME LockInv PROVE SharedOnlyIfRobbed
    BY DEF OneOwner, LockInv, WellFormed
  <2> QED BY Phases, LocksDiffer DEF SharedOnlyIfRobbed, LockInv, HeldIsLocked
<1>2. LockInv /\ [Next]_vars => LockInv'
  BY LockStep
<1> QED BY <1>1, <1>2, LockInit, PTL DEF Spec

-----------------------------------------------------------------------------
(* Uncommitted work *)

\* Two processes inside a worktree are noted.
SharedIsMixed ==
    \A p, q \in Proc : p # q /\ In(p) /\ In(q) /\ name[p] = name[q] /\ dir[name[p]] =>
                        name[p] \in mixed

\* Changes are made in worktrees that exist.
DirtyExists == \A n \in Name : dirty[n] => dir[n]

\* p is about to remove its worktree.
Removing(p) == In(p) /\ at[p] = 6 /\ pc[p] = "remove"

\* It is clean, unless it was shared or git status failed.
RemovesClean ==
    \A p \in Proc : Removing(p) /\ failures = 0 /\ dir[name[p]] /\ dirty[name[p]] =>
                     name[p] \in mixed

WorkInv == WellFormed /\ SharedIsMixed /\ DirtyExists /\ RemovesClean

\* Nobody enters a worktree by moving on.
LEMMA GoesIn ==
    ASSUME WellFormed, NEW p \in Proc, Goes(p), CallsOK', NEW q \in Proc, In(q)'
    PROVE  /\ In(q) /\ name'[q] = name[q] /\ name[q] \in Name
           /\ q # p => at'[q] = at[q] /\ pc'[q] = pc[q]
<1>1. at[p] \in 1 .. 7 /\ LeaseTurn(p) \in 1 .. 3
  BY Parts DEF CallsOK, LeaseTurn
<1>2. In(q) => name[q] \in Name
  BY Parts DEF CallsOK, OwnName, In, Name
<1>3. CASE q # p
  BY <1>2, <1>3 DEF Goes, OthersKept, In
<1>4. CASE q = p
  BY <1>1, <1>2, <1>4 DEF Goes, In
<1> QED BY <1>3, <1>4

\* Steps that leave the worktrees alone and bring no one to a removal.
Calm(p) ==
    /\ UNCHANGED <<dir, dirty, mixed>> /\ failures <= failures'
    /\ Removing(p)' => Removing(p)

\* A step that touches no worktree keeps what is known of their sharing.
LEMMA CalmKeeps ==
    ASSUME WorkInv, NEW p \in Proc, Goes(p), CallsOK', Calm(p), failures' \in Nat
    PROVE  SharedIsMixed' /\ DirtyExists' /\ RemovesClean'
<1>0. WellFormed /\ failures \in Nat
  BY Parts DEF WorkInv, WorldOK
<1>1. SharedIsMixed'
  BY <1>0, GoesIn DEF WorkInv, SharedIsMixed, Calm
<1>2. DirtyExists'
  BY DEF WorkInv, DirtyExists, Calm
<1>3. RemovesClean'
  <2> SUFFICES ASSUME NEW q \in Proc, Removing(q)', failures' = 0,
                      dir'[name'[q]], dirty'[name'[q]]
               PROVE  name'[q] \in mixed'
    BY DEF RemovesClean
  <2>1. In(q)' /\ (q = p => Removing(q))
    BY DEF Removing, Calm
  <2>2. In(q) /\ name'[q] = name[q] /\ (q # p => at'[q] = at[q] /\ pc'[q] = pc[q])
    BY <1>0, <2>1, GoesIn
  <2>3. Removing(q)
    BY <2>1, <2>2 DEF Removing
  <2>4. failures = 0
    BY <1>0 DEF Calm
  <2> QED BY <2>2, <2>3, <2>4 DEF WorkInv, RemovesClean, Calm
<1> QED BY <1>1, <1>2, <1>3

\* Most steps are calm.
LEMMA OrdinaryCalm ==
    ASSUME WellFormed, NEW p \in Proc, Ordinary(p), Goes(p),
           ~Edit(p), ~CheckDirty(p), ~RemoveWorktree(p)
    PROVE  Calm(p)
<1> USE DEF world, who
<1>0. /\ failures \in Nat /\ at[p] \in 1 .. 7
      /\ LeaseTurn(p) \in 1 .. 3 /\ PruneTurn(p) \in 1 .. 2
  BY Parts DEF CallsOK, WorldOK, LeaseTurn, PruneTurn
<1>1. UNCHANGED <<dir, dirty, mixed>> /\ failures <= failures'
  BY <1>0
     DEF Ordinary, Call, CheckLease, RemoveStale, OpenLease, PruneScan, PruneRemove, Fail, Setup,
         Finish, Release, CreateFails, SetupFails, FailSetup, Crash
<1>2. ASSUME Removing(p)' PROVE FALSE
  <2>1. entry'[p] # None /\ at'[p] = 6 /\ at[p] = 6 /\ pc'[p] = "remove"
    BY <1>0, <1>2 DEF Removing, In, Goes
  <2>2. CASE Phase(p) \in {"lease", "prune"}
    BY <1>0, <2>1, <2>2, Phases
  <2>3. CASE \E e \in Entries, n \in Name : Call(p, e, n)
    BY <2>1, <2>3, Parts DEF Call, CallsOK
  <2>4. CASE Phase(p) \in {"setup", "use", "release", "create"}
    BY <2>1, <2>4, Phases
  <2>5. CASE Crash(p)
    BY <2>1, <2>5, Parts DEF Crash, End, CallsOK
  <2> QED BY <2>2, <2>3, <2>4, <2>5
          DEF Ordinary, CheckLease, RemoveStale, OpenLease, PruneScan, PruneRemove, At, Setup,
              Finish, Release, CreateFails, SetupFails
<1> QED BY <1>1, <1>2 DEF Calm

\* Somebody works in the worktree: whoever is about to remove it shares it.
LEMMA EditWork ==
    ASSUME WorkInv, NEW p \in Proc, Edit(p)
    PROVE  SharedIsMixed' /\ DirtyExists' /\ RemovesClean'
<1> USE DEF who
<1>0. /\ UNCHANGED <<dir, entry, name, at, pc, mixed, failures>> /\ dir[name[p]]
      /\ In(p) /\ at[p] = 5 /\ name[p] \in Name
      /\ \A n : n # name[p] => dirty'[n] = dirty[n]
  BY Phases DEF WorkInv, Edit, WellFormed, TypeOK
<1>1. SharedIsMixed'
  BY <1>0 DEF WorkInv, SharedIsMixed, In
<1>2. DirtyExists'
  BY <1>0 DEF WorkInv, DirtyExists
<1>3. RemovesClean'
  <2> SUFFICES ASSUME NEW q \in Proc, Removing(q), failures = 0, dir[name[q]], dirty'[name[q]]
               PROVE  name[q] \in mixed
    BY <1>0 DEF RemovesClean, Removing, In
  <2>1. CASE name[q] = name[p]
    BY <1>0, <2>1 DEF WorkInv, SharedIsMixed, Removing
  <2>2. CASE name[q] # name[p]
    BY <1>0, <2>2 DEF WorkInv, RemovesClean
  <2> QED BY <2>1, <2>2
<1> QED BY <1>1, <1>2, <1>3

\* git status is asked: the worktree is kept if it is dirty.
LEMMA CheckWork ==
    ASSUME WorkInv, NEW p \in Proc, CheckDirty(p), Goes(p), CallsOK'
    PROVE  SharedIsMixed' /\ DirtyExists' /\ RemovesClean'
<1> USE DEF world
<1>0. /\ UNCHANGED <<dir, dirty, mixed>> /\ WellFormed /\ failures \in Nat
      /\ failures' = failures \/ failures' = failures + 1
  BY Parts DEF WorkInv, CheckDirty, Fail, WorldOK
<1>1. SharedIsMixed'
  BY <1>0, GoesIn DEF WorkInv, SharedIsMixed
<1>2. DirtyExists'
  BY <1>0 DEF WorkInv, DirtyExists
<1>3. RemovesClean'
  <2> SUFFICES ASSUME NEW q \in Proc, Removing(q)', failures' = 0,
                      dir[name'[q]], dirty[name'[q]]
               PROVE  name'[q] \in mixed
    BY <1>0 DEF RemovesClean
  <2>1. failures = 0 /\ failures' = failures
    BY <1>0
  <2>2. In(q) /\ name'[q] = name[q] /\ (q # p => at'[q] = at[q] /\ pc'[q] = pc[q])
    BY <1>0, GoesIn DEF Removing
  <2>3. CASE q = p
    <3>1. LooksDirty(p)
      BY <2>2, <2>3 DEF LooksDirty
    <3>2. NextPhase(p) /\ at[p] = 6
      BY <1>0, <2>1, <3>1, Phases DEF CheckDirty, Fail, At
    <3> QED BY <1>0, <2>3, <3>2, Parts DEF NextPhase, CallsOK, Removing
  <2>4. CASE q # p
    BY <2>1, <2>2, <2>4 DEF WorkInv, RemovesClean, Removing
  <2> QED BY <2>3, <2>4
<1> QED BY <1>1, <1>2, <1>3

\* The worktree goes, with what it held.
LEMMA RemoveWork ==
    ASSUME WorkInv, NEW p \in Proc, RemoveWorktree(p), Goes(p), CallsOK'
    PROVE  SharedIsMixed' /\ DirtyExists' /\ RemovesClean'
<1>0. /\ WellFormed /\ name[p] \in Name /\ failures' = failures
      /\ \A n \in Name : n # name[p] => /\ dir'[n] = dir[n] /\ dirty'[n] = dirty[n]
                                        /\ n \in mixed' <=> n \in mixed
      /\ ~dir'[name[p]] /\ (dirty'[name[p]] => dirty[name[p]] /\ UNCHANGED dir)
  BY Phases DEF WorkInv, RemoveWorktree, At, WellFormed, TypeOK
<1>1. SharedIsMixed'
  BY <1>0, GoesIn DEF WorkInv, SharedIsMixed
<1>2. DirtyExists'
  BY <1>0 DEF WorkInv, DirtyExists
<1>3. RemovesClean'
  <2> SUFFICES ASSUME NEW q \in Proc, Removing(q)', failures = 0,
                      dir'[name'[q]], dirty'[name'[q]]
               PROVE  name'[q] \in mixed'
    BY <1>0 DEF RemovesClean
  <2>2. In(q) /\ name'[q] = name[q] /\ name[q] \in Name
        /\ (q # p => at'[q] = at[q] /\ pc'[q] = pc[q])
    BY <1>0, GoesIn DEF Removing
  <2>3. name[q] # name[p] /\ q # p
    BY <1>0, <2>2
  <2> QED BY <1>0, <2>2, <2>3 DEF WorkInv, RemovesClean, Removing
<1> QED BY <1>1, <1>2, <1>3

\* The worktree is created or found; whoever is inside is noted.
LEMMA EnterWork ==
    ASSUME WorkInv, NEW p \in Proc, Create(p) \/ WriteLease(p)
    PROVE  SharedIsMixed' /\ DirtyExists' /\ RemovesClean'
<1>0. /\ WellFormed /\ OthersKept(p) /\ UNCHANGED <<entry, name, epoch>>
      /\ entry[p] # None /\ name[p] \in Name
      /\ at'[p] = at[p] + 1 /\ pc'[p] # "remove"
      /\ WriteLease(p) => at[p] = LeaseTurn(p)
      /\ at[p] \in 1 .. 7
  BY EnterGoes, Parts DEF WorkInv, CallsOK
<1>1. /\ UNCHANGED <<dirty, failures>>
      /\ \A n \in Name : n # name[p] => dir'[n] = dir[n]
      /\ dir[name[p]] => dir'[name[p]]
      /\ mixed \subseteq mixed'
      /\ WriteLease(p) => UNCHANGED <<dir, mixed>>
      /\ Create(p) => Inside(name[p]) = {} \/ name[p] \in mixed'
  BY <1>0 DEF Create, WriteLease, WellFormed, TypeOK
<1>2. SharedIsMixed'
  <2> SUFFICES ASSUME NEW q \in Proc, NEW r \in Proc, q # r, In(q)', In(r)',
                      name[q] = name[r], dir'[name[q]], q = p \/ (q # p /\ r # p)
               PROVE  name[q] \in mixed'
    BY <1>0 DEF SharedIsMixed
  <2>1. \A s \in Proc : s # p /\ In(s)' => In(s) /\ name[s] \in Name
    BY <1>0 DEF OthersKept, In, WellFormed, OwnName, Name
  <2>2. CASE q = p
    <3>1. In(r) /\ r # p
      BY <2>1, <2>2
    <3>2. CASE Create(p)
      <4>1. r \in Inside(name[p])
        BY <1>0, <2>2, <3>1, Phases DEF Inside
      <4> QED BY <1>1, <2>2, <3>2, <4>1
    <3>3. CASE WriteLease(p) /\ at[p] >= 4
      BY <1>0, <3>3 DEF LeaseTurn
    <3>4. CASE WriteLease(p) /\ at[p] < 4
      <4>1. at[p] = 3 /\ name[p] = p
        BY <1>0, <2>2, <3>4 DEF In, LeaseTurn
      <4>2. entry[r] # None /\ name[r] = p
        BY <2>2, <3>1, <4>1 DEF In
      <4> QED BY <1>0, <3>1, <4>2, WorktreeAssumption DEF WellFormed, OwnName
    <3> QED BY <1>0, <3>2, <3>3, <3>4
  <2>3. CASE q # p /\ r # p
    <3>1. In(q) /\ In(r) /\ name[q] \in Name
      BY <2>1, <2>3
    <3>2. CASE name[q] # name[p] \/ ~Create(p)
      BY <1>1, <3>1, <3>2 DEF WorkInv, SharedIsMixed
    <3>3. CASE name[q] = name[p] /\ Create(p)
      <4>1. q \in Inside(name[p])
        BY <1>0, <3>1, <3>3, Phases DEF Inside
      <4> QED BY <1>1, <3>3, <4>1
    <3> QED BY <3>2, <3>3
  <2> QED BY <2>2, <2>3
<1>3. DirtyExists'
  BY <1>0, <1>1 DEF WorkInv, DirtyExists
<1>4. RemovesClean'
  <2> SUFFICES ASSUME NEW q \in Proc, Removing(q)', failures = 0,
                      dir'[name[q]], dirty[name[q]]
               PROVE  name[q] \in mixed'
    BY <1>0, <1>1 DEF RemovesClean
  <2>1. q # p
    BY <1>0 DEF Removing
  <2>2. Removing(q) /\ name[q] \in Name
    BY <1>0, <2>1 DEF OthersKept, Removing, In, WellFormed, OwnName, Name
  <2>3. dir[name[q]]
    BY <2>2 DEF WorkInv, DirtyExists
  <2> QED BY <1>1, <2>2, <2>3 DEF WorkInv, RemovesClean
<1> QED BY <1>2, <1>3, <1>4

\* Every step keeps the invariant of the worktrees.
LEMMA WorkStep == ASSUME WorkInv, [Next]_vars PROVE WorkInv'
<1>0. WellFormed /\ WellFormed'
  BY WellFormedStep DEF WorkInv
<1> SUFFICES SharedIsMixed' /\ DirtyExists' /\ RemovesClean'
  BY <1>0 DEF WorkInv
<1>1. ASSUME NEW p \in Proc, Ordinary(p) PROVE SharedIsMixed' /\ DirtyExists' /\ RemovesClean'
  <2>1. Goes(p) /\ CallsOK' /\ failures' \in Nat
    BY <1>0, <1>1, OrdinaryGoes DEF WellFormed, TypeOK
  <2> QED BY <1>0, <1>1, <2>1, OrdinaryCalm, CalmKeeps, EditWork, CheckWork, RemoveWork
<1>2. ASSUME NEW p \in Proc, Create(p) \/ WriteLease(p)
      PROVE  SharedIsMixed' /\ DirtyExists' /\ RemovesClean'
  BY <1>2, EnterWork
<1>3. CASE UNCHANGED vars
  BY <1>3 DEF vars, world, who, WorkInv, SharedIsMixed, DirtyExists, RemovesClean, Removing, In
<1> QED BY <1>1, <1>2, <1>3, Steps

\* It holds at the start.
LEMMA WorkInit == Init => WorkInv
BY WellFormedInit DEF Init, WorkInv, SharedIsMixed, DirtyExists, RemovesClean, Removing, In

\* Uncommitted changes go only with a worktree that processes shared, or when git
\* status failed.
THEOREM WorkKept == Spec => UncommittedWorkKept
<1>1. WorkInv /\ [Next]_vars => \A n \in Name : dir[n] /\ dirty[n] /\ ~dir'[n] =>
                                    n \in mixed \/ failures > 0
  <2> SUFFICES ASSUME WorkInv, [Next]_vars, NEW n \in Name, dir[n], dirty[n], ~dir'[n],
                      failures = 0
               PROVE  n \in mixed
    BY Parts DEF WorkInv, WorldOK
  <2> USE DEF world, who
  <2>1. ASSUME NEW p \in Proc, Ordinary(p) PROVE n \in mixed
    <3>1. WellFormed /\ Goes(p)
      BY <2>1, OrdinaryGoes DEF WorkInv
    <3>2. RemoveWorktree(p)
      BY <2>1, <3>1, OrdinaryCalm DEF Calm, Edit, CheckDirty
    <3>3. n = name[p] /\ Removing(p)
      BY <3>1, <3>2, Phases DEF RemoveWorktree, At, Removing, WellFormed, TypeOK
    <3> QED BY <3>3 DEF WorkInv, RemovesClean
  <2>2. ASSUME NEW p \in Proc, Create(p) \/ WriteLease(p) PROVE FALSE
    BY <2>2 DEF Create, WriteLease, WorkInv, WellFormed, TypeOK
  <2>3. CASE UNCHANGED vars
    BY <2>3 DEF vars
  <2> QED BY <2>1, <2>2, <2>3, Steps
<1>2. WorkInv /\ [Next]_vars => WorkInv'
  BY WorkStep
<1> QED BY <1>1, <1>2, WorkInit, PTL DEF Spec, UncommittedWorkKept

=============================================================================
