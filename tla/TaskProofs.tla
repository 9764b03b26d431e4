------------------------------ MODULE TaskProofs ------------------------------
(***************************************************************************)
(* Proofs about TaskBranch and TaskBoard: what is written about a task is  *)
(* backed by what happened; a clean-up deletes no branch that has          *)
(* something of its own, is checked out or belongs to the user; the        *)
(* commands that mend a task's record do so; and no command undoes what    *)
(* another has recorded since it last read the task.                       *)
(*                                                                         *)
(* TaskBranch.  A transaction that adopts a merge exists only with its     *)
(* commits in a target, which never shrinks (Sourced); while an            *)
(* application of notes runs, nobody else writes the fingerprints          *)
(* (Commenting), so that every comment on the task belongs to a            *)
(* fingerprint or to that application (Accounted); and a branch of the     *)
(* user exists from before every claim a clean-up has read (UsersKnown).   *)
(*                                                                         *)
(* TaskBoard.  A command that nobody wrote under finds the record it read: *)
(* its transition writes over the record it loaded (Undisturbed), so each  *)
(* repair leaves the rest of its plan in order (Repairing, EntryRepairs)   *)
(* and a resolution leaves no conflict (Resolving).  A command that        *)
(* somebody did write under still asks for what fits the record it         *)
(* decided from (Decided): a completion, or it read an open task; and the  *)
(* sync_state it read.  What its late writes can then change of the record *)
(* is what NextKeeps and SyncWriteMeta say.                                *)
(***************************************************************************)
EXTENDS TaskBranch, TaskBoard, WellFoundedInduction, TLAPS

-----------------------------------------------------------------------------
(* TaskBoard: the inductive invariant *)

Reasons == {"blocked", "needs_info", "failed", "sync_conflict", "wontfix", "done"}
SyncStates == {"synced", "push_pending", "conflict"}
FailureReasons == {"agent_failed", "merge_failed", "close_failed"}
MetaValues == HUB_TASK_STATUSES \cup Proc \cup Range(Stamp) \cup SyncStates \cup FailureReasons
                \cup {"yes", NoValue}

\* The metadata of a record.
Metas ==
    {m \in [MetaKey -> MetaValues] :
        /\ m["hubStatus"] \in HUB_TASK_STATUSES \cup {NoValue}
        /\ m["claim"] \in Proc \cup {NoValue}
        /\ m["sync_conflict"] \in HUB_TASK_STATUSES \cup {NoValue}
        /\ m["sync_state"] \in SyncStates \cup {NoValue}}

Lifecycles == {"open", "in_progress", "blocked", "closed"}
Records == [exists : BOOLEAN, life : Lifecycles, labels : Seq(HUB_TASK_STATUSES), meta : Metas]
Issues ==
    [open : BOOLEAN, labels : Seq(REMOTE_COLLABORATION_LABELS), at : Range(Stamp) \cup {NoValue}]
Requests ==
    [to : HUB_TASK_STATUSES, patch : Metas, fail : FailureReasons \cup {NoValue}, repl : BOOLEAN]

TransitionSteps == {"t_load", "t_update", "t_unset", "t_check"}
ReturnSteps ==
    {"implement", "select", "merge", "close", "push_board", "resolved", "repair", "labels"}
OtherSteps ==
    {"confirm", "claim", "pull_board", "refresh", "conflict", "push", "pushed", "list", "triage"}
Arguments ==
    {NoValue, "pull", "push", "sync", "local", "remote", "dirty", "clean", "one", "stale", "wontfix",
     "needs_info", "ready_for_agent", "synced", "push_pending"}
Commands == {"run", "sync", "resolve", "repair", "recover", "triage", "delete"}

\* What a process keeps of its command.
Ops ==
    [cmd : Commands \cup {NoValue},
     pc : TransitionSteps \cup ReturnSteps \cup OtherSteps \cup {"idle"},
     arg : Arguments, snap : Records, iss : Issues, tr : Requests, base : Records,
     ret : ReturnSteps \cup {"idle"},
     plan : Seq(HUB_TASK_STATUSES \X (Proc \cup {NoValue})), clean : BOOLEAN]

Stored ==
    /\ task \in Records
    /\ issue \in Issues /\ issue.at \in Range(Stamp)
    /\ ready \in Proc \cup {NoValue} /\ work \in BOOLEAN

BoardTypes == Stored /\ op \in [Proc -> Ops]

\* Where a command stands.
Placed(o) ==
    /\ o.pc = "idle" <=> o.cmd = NoValue
    /\ o.cmd = "resolve" => o.arg \in {"local", "remote"}
    /\ o.pc = "push" => ~isHubExecutionStatus(Status(o.snap))
    /\ o.pc = "pushed" => o.arg \in {"synced", "push_pending"}
    /\ o.pc \in TransitionSteps =>
         /\ o.cmd = "resolve" <=> o.ret = "resolved"
         /\ o.cmd = "repair" <=> o.ret = "repair"

\* Nothing but the merge-ready event is left to repair.
Settled(t) ==
    ~multipleStatusLabels(t) /\ ~terminalStaleExecutionMetadata(t) /\ ~staleHubStatusMetadata(t)

\* The plan has what there is to repair of the record t, and its entries fit t.
PlanFits(t, plan, dirty) ==
    /\ Settled(t) \/ plan # <<>>
    /\ stateInconsistent(t, dirty) =>
         plan # <<>> /\ plan[Len(plan)] = <<"waiting_for_merge", ready>>
    /\ \A i \in 1..Len(plan) :
         \/ plan[i] = <<Status(t), NoValue>>
         \/ i = Len(plan) /\ ready # NoValue /\ plan[i] = <<"waiting_for_merge", ready>>

\* The plan with the entry whose transition is under way.
Pending(o) == <<<<o.tr.to, o.tr.patch["claim"]>>>> \o o.plan

\* The transition of a command nobody wrote under has the record it loaded before it.
Undisturbed(o) ==
    /\ o.pc = "t_update" => o.base = task
    /\ o.pc = "t_unset" => task = UpdatedRecord(o.base, o.base, o.tr)
    /\ o.pc = "t_check" =>
         task.meta = NextMetadata(o.base.meta, o.tr) /\ task.labels = <<o.tr.to>>

Repairing(o) ==
    o.cmd = "repair" =>
      /\ o.pc = "repair" => PlanFits(task, o.plan, o.arg = "dirty")
      /\ o.pc \in TransitionSteps => o.tr.repl = (o.tr.patch["claim"] # NoValue)
      /\ o.pc = "t_load" => PlanFits(task, Pending(o), o.arg = "dirty")
      /\ o.pc \in TransitionSteps \ {"t_load"} => PlanFits(o.base, Pending(o), o.arg = "dirty")

Resolving(o) ==
    o.cmd = "resolve" =>
      /\ o.pc \in TransitionSteps => o.tr.patch["sync_state"] \in {"synced", "push_pending"}
      /\ o.pc = "resolved" /\ o.clean =>
           ~hasHubTaskSyncConflict(task) \/ Status(task) = "sync_conflict"

Mending(o) == (o.clean => Undisturbed(o) /\ Repairing(o)) /\ Resolving(o)

BoardInv == BoardTypes /\ \A p \in Proc : Placed(op[p]) /\ Mending(op[p])

-----------------------------------------------------------------------------
(* The operators of the record *)

LEMMA Keys ==
    /\ MetaKey = {"hubStatus", "claim", "sync_state", "remote_updated_at"} \cup Reasons
    /\ Range(METADATA_STATUS_RULES) = Reasons
<1>1. Range(METADATA_STATUS_RULES) = Reasons
  <2>1. DOMAIN METADATA_STATUS_RULES = 1..6
    BY DEF METADATA_STATUS_RULES
  <2>2. \A x \in Reasons : \E i \in 1..6 : METADATA_STATUS_RULES[i] = x
    BY DEF METADATA_STATUS_RULES, Reasons
  <2>3. \A i \in 1..6 : METADATA_STATUS_RULES[i] \in Reasons
    BY DEF METADATA_STATUS_RULES, Reasons
  <2>. QED
    BY <2>1, <2>2, <2>3 DEF Range
<1>. QED
  BY <1>1 DEF MetaKey

LEMMA MetaFacts ==
    ASSUME NEW m \in Metas
    PROVE  /\ m \in [MetaKey -> MetaValues]
           /\ m["hubStatus"] \in HUB_TASK_STATUSES \cup {NoValue}
           /\ m["claim"] \in Proc \cup {NoValue}
           /\ m["sync_conflict"] \in HUB_TASK_STATUSES \cup {NoValue}
           /\ m["sync_state"] \in SyncStates \cup {NoValue}
  BY DEF Metas

LEMMA NoMetaIsMeta == NoMeta \in Metas
  BY Keys DEF NoMeta, Metas, MetaValues, Reasons

\* What overrides metadata is metadata.
LEMMA OverIsMeta ==
    ASSUME NEW a \in Metas, NEW b \in Metas
    PROVE  Over(a, b) \in Metas
<1>1. /\ Over(a, b) \in [MetaKey -> MetaValues]
      /\ \A k \in MetaKey : Over(a, b)[k] \in {a[k], b[k]}
  BY MetaFacts DEF Over
<1>2. {"hubStatus", "claim", "sync_conflict", "sync_state"} \subseteq MetaKey
  BY Keys DEF Reasons
<1>3. /\ Over(a, b)["hubStatus"] \in HUB_TASK_STATUSES \cup {NoValue}
      /\ Over(a, b)["claim"] \in Proc \cup {NoValue}
      /\ Over(a, b)["sync_conflict"] \in HUB_TASK_STATUSES \cup {NoValue}
      /\ Over(a, b)["sync_state"] \in SyncStates \cup {NoValue}
  BY <1>1, <1>2, MetaFacts
<1>. QED
  BY <1>1, <1>3 DEF Metas

\* A value put under a key.
LEMMA PutIsMeta ==
    ASSUME NEW m \in Metas, NEW k \in MetaKey, NEW v \in MetaValues,
           k = "hubStatus" => v \in HUB_TASK_STATUSES \cup {NoValue},
           k = "claim" => v \in Proc \cup {NoValue},
           k = "sync_conflict" => v \in HUB_TASK_STATUSES \cup {NoValue},
           k = "sync_state" => v \in SyncStates \cup {NoValue}
    PROVE  [m EXCEPT ![k] = v] \in Metas
<1>1. [m EXCEPT ![k] = v] \in [MetaKey -> MetaValues]
  BY MetaFacts
<1>2. \A j \in MetaKey : [m EXCEPT ![k] = v][j] = IF j = k THEN v ELSE m[j]
  BY MetaFacts
<1>. DEFINE new == [m EXCEPT ![k] = v]
<1>3. {"hubStatus", "claim", "sync_conflict", "sync_state"} \subseteq MetaKey
  BY Keys DEF Reasons
<1>4. /\ new["hubStatus"] \in HUB_TASK_STATUSES \cup {NoValue}
      /\ new["claim"] \in Proc \cup {NoValue}
      /\ new["sync_conflict"] \in HUB_TASK_STATUSES \cup {NoValue}
      /\ new["sync_state"] \in SyncStates \cup {NoValue}
  BY <1>2, <1>3, MetaFacts
<1>5. new \in [MetaKey -> MetaValues]
  BY <1>1
<1>. HIDE DEF new
<1>6. new \in Metas
  BY <1>4, <1>5 DEF Metas
<1>. QED
  BY <1>6 DEF new

\* The metadata that a transition writes.
LEMMA NextMeta ==
    ASSUME NEW base \in Metas, NEW tr \in Requests
    PROVE  /\ NextMetadata(base, tr) \in Metas
           /\ NextMetadata(base, tr)["hubStatus"] = tr.to
           /\ NextMetadata(base, tr)["claim"] = resolveTransitionClaim(base["claim"], tr)
           /\ tr.patch["sync_state"] \in {"synced", "push_pending"} =>
                /\ NextMetadata(base, tr)["sync_state"] # "conflict"
                /\ tr.to # "sync_conflict" => NextMetadata(base, tr)["sync_conflict"] = NoValue
<1>. DEFINE merged == [Over(base, tr.patch) EXCEPT !["hubStatus"] = tr.to]
            cleared == clearStaleHubStatusMetadata(merged, tr.to)
            claim == resolveTransitionClaim(base["claim"], tr)
<1>1. tr.to \in HUB_TASK_STATUSES /\ tr.patch \in Metas /\ tr.fail \in FailureReasons \cup {NoValue}
  BY DEF Requests
<1>2. merged \in Metas
  <2>1. Over(base, tr.patch) \in Metas
    BY <1>1, OverIsMeta
  <2>. QED
    BY <1>1, <2>1, PutIsMeta, Keys DEF MetaValues
<1>3. cleared \in Metas
  <2>1. /\ cleared \in [MetaKey -> MetaValues]
        /\ \A k \in MetaKey : cleared[k] \in {merged[k], NoValue}
    BY <1>2, MetaFacts DEF clearStaleHubStatusMetadata, MetaValues
  <2>2. {"hubStatus", "claim", "sync_conflict", "sync_state"} \subseteq MetaKey
    BY Keys DEF Reasons
  <2>. HIDE DEF merged, cleared
  <2>3. /\ cleared["hubStatus"] \in HUB_TASK_STATUSES \cup {NoValue}
        /\ cleared["claim"] \in Proc \cup {NoValue}
        /\ cleared["sync_conflict"] \in HUB_TASK_STATUSES \cup {NoValue}
        /\ cleared["sync_state"] \in SyncStates \cup {NoValue}
    BY <1>2, <2>1, <2>2, MetaFacts
  <2>. QED
    BY <2>1, <2>3 DEF Metas
<1>4. claim \in Proc \cup {NoValue}
  BY <1>1, MetaFacts DEF resolveTransitionClaim
<1>5. [cleared EXCEPT !["claim"] = claim] \in Metas
  BY <1>3, <1>4, PutIsMeta, Keys DEF MetaValues
<1>6. NextMetadata(base, tr) = [[cleared EXCEPT !["claim"] = claim] EXCEPT !["failed"] = tr.fail]
  BY DEF NextMetadata
<1>7. NextMetadata(base, tr) \in Metas
  BY <1>1, <1>5, <1>6, PutIsMeta, Keys DEF MetaValues, Reasons
<1>8. NextMetadata(base, tr)["hubStatus"] = tr.to /\ NextMetadata(base, tr)["claim"] = claim
  <2>1. merged["hubStatus"] = tr.to
    BY <1>1, OverIsMeta, MetaFacts, Keys
  <2>2. cleared["hubStatus"] = tr.to
    BY <2>1, Keys DEF clearStaleHubStatusMetadata
  <2>. QED
    BY <1>3, <1>6, <2>2, MetaFacts, Keys
<1>9. ASSUME tr.patch["sync_state"] \in {"synced", "push_pending"}
      PROVE  /\ NextMetadata(base, tr)["sync_state"] # "conflict"
             /\ tr.to # "sync_conflict" => NextMetadata(base, tr)["sync_conflict"] = NoValue
  <2>1. merged["sync_state"] = tr.patch["sync_state"]
    <3>1. Over(base, tr.patch)["sync_state"] = tr.patch["sync_state"]
      BY <1>9, Keys DEF Over, NoValue
    <3>. QED
      BY <1>1, <3>1, OverIsMeta, MetaFacts, Keys
  <2>2. /\ cleared["sync_state"] = merged["sync_state"]
        /\ tr.to # "sync_conflict" => cleared["sync_conflict"] = NoValue
    BY <1>9, <2>1, Keys DEF clearStaleHubStatusMetadata, Reasons
  <2>3. /\ NextMetadata(base, tr)["sync_state"] = cleared["sync_state"]
        /\ NextMetadata(base, tr)["sync_conflict"] = cleared["sync_conflict"]
    BY <1>3, <1>6, MetaFacts, Keys DEF Reasons
  <2>. QED
    BY <1>9, <2>1, <2>2, <2>3
<1>. QED
  BY <1>7, <1>8, <1>9

\* What a transition writes, when the record it loaded is the one in the store: the metadata
\* it meant, after the keys that are gone are unset.
LEMMA Unsetting ==
    ASSUME NEW m \in Metas, NEW n \in Metas
    PROVE  [k \in MetaKey |-> IF k \in removedMetadataKeys(m, n) THEN NoValue ELSE Over(m, n)[k]] = n
<1>. DEFINE unset == [k \in MetaKey |->
                        IF k \in removedMetadataKeys(m, n) THEN NoValue ELSE Over(m, n)[k]]
<1>1. \A k \in MetaKey : unset[k] = n[k]
  BY DEF removedMetadataKeys, Over
<1>2. n \in [MetaKey -> MetaValues]
  BY MetaFacts
<1>. QED
  BY <1>1, <1>2

LEMMA NothingUnset ==
    ASSUME NEW m \in Metas, NEW n \in Metas, removedMetadataKeys(m, n) = {}
    PROVE  Over(m, n) = n
<1>1. \A k \in MetaKey : Over(m, n)[k] = n[k]
  BY DEF removedMetadataKeys, Over
<1>2. n \in [MetaKey -> MetaValues] /\ Over(m, n) \in [MetaKey -> MetaValues]
  BY MetaFacts, OverIsMeta
<1>. QED
  BY <1>1, <1>2

\* A set of natural numbers that is not empty has a least element.
LEMMA LeastNat ==
    ASSUME NEW T, T \subseteq Nat, T # {} PROVE \E x \in T : \A y \in T : x <= y
<1>1. OpToRel(<, Nat) = {ss \in Nat \X Nat : ss[1] < ss[2]}
  BY Zenon DEF OpToRel
<1>2. \E x \in T : \A y \in T : ~ (<<y, x>> \in OpToRel(<, Nat))
  BY NatLessThanWellFounded, WFMin
<1>3. ASSUME NEW x \in T, NEW y \in T, y < x
      PROVE  <<y, x>> \in {ss \in Nat \X Nat : ss[1] < ss[2]}
  <2>1. <<y, x>> \in Nat \X Nat
    OBVIOUS
  <2>2. <<y, x>>[1] < <<y, x>>[2]
    BY <1>3
  <2> QED BY <2>1, <2>2, Zenon
<1>4. \E x \in T : \A y \in T : ~ (y < x)
  BY <1>1, <1>2, <1>3, Zenon
<1> QED BY <1>4

LEMMA ReasonStatus ==
    ASSUME NEW m \in Metas
    PROVE  resolveStatusFromMetadataReasons(m) \in Reasons \cup {NoValue}
<1>. DEFINE present == {i \in DOMAIN METADATA_STATUS_RULES : m[METADATA_STATUS_RULES[i]] # NoValue}
<1>1. DOMAIN METADATA_STATUS_RULES = 1..6
  BY DEF METADATA_STATUS_RULES
<1>2. present \subseteq Nat
  BY <1>1
<1>3. present # {} => Min(present) \in present
  <2>. SUFFICES ASSUME present # {} PROVE Min(present) \in present
    OBVIOUS
  <2>1. \E x \in present : \A y \in present : x <= y
    BY <1>2, LeastNat
  <2>. QED
    BY <2>1 DEF Min
<1>4. \A i \in present : METADATA_STATUS_RULES[i] \in Reasons
  BY <1>1, Keys DEF Range
<1>. QED
  BY <1>3, <1>4 DEF resolveStatusFromMetadataReasons

\* The status of a record is a status.
LEMMA StatusType ==
    ASSUME NEW t \in Records
    PROVE  Status(t) \in HUB_TASK_STATUSES
<1>1. /\ t.meta \in Metas /\ t.meta["hubStatus"] \in HUB_TASK_STATUSES \cup {NoValue}
      /\ resolveStatusFromMetadataReasons(t.meta) \in Reasons \cup {NoValue}
  BY ReasonStatus, MetaFacts DEF Records
<1>2. resolveStatusFromLabels(t.labels) \in HUB_TASK_STATUSES \cup {NoValue}
  BY DEF Records, resolveStatusFromLabels
<1>3. Reasons \cup {"implementing", "inbox", "done", "blocked"} \subseteq HUB_TASK_STATUSES
  BY DEF Reasons, HUB_TASK_STATUSES
<1>4. NoValue \notin LABEL_AUTHORITATIVE_STATUSES
  BY DEF LABEL_AUTHORITATIVE_STATUSES, CLAIM_REQUIRED_STATUSES, NoValue
<1>5. ~isCompletedHubStatus(NoValue)
  BY DEF isCompletedHubStatus, NoValue
<1>6. CASE resolveStatusFromMetadataReasons(t.meta) # NoValue
  BY <1>1, <1>3, <1>5, <1>6 DEF Status, resolveStatusFromTaskShape
<1>7. CASE resolveStatusFromMetadataReasons(t.meta) = NoValue
  BY <1>1, <1>2, <1>3, <1>4, <1>7 DEF Status, resolveStatusFromTaskShape, NoValue
<1>. QED
  BY <1>6, <1>7

LEMMA UpdatedIsRecord ==
    ASSUME NEW t \in Records, NEW base \in Records, NEW tr \in Requests
    PROVE  /\ UpdatedRecord(t, base, tr) \in Records
           /\ UpdatedRecord(t, base, tr).labels = <<tr.to>>
           /\ UpdatedRecord(t, base, tr).meta = Over(t.meta, NextMetadata(base.meta, tr))
<1>1. HUB_STATUS_BEADS_LIFECYCLE(tr.to) \in Lifecycles
  BY DEF HUB_STATUS_BEADS_LIFECYCLE, Lifecycles
<1>2. <<tr.to>> \in Seq(HUB_TASK_STATUSES)
  BY DEF Requests
<1>3. Over(t.meta, NextMetadata(base.meta, tr)) \in Metas
  BY NextMeta, OverIsMeta DEF Records
<1>. QED
  BY <1>1, <1>2, <1>3 DEF UpdatedRecord, labelsToSetForHubStatus, Records

\* The recursion by which members are removed.
LEMMA WithoutRecursion ==
    ASSUME NEW S, NEW s \in Seq(S), NEW gone
    PROVE  \E kept :
             /\ Without(s, gone) = kept[Len(s)]
             /\ \A n \in 0..Len(s) :
                  kept[n] = IF n = 0 THEN <<>>
                            ELSE IF s[n] \in gone THEN kept[n - 1] ELSE Append(kept[n - 1], s[n])
<1>. DEFINE Value(k, n) ==
              IF n = 0 THEN <<>>
              ELSE IF s[n] \in gone THEN k[n - 1] ELSE Append(k[n - 1], s[n])
            Filters(k, m) == k = [n \in 0..m |-> Value(k, n)]
            kept == CHOOSE k : Filters(k, Len(s))
<1>1. Len(s) \in Nat /\ \A n \in 1..Len(s) : s[n] \in S
  OBVIOUS
<1>2. \A m \in Nat : \E k : Filters(k, m)
  <2>. DEFINE T == {m \in Nat : ~\E k : Filters(k, m)}
  <2>. SUFFICES ASSUME T # {} PROVE FALSE
    OBVIOUS
  <2>1. PICK m \in T : \A y \in T : m <= y
    BY LeastNat
  <2>2. m # 0
    <3>1. Filters([n \in 0..0 |-> <<>>], 0)
      OBVIOUS
    <3>. QED
      BY <2>1, <3>1
  <2>3. PICK j : Filters(j, m - 1)
    <3>1. m - 1 \in Nat /\ ~(m <= m - 1)
      BY <2>1, <2>2
    <3>. QED
      BY <2>1, <3>1
  <2>. DEFINE k == [n \in 0..m |-> IF n = m THEN Value(j, m) ELSE j[n]]
  <2>4. \A n \in 0..m : k[n] = Value(k, n)
    <3>1. ASSUME NEW n \in 0..m PROVE Value(k, n) = Value(j, n)
      <4>1. CASE n = 0
        BY <4>1
      <4>2. CASE n # 0
        <5>1. n - 1 \in 0..m /\ n - 1 # m
          BY <2>1, <4>2
        <5>2. k[n - 1] = j[n - 1]
          BY <5>1
        <5>. HIDE DEF k
        <5>. QED
          BY <4>2, <5>2
      <4>. QED
        BY <4>1, <4>2
    <3>2. ASSUME NEW n \in 0..m, n # m PROVE j[n] = Value(j, n)
      <4>1. n \in 0..(m - 1)
        BY <2>1, <3>2
      <4>. QED
        BY <2>3, <4>1
    <3>. QED
      BY <3>1, <3>2
  <2>5. Filters(k, m)
    BY <2>4
  <2>. QED
    BY <2>1, <2>5
<1>3. Filters(kept, Len(s))
  BY <1>1, <1>2
<1>4. \A n \in 0..Len(s) : kept[n] = Value(kept, n)
  BY <1>3
<1>5. Without(s, gone) = kept[Len(s)]
  BY DEF Without
<1>. QED
  BY <1>4, <1>5

\* Removing members leaves a sequence of the others, and the head if it is not removed.
LEMMA WithoutType ==
    ASSUME NEW S, NEW s \in Seq(S), NEW gone
    PROVE  /\ Without(s, gone) \in Seq(S)
           /\ s # <<>> /\ Head(s) \notin gone =>
                Without(s, gone) # <<>> /\ Head(Without(s, gone)) = Head(s)
<1>1. Len(s) \in Nat /\ \A n \in 1..Len(s) : s[n] \in S
  OBVIOUS
<1>2. PICK kept :
        /\ Without(s, gone) = kept[Len(s)]
        /\ \A n \in 0..Len(s) :
             kept[n] = IF n = 0 THEN <<>>
                       ELSE IF s[n] \in gone THEN kept[n - 1] ELSE Append(kept[n - 1], s[n])
  BY WithoutRecursion
<1>. DEFINE Good(n) ==
              /\ kept[n] \in Seq(S)
              /\ n # 0 /\ Head(s) \notin gone => kept[n] # <<>> /\ Head(kept[n]) = Head(s)
<1>3. \A n \in 0..Len(s) : Good(n)
  <2>. DEFINE T == {n \in 0..Len(s) : ~Good(n)}
  <2>. SUFFICES ASSUME T # {} PROVE FALSE
    OBVIOUS
  <2>1. T \subseteq Nat
    BY <1>1
  <2>2. PICK n \in T : \A y \in T : n <= y
    BY <2>1, LeastNat
  <2>3. n \in 0..Len(s) /\ ~Good(n)
    BY <2>2
  <2>4. kept[n] = IF n = 0 THEN <<>>
                  ELSE IF s[n] \in gone THEN kept[n - 1] ELSE Append(kept[n - 1], s[n])
    BY <1>2, <2>3
  <2>5. n # 0
    BY <2>3, <2>4
  <2>6. n - 1 \in 0..Len(s) /\ ~(n <= n - 1)
    BY <1>1, <2>3, <2>5
  <2>7. Good(n - 1)
    BY <2>2, <2>6
  <2>8. s[n] \in S
    BY <1>1, <2>3, <2>5
  <2>9. CASE n = 1
    <3>1. kept[n - 1] = <<>> /\ s[n] = Head(s)
      BY <1>1, <1>2, <2>3, <2>9
    <3>2. kept[n] = IF s[n] \in gone THEN <<>> ELSE <<s[n]>>
      BY <2>4, <2>5, <3>1
    <3>3. Head(s) \notin gone => kept[n] = <<s[n]>>
      BY <3>1, <3>2
    <3>4. kept[n] \in Seq(S)
      BY <2>8, <3>2
    <3>5. <<s[n]>> # <<>> /\ Head(<<s[n]>>) = s[n]
      OBVIOUS
    <3>6. Good(n)
      BY <3>1, <3>3, <3>4, <3>5
    <3>. QED
      BY <2>3, <3>6
  <2>10. CASE n # 1
    <3>1. /\ kept[n - 1] \in Seq(S)
          /\ Head(s) \notin gone => kept[n - 1] # <<>> /\ Head(kept[n - 1]) = Head(s)
      BY <1>1, <2>3, <2>5, <2>7, <2>10
    <3>2. /\ \A k \in Seq(S) : Append(k, s[n]) \in Seq(S)
          /\ \A k \in Seq(S) : k # <<>> => Append(k, s[n]) # <<>> /\ Head(Append(k, s[n])) = Head(k)
      BY <2>8
    <3>3. kept[n] \in {kept[n - 1], Append(kept[n - 1], s[n])}
      BY <2>4, <2>5
    <3>4. kept[n] \in Seq(S)
      BY <3>1, <3>2, <3>3
    <3>5. Head(s) \notin gone => kept[n] # <<>> /\ Head(kept[n]) = Head(s)
      BY <3>1, <3>2, <3>3
    <3>6. Good(n)
      BY <3>4, <3>5
    <3>. QED
      BY <2>3, <3>6
  <2>. QED
    BY <2>9, <2>10
<1>4. s # <<>> => Len(s) # 0
  OBVIOUS
<1>5. Len(s) \in 0..Len(s)
  BY <1>1
<1>. QED
  BY <1>2, <1>3, <1>4, <1>5

-----------------------------------------------------------------------------
(* What the commands write *)

LEMMA RequestType ==
    ASSUME NEW to \in HUB_TASK_STATUSES, NEW patch \in Metas
    PROVE  /\ Request(to, patch) \in Requests
           /\ \A why \in FailureReasons : Failure(patch, why) \in Requests
<1>1. "failed" \in HUB_TASK_STATUSES
  BY DEF HUB_TASK_STATUSES
<1>. QED
  BY <1>1 DEF Request, Failure, Requests

LEMMA PatchType ==
    ASSUME NEW at \in Range(Stamp) \cup {NoValue}, NEW state \in SyncStates \cup {NoValue}
    PROVE  Patch(at, state) \in Metas /\ Patch(at, state)["sync_state"] = state
<1>1. at \in MetaValues /\ state \in MetaValues
  BY DEF MetaValues
<1>2. "remote_updated_at" \in MetaKey /\ "sync_state" \in MetaKey
  BY Keys
<1>3. [NoMeta EXCEPT !["remote_updated_at"] = at] \in Metas
  BY <1>1, <1>2, NoMetaIsMeta, PutIsMeta
<1>4. [[NoMeta EXCEPT !["remote_updated_at"] = at] EXCEPT !["sync_state"] = state] \in Metas
  BY <1>1, <1>2, <1>3, PutIsMeta
<1>. QED
  BY <1>2, <1>4 DEF Patch, NoMeta

LEMMA RemoteStatusType ==
    ASSUME NEW i \in Issues
    PROVE  resolveRemoteCollaborationStatus(i) \in HUB_TASK_STATUSES
<1>1. REMOTE_COLLABORATION_LABELS \subseteq HUB_TASK_STATUSES
  BY DEF REMOTE_COLLABORATION_LABELS, HUB_TASK_STATUSES
<1>2. {"wontfix", "done", "inbox"} \subseteq HUB_TASK_STATUSES
  BY DEF HUB_TASK_STATUSES
<1>3. i.labels \in Seq(REMOTE_COLLABORATION_LABELS)
  BY DEF Issues
<1>4. i.labels # <<>> => Head(i.labels) \in REMOTE_COLLABORATION_LABELS
  BY <1>3
<1>. QED
  BY <1>1, <1>2, <1>4 DEF resolveRemoteCollaborationStatus

LEMMA ImportType ==
    ASSUME NEW i \in Issues
    PROVE  importGithubIssueToBeads(i) \in Records
<1>. DEFINE remote == resolveRemoteCollaborationStatus(i)
            meta == [Patch(i.at, "synced") EXCEPT !["hubStatus"] = remote]
<1>1. remote \in HUB_TASK_STATUSES
  BY RemoteStatusType
<1>2. Patch(i.at, "synced") \in Metas
  BY PatchType DEF Issues, SyncStates
<1>3. meta \in Metas
  BY <1>1, <1>2, PutIsMeta, Keys DEF MetaValues
<1>4. <<IF remote = "done" THEN "inbox" ELSE remote>> \in Seq(HUB_TASK_STATUSES)
  BY <1>1 DEF HUB_TASK_STATUSES
<1>. HIDE DEF meta
<1>5. importGithubIssueToBeads(i) =
        [exists |-> TRUE, life |-> "open",
         labels |-> <<IF remote = "done" THEN "inbox" ELSE remote>>, meta |-> meta]
  BY DEF importGithubIssueToBeads, meta
<1>. QED
  BY <1>3, <1>4, <1>5 DEF Records, Lifecycles

LEMMA SyncWriteType ==
    ASSUME NEW t \in Records, NEW snap \in Records, NEW patch \in Metas
    PROVE  setHubTaskSyncMetadata(t, snap, patch) \in Records
<1>1. Over(Over(t.meta, snap.meta), patch) \in Metas
  BY OverIsMeta DEF Records
<1>. QED
  BY <1>1 DEF setHubTaskSyncMetadata, Records

LEMMA PushTypes ==
    ASSUME BoardTypes, NEW snap \in Records, ~isHubExecutionStatus(Status(snap)), NEW listing \in Issues
    PROVE  LabelledIssue(snap, listing) \in Issues /\ PushedIssue(snap, listing) \in Issues
<1>. DEFINE local == Status(snap)
            labels == IF listing = NoIssue THEN snap.labels ELSE listing.labels
            clear == (Range(labels) \cap REMOTE_COLLABORATION_LABELS) \ {local}
            left == IF local = "wontfix" THEN issue.labels ELSE Without(issue.labels, clear)
            added == IF local \in Range(left) THEN left ELSE Append(left, local)
<1>1. local \in REMOTE_COLLABORATION_LABELS \cup {"done"}
  BY StatusType DEF HUB_TASK_STATUSES, REMOTE_COLLABORATION_LABELS, isHubExecutionStatus,
                    CLAIM_PRESERVING_STATUSES, CLAIM_REQUIRED_STATUSES
<1>2. issue \in Issues /\ issue.labels \in Seq(REMOTE_COLLABORATION_LABELS)
  BY DEF BoardTypes, Stored, Issues
<1>3. left \in Seq(REMOTE_COLLABORATION_LABELS)
  BY <1>2, WithoutType
<1>. HIDE DEF left
<1>4. local # "done" => added \in Seq(REMOTE_COLLABORATION_LABELS)
  BY <1>1, <1>3
<1>. HIDE DEF added
<1>5. LabelledIssue(snap, listing) \in {issue, [issue EXCEPT !.labels = added]}
      /\ (local = "done" => LabelledIssue(snap, listing) = issue)
  BY DEF LabelledIssue, added, left
<1>6. LabelledIssue(snap, listing) \in Issues
  BY <1>2, <1>4, <1>5 DEF Issues
<1>7. \A i \in Issues, b \in BOOLEAN : [i EXCEPT !.open = b] \in Issues
  BY DEF Issues
<1>8. LabelledIssue(snap, listing).open \in BOOLEAN
  BY <1>6 DEF Issues
<1>. HIDE DEF local
<1>. QED
  BY <1>6, <1>7, <1>8 DEF PushedIssue

LEMMA RestampType ==
    ASSUME BoardTypes, NEW new \in Issues, new.at = issue.at
    PROVE  Restamped(issue, new) \in Issues /\ Restamped(issue, new).at \in Range(Stamp)
<1>1. Len(Stamp) = 9 /\ DOMAIN Stamp = 1..9
  BY DEF Stamp
<1>2. issue.at \in Range(Stamp)
  BY DEF BoardTypes, Stored
<1>3. NextStamp(issue.at) \in Range(Stamp)
  <2>1. PICK n \in 1..9 : Stamp[n] = issue.at
    BY <1>1, <1>2 DEF Range
  <2>2. 1 + (n % 9) \in 1..9
    OBVIOUS
  <2>3. Stamp[1 + (n % 9)] \in Range(Stamp)
    BY <1>1, <2>2 DEF Range
  <2>4. \E next \in Range(Stamp) :
          \E m \in DOMAIN Stamp : Stamp[m] = issue.at /\ next = Stamp[1 + (m % Len(Stamp))]
    BY <1>1, <2>1, <2>3
  <2>. QED
    BY <2>4 DEF NextStamp
<1>. QED
  BY <1>2, <1>3 DEF Restamped, Issues

LEMMA RecoveryTypes ==
    ASSUME NEW t \in Records, NEW tr \in recoverHubTask(t)
    PROVE  tr \in Requests
<1>1. t.meta \in Metas /\ [t.meta EXCEPT !["claim"] = NoValue] \in Metas
  BY PutIsMeta, Keys DEF Records, MetaValues
<1>2. [t.meta EXCEPT !["done"] = "yes"] \in Metas
  BY PutIsMeta, Keys DEF Records, MetaValues, Reasons
<1>3. {"waiting_for_merge", "done", resolveFailedRecoveryTarget(t.meta), Status(t)}
        \subseteq HUB_TASK_STATUSES
  BY StatusType DEF HUB_TASK_STATUSES, resolveFailedRecoveryTarget
<1>4. tr \in {Request("waiting_for_merge", t.meta), Request("done", [t.meta EXCEPT !["done"] = "yes"]),
              Request(resolveFailedRecoveryTarget(t.meta), [t.meta EXCEPT !["claim"] = NoValue]),
              Request(Status(t), [t.meta EXCEPT !["claim"] = NoValue])}
  BY DEF recoverHubTask, recoverCloseFailedTask, recoverGenericFailedTask,
         recoverStaleExecutionStatus, releaseStaleClaim
<1>. QED
  BY <1>1, <1>2, <1>3, <1>4, RequestType

-----------------------------------------------------------------------------
(* Plans of repairs *)

\* A doctor's plan is in order.
LEMMA DoctorPlans ==
    ASSUME BoardTypes, NEW t \in Records, NEW dirty \in BOOLEAN
    PROVE  /\ doctorHubTaskState(t, dirty) \in Seq(HUB_TASK_STATUSES \X (Proc \cup {NoValue}))
           /\ PlanFits(t, doctorHubTaskState(t, dirty), dirty)
           /\ (doctorHubTaskState(t, dirty) = <<>>) <=> (Settled(t) /\ ~stateInconsistent(t, dirty))
<1>. DEFINE Entry == HUB_TASK_STATUSES \X (Proc \cup {NoValue})
            same == <<Status(t), NoValue>>
            last == <<"waiting_for_merge", ready>>
            a == RepairIf(multipleStatusLabels(t), Status(t), NoValue)
            b == RepairIf(terminalStaleExecutionMetadata(t), Status(t), NoValue)
            c == RepairIf(staleHubStatusMetadata(t), Status(t), NoValue)
            d == RepairIf(stateInconsistent(t, dirty), "waiting_for_merge", ready)
            Same(plan) == plan \in Seq(Entry) /\ \A i \in 1..Len(plan) : plan[i] = same
<1>1. same \in Entry /\ last \in Entry
  BY StatusType DEF BoardTypes, Stored, HUB_TASK_STATUSES
<1>2. /\ a = IF multipleStatusLabels(t) THEN <<same>> ELSE <<>>
      /\ b = IF terminalStaleExecutionMetadata(t) THEN <<same>> ELSE <<>>
      /\ c = IF staleHubStatusMetadata(t) THEN <<same>> ELSE <<>>
      /\ d = IF stateInconsistent(t, dirty) THEN <<last>> ELSE <<>>
  BY DEF RepairIf
<1>3. stateInconsistent(t, dirty) => ready # NoValue
  BY DEF stateInconsistent
<1>. HIDE DEF Entry, same, last, a, b, c, d
<1>4. \A plan \in Seq(Entry) : plan \o <<>> = plan
  OBVIOUS
<1>5. \A plan \in Seq(Entry) :
        /\ Same(plan) => Same(plan \o <<same>>)
        /\ plan \o <<same>> # <<>>
  BY <1>1
<1>6. Same(a) /\ ((a = <<>>) <=> ~multipleStatusLabels(t))
  BY <1>1, <1>2
<1>7. Same(a \o b) /\ ((a \o b = <<>>) <=> (a = <<>> /\ ~terminalStaleExecutionMetadata(t)))
  BY <1>2, <1>4, <1>5, <1>6
<1>8. /\ Same((a \o b) \o c)
      /\ ((a \o b) \o c = <<>>) <=> (a \o b = <<>> /\ ~staleHubStatusMetadata(t))
  BY <1>2, <1>4, <1>5, <1>7
<1>. DEFINE abc == (a \o b) \o c
<1>9. Same(abc) /\ ((abc = <<>>) <=> Settled(t))
  BY <1>6, <1>7, <1>8 DEF Settled
<1>. HIDE DEF abc
<1>10. doctorHubTaskState(t, dirty) = abc \o d
  BY DEF doctorHubTaskState, abc, a, b, c, d
<1>. USE DEF same, last
<1>11. CASE stateInconsistent(t, dirty)
  <2>1. abc \o d = Append(abc, last) /\ abc \o d \in Seq(Entry)
    BY <1>1, <1>2, <1>9, <1>11
  <2>2. /\ Len(abc \o d) = Len(abc) + 1 /\ (abc \o d)[Len(abc) + 1] = last
        /\ \A i \in 1..Len(abc) : (abc \o d)[i] = same
        /\ abc \o d # <<>>
    BY <1>1, <1>9, <2>1
  <2>. QED
    BY <1>3, <1>9, <1>10, <1>11, <2>1, <2>2 DEF PlanFits, Entry
<1>12. CASE ~stateInconsistent(t, dirty)
  <2>1. abc \o d = abc
    BY <1>2, <1>9, <1>12
  <2>. QED
    BY <1>9, <1>10, <1>12, <2>1 DEF PlanFits, Entry
<1>. QED
  BY <1>11, <1>12

\* The transition of an entry leaves the rest of the plan in order.
LEMMA EntryRepairs ==
    ASSUME BoardTypes, NEW t \in Records, NEW tr \in Requests, NEW dirty \in BOOLEAN,
           NEW plan \in Seq(HUB_TASK_STATUSES \X (Proc \cup {NoValue})),
           tr.repl = (tr.patch["claim"] # NoValue),
           PlanFits(t, <<<<tr.to, tr.patch["claim"]>>>> \o plan, dirty),
           NEW after \in Records,
           after.labels = <<tr.to>>, after.meta = NextMetadata(t.meta, tr), Status(after) = tr.to,
           tr.to \in CLAIM_REQUIRED_STATUSES => after.meta["claim"] # NoValue
    PROVE  PlanFits(after, plan, dirty)
<1>. DEFINE entry == <<tr.to, tr.patch["claim"]>>
            all == <<entry>> \o plan
            was == t.meta["claim"]
            claim == resolveTransitionClaim(was, tr)
<1>1. /\ after.meta["hubStatus"] = tr.to
      /\ after.meta["claim"] = claim
  BY NextMeta DEF Records
<1>2. Settled(after)
  <2>1. Len(after.labels) = 1
    OBVIOUS
  <2>2. isCompletedHubStatus(tr.to) => tr.to \notin CLAIM_PRESERVING_STATUSES
    BY DEF isCompletedHubStatus, CLAIM_PRESERVING_STATUSES, CLAIM_REQUIRED_STATUSES
  <2>. QED
    BY <1>1, <2>1, <2>2 DEF Settled, multipleStatusLabels, terminalStaleExecutionMetadata,
                            staleHubStatusMetadata, resolveTransitionClaim
<1>3. /\ Len(all) = Len(plan) + 1 /\ Len(plan) \in Nat /\ all[1] = entry
      /\ \A i \in 1..Len(plan) : all[i + 1] = plan[i]
  <2>1. entry \in HUB_TASK_STATUSES \X (Proc \cup {NoValue})
    BY MetaFacts DEF Requests
  <2>. HIDE DEF entry
  <2>. QED
    BY <2>1
<1>. HIDE DEF entry, all
<1>4. PlanFits(t, all, dirty)
  BY DEF all, entry
<1>5. ASSUME entry = <<Status(t), NoValue>>
      PROVE  PlanFits(after, plan, dirty)
  <2>1. tr.to = Status(t) /\ tr.patch["claim"] = NoValue
    BY <1>5 DEF entry
  <2>2. stateInconsistent(after, dirty) => stateInconsistent(t, dirty)
    <3>1. CASE tr.to = "waiting_for_merge"
      <4>1. tr.to \in CLAIM_REQUIRED_STATUSES /\ tr.to \in CLAIM_PRESERVING_STATUSES
        BY <3>1 DEF CLAIM_PRESERVING_STATUSES, CLAIM_REQUIRED_STATUSES
      <4>2. after.meta["claim"] = was
        BY <1>1, <2>1, <4>1 DEF resolveTransitionClaim
      <4>. QED
        BY <2>1, <4>2 DEF stateInconsistent, hasStaleClaimFields
    <3>2. CASE tr.to # "waiting_for_merge"
      BY <2>1, <3>2 DEF stateInconsistent
    <3>. QED
      BY <3>1, <3>2
  <2>3. stateInconsistent(after, dirty) =>
          plan # <<>> /\ plan[Len(plan)] = <<"waiting_for_merge", ready>>
    <3>. SUFFICES ASSUME stateInconsistent(after, dirty)
                  PROVE  plan # <<>> /\ plan[Len(plan)] = <<"waiting_for_merge", ready>>
      OBVIOUS
    <3>1. all[Len(all)] = <<"waiting_for_merge", ready>> /\ ready # NoValue
      BY <1>4, <2>2 DEF PlanFits, stateInconsistent
    <3>2. Len(all) # 1
      BY <1>3, <1>5, <3>1
    <3>3. Len(plan) \in 1..Len(plan) /\ Len(plan) + 1 = Len(all)
      BY <1>3, <3>2
    <3>4. plan # <<>>
      BY <3>3
    <3>. QED
      BY <1>3, <3>1, <3>3, <3>4
  <2>4. \A i \in 1..Len(plan) :
          \/ plan[i] = <<Status(after), NoValue>>
          \/ i = Len(plan) /\ ready # NoValue /\ plan[i] = <<"waiting_for_merge", ready>>
    <3>. SUFFICES ASSUME NEW i \in 1..Len(plan)
                  PROVE  \/ plan[i] = <<Status(after), NoValue>>
                         \/ /\ i = Len(plan) /\ ready # NoValue
                            /\ plan[i] = <<"waiting_for_merge", ready>>
      OBVIOUS
    <3>1. i + 1 \in 1..Len(all) /\ all[i + 1] = plan[i] /\ (i + 1 = Len(all) => i = Len(plan))
      BY <1>3
    <3>2. \/ all[i + 1] = <<Status(t), NoValue>>
          \/ /\ i + 1 = Len(all) /\ ready # NoValue
             /\ all[i + 1] = <<"waiting_for_merge", ready>>
      BY <1>4, <3>1 DEF PlanFits
    <3>. QED
      BY <2>1, <3>1, <3>2
  <2>. QED
    BY <1>2, <2>3, <2>4 DEF PlanFits
<1>6. ASSUME Len(all) = 1, ready # NoValue, entry = <<"waiting_for_merge", ready>>
      PROVE  PlanFits(after, plan, dirty)
  <2>1. tr.to = "waiting_for_merge" /\ tr.patch["claim"] = ready
    BY <1>6 DEF entry
  <2>2. tr.to \in CLAIM_PRESERVING_STATUSES
    BY <2>1 DEF CLAIM_PRESERVING_STATUSES, CLAIM_REQUIRED_STATUSES
  <2>3. after.meta["claim"] = ready
    BY <1>1, <1>6, <2>1, <2>2 DEF resolveTransitionClaim
  <2>4. ~stateInconsistent(after, dirty)
    BY <2>1, <2>3 DEF stateInconsistent, hasStaleClaimFields
  <2>5. Len(plan) = 0
    BY <1>3, <1>6
  <2>. QED
    BY <1>2, <2>4, <2>5 DEF PlanFits
<1>7. 1 \in 1..Len(all)
  BY <1>3
<1>8. \/ all[1] = <<Status(t), NoValue>>
      \/ 1 = Len(all) /\ ready # NoValue /\ all[1] = <<"waiting_for_merge", ready>>
  BY <1>4, <1>7 DEF PlanFits
<1>. QED
  BY <1>3, <1>5, <1>6, <1>8

-----------------------------------------------------------------------------
(* Steps of one process *)

\* The others keep what they had; they are no longer clean when a write was made.
OthersWait(p) ==
    /\ op' = [q \in Proc |-> op'[q]]
    /\ \A q \in Proc \ {p} :
         op'[q] = IF <<task, ready, work>>' # <<task, ready, work>> /\ op[q] # Idle
                  THEN [op[q] EXCEPT !.clean = FALSE] ELSE op[q]

LEMMA BecomesFacts ==
    ASSUME NEW p \in Proc, NEW o, Becomes(p, o)
    PROVE  op'[p] = o /\ OthersWait(p)
  BY DEF Becomes, OthersWait

LEMMA IdleType ==
    /\ Idle \in Ops /\ Placed(Idle) /\ NoTask \in Records /\ NoIssue \in Issues
    /\ NoRequest \in Requests /\ DeletedTask \in Records
<1>1. NoTask \in Records /\ DeletedTask \in Records
  <2>1. NoTask \in Records
    BY NoMetaIsMeta DEF NoTask, Records, Lifecycles
  <2>2. \A t \in Records : [t EXCEPT !.life = "closed"] \in Records
    BY DEF Records, Lifecycles
  <2>. QED
    BY <2>1, <2>2 DEF DeletedTask
<1>2. NoIssue \in Issues
  BY DEF NoIssue, Issues
<1>3. NoRequest \in Requests
  BY NoMetaIsMeta DEF NoRequest, Requests, HUB_TASK_STATUSES
<1>4. Idle \in Ops
  BY <1>1, <1>2, <1>3 DEF Idle, Ops, Arguments
<1>5. Placed(Idle)
  BY DEF Idle, Placed, TransitionSteps, NoValue
<1>. QED
  BY <1>1, <1>2, <1>3, <1>4, <1>5

LEMMA Unwritten ==
    ASSUME NEW q \in Proc, Mending(op[q]), op'[q] = op[q],
           task' = task, ready' = ready, work' = work
    PROVE  Mending(op[q])'
  BY DEF Mending, Undisturbed, Repairing, Resolving, PlanFits, stateInconsistent, hasStaleClaimFields

\* A step of p preserves the invariant when it does so for p.
LEMMA Moved ==
    ASSUME BoardInv, NEW p \in Proc, OthersWait(p), Stored',
           op'[p] \in Ops, Placed(op'[p]), Mending(op[p])'
    PROVE  BoardInv'
<1>1. ASSUME NEW q \in Proc, q # p
      PROVE  op'[q] \in Ops /\ Placed(op'[q]) /\ Mending(op[q])'
  <2>1. op[q] \in Ops /\ Placed(op[q]) /\ Mending(op[q])
    BY DEF BoardInv, BoardTypes
  <2>2. CASE op'[q] = [op[q] EXCEPT !.clean = FALSE]
    <3>1. op'[q] \in Ops
      BY <2>1, <2>2 DEF Ops
    <3>2. /\ op'[q].pc = op[q].pc /\ op'[q].cmd = op[q].cmd /\ op'[q].arg = op[q].arg
          /\ op'[q].snap = op[q].snap /\ op'[q].ret = op[q].ret /\ op'[q].tr = op[q].tr
          /\ op'[q].clean = FALSE
      BY <2>1, <2>2 DEF Ops
    <3>3. Placed(op'[q])
      BY <2>1, <3>2 DEF Placed
    <3>4. Mending(op[q])'
      BY <2>1, <3>2 DEF Mending, Resolving
    <3>. QED
      BY <3>1, <3>3, <3>4
  <2>3. CASE op[q] = Idle /\ op'[q] = op[q]
    <3>1. op'[q].pc = "idle" /\ op'[q].cmd = NoValue
      BY <2>3 DEF Idle
    <3>2. Mending(op[q])'
      BY <3>1 DEF Mending, Undisturbed, Repairing, Resolving, TransitionSteps, NoValue
    <3>. QED
      BY <2>1, <2>3, <3>2
  <2>4. CASE op'[q] = op[q] /\ task' = task /\ ready' = ready /\ work' = work
    BY <2>1, <2>4, Unwritten
  <2>. QED
    BY <1>1, <2>2, <2>3, <2>4 DEF OthersWait
<1>2. op' \in [Proc -> Ops]
  BY <1>1 DEF OthersWait
<1>. QED
  BY <1>1, <1>2 DEF BoardInv, BoardTypes

\* Steps at which the record matters to the process.
LEMMA QuietStep ==
    ASSUME BoardInv, NEW p \in Proc, OthersWait(p), Stored',
           op'[p] \in Ops, Placed(op'[p]), op'[p].pc \notin TransitionSteps,
           op'[p].cmd = "repair" => op'[p].pc # "repair",
           op'[p].cmd = "resolve" => op'[p].pc # "resolved"
    PROVE  BoardInv'
<1>1. Mending(op[p])'
  BY DEF Mending, Undisturbed, Repairing, Resolving, TransitionSteps
<1>. QED
  BY <1>1, Moved

LEMMA EndStep ==
    ASSUME BoardInv, NEW p \in Proc, End(p), Stored'
    PROVE  BoardInv'
<1>1. op'[p] = Idle /\ OthersWait(p)
  BY BecomesFacts DEF End
<1>2. Idle.pc = "idle" /\ Idle.cmd = NoValue
  BY DEF Idle
<1>. QED
  BY <1>1, <1>2, IdleType, QuietStep DEF TransitionSteps, NoValue

\* A transition is asked for by a command that is neither a repair nor a resolution.
LEMMA TransitStep ==
    ASSUME BoardInv, NEW p \in Proc, Stored', NEW o \in Ops, NEW tr \in Requests,
           NEW ret \in (ReturnSteps \ {"resolved", "repair"}) \cup {"idle"},
           o.cmd \notin {NoValue, "repair", "resolve"},
           Transit(p, o, tr, ret)
    PROVE  BoardInv'
<1>1. op'[p] = [o EXCEPT !.pc = "t_load", !.tr = tr, !.ret = ret] /\ OthersWait(p)
  BY BecomesFacts DEF Transit
<1>2. op'[p] \in Ops /\ op'[p].pc = "t_load" /\ op'[p].cmd = o.cmd /\ op'[p].ret = ret
  BY <1>1 DEF Ops, TransitionSteps
<1>3. Placed(op'[p])
  BY <1>2 DEF Placed, ReturnSteps
<1>4. Mending(op[p])'
  BY <1>2 DEF Mending, Undisturbed, Repairing, Resolving
<1>. QED
  BY <1>1, <1>2, <1>3, <1>4, Moved

-----------------------------------------------------------------------------
(* The transition *)

LEMMA OpType ==
    ASSUME BoardInv, NEW p \in Proc
    PROVE  /\ op[p] \in Ops /\ Placed(op[p]) /\ Mending(op[p])
           /\ op[p].snap \in Records /\ op[p].snap.meta \in Metas
           /\ op[p].base \in Records /\ op[p].base.meta \in Metas
           /\ op[p].tr \in Requests /\ op[p].iss \in Issues
           /\ task \in Records /\ task.meta \in Metas
           /\ Stored
  BY DEF BoardInv, BoardTypes, Stored, Ops, Records

LEMMA LoadKeeps ==
    ASSUME BoardInv, NEW p \in Proc, LoadForTransition(p)
    PROVE  BoardInv'
<1>1. Stored'
  BY DEF LoadForTransition, BoardInv, BoardTypes, Stored
<1>2. CASE End(p)
  BY <1>1, <1>2, EndStep
<1>3. CASE Becomes(p, [op[p] EXCEPT !.pc = "t_update", !.base = task])
  <2>1. op'[p] = [op[p] EXCEPT !.pc = "t_update", !.base = task] /\ OthersWait(p)
    BY <1>3, BecomesFacts
  <2>2. op[p].pc = "t_load" /\ task' = task /\ ready' = ready /\ work' = work
    BY DEF LoadForTransition
  <2>3. /\ op'[p] \in Ops /\ op'[p].pc = "t_update" /\ op'[p].base = task
        /\ op'[p].cmd = op[p].cmd /\ op'[p].ret = op[p].ret /\ op'[p].tr = op[p].tr
        /\ op'[p].arg = op[p].arg /\ op'[p].plan = op[p].plan /\ op'[p].clean = op[p].clean
    BY <2>1, OpType DEF Ops, TransitionSteps
  <2>4. Placed(op'[p])
    BY <2>2, <2>3, OpType DEF Placed, TransitionSteps
  <2>5. ASSUME op[p].clean, op[p].cmd = "repair"
        PROVE  /\ PlanFits(task, Pending(op[p]), op[p].arg = "dirty")
               /\ op[p].tr.repl = (op[p].tr.patch["claim"] # NoValue)
    BY <2>2, <2>5, OpType DEF Mending, Repairing, TransitionSteps
  <2>6. Mending(op[p])'
    <3>1. (op[p].clean => Undisturbed(op[p]))'
      BY <2>2, <2>3 DEF Undisturbed
    <3>2. Pending(op[p])' = Pending(op[p])
      BY <2>3 DEF Pending
    <3>3. (op[p].clean => Repairing(op[p]))'
      BY <2>2, <2>3, <2>5, <3>2
      DEF Repairing, TransitionSteps, PlanFits, stateInconsistent, hasStaleClaimFields
    <3>4. Resolving(op[p])'
      BY <2>2, <2>3, OpType DEF Mending, Resolving, TransitionSteps
    <3>. QED
      BY <3>1, <3>3, <3>4 DEF Mending
  <2>. QED
    BY <1>1, <2>1, <2>3, <2>4, <2>6, Moved
<1>. QED
  BY <1>2, <1>3 DEF LoadForTransition

LEMMA UpdateKeeps ==
    ASSUME BoardInv, NEW p \in Proc, UpdateRecord(p)
    PROVE  BoardInv'
<1>. DEFINE o == op[p]
            next == NextMetadata(o.base.meta, o.tr)
            gone == removedMetadataKeys(o.base.meta, next)
            step == IF gone = {} THEN "t_check" ELSE "t_unset"
<1>1. UpdatedRecord(task, o.base, o.tr) \in Records
  BY OpType, UpdatedIsRecord
<1>2. Stored'
  BY <1>1, OpType DEF UpdateRecord, Stored
<1>3. CASE ~task.exists
  <2>1. End(p)
    BY <1>3 DEF UpdateRecord
  <2>. QED
    BY <1>2, <2>1, EndStep
<1>4. CASE task.exists
  <2>1. /\ Becomes(p, [o EXCEPT !.pc = step])
        /\ task' = UpdatedRecord(task, o.base, o.tr) /\ ready' = ready /\ work' = work
        /\ o.pc = "t_update"
    BY <1>4 DEF UpdateRecord
  <2>2. op'[p] = [o EXCEPT !.pc = step] /\ OthersWait(p)
    BY <2>1, BecomesFacts
  <2>3. step \in {"t_check", "t_unset"}
    OBVIOUS
  <2>. HIDE DEF step
  <2>4. /\ op'[p] \in Ops /\ op'[p].pc = step /\ op'[p].base = o.base
        /\ op'[p].cmd = o.cmd /\ op'[p].ret = o.ret /\ op'[p].tr = o.tr
        /\ op'[p].arg = o.arg /\ op'[p].plan = o.plan /\ op'[p].clean = o.clean
    BY <2>2, <2>3, OpType DEF Ops, TransitionSteps
  <2>5. Placed(op'[p])
    BY <2>1, <2>3, <2>4, OpType DEF Placed, TransitionSteps
  <2>6. ASSUME o.clean
        PROVE  /\ task' = UpdatedRecord(o.base, o.base, o.tr)
               /\ step = "t_check" => task'.meta = next /\ task'.labels = <<o.tr.to>>
    <3>1. o.base = task
      BY <2>1, <2>6, OpType DEF Mending, Undisturbed
    <3>2. /\ task'.labels = <<o.tr.to>>
          /\ task'.meta = Over(o.base.meta, next)
      BY <2>1, <3>1, OpType, UpdatedIsRecord
    <3>3. step = "t_check" => gone = {}
      BY DEF step
    <3>4. next \in Metas
      BY OpType, NextMeta
    <3>5. gone = {} => Over(o.base.meta, next) = next
      BY <3>4, OpType, NothingUnset
    <3>. QED
      BY <2>1, <3>1, <3>2, <3>3, <3>5
  <2>7. Mending(op[p])'
    <3>1. (op[p].clean => Undisturbed(op[p]))'
      BY <2>3, <2>4, <2>6 DEF Undisturbed
    <3>2. (op[p].clean => Repairing(op[p]))'
      <4>1. Pending(op[p])' = Pending(op[p])
        BY <2>4 DEF Pending
      <4>2. ASSUME o.clean, o.cmd = "repair"
            PROVE  /\ PlanFits(o.base, Pending(o), o.arg = "dirty")
                   /\ o.tr.repl = (o.tr.patch["claim"] # NoValue)
        BY <2>1, <4>2, OpType DEF Mending, Repairing, TransitionSteps
      <4>. QED
        BY <2>1, <2>3, <2>4, <4>1, <4>2
        DEF Repairing, TransitionSteps, PlanFits, stateInconsistent, hasStaleClaimFields
    <3>3. Resolving(op[p])'
      BY <2>1, <2>3, <2>4, OpType DEF Mending, Resolving, TransitionSteps
    <3>. QED
      BY <3>1, <3>2, <3>3 DEF Mending
  <2>. QED
    BY <1>2, <2>2, <2>4, <2>5, <2>7, Moved
<1>. QED
  BY <1>3, <1>4

LEMMA UnsetKeeps ==
    ASSUME BoardInv, NEW p \in Proc, UnsetKeys(p)
    PROVE  BoardInv'
<1>. DEFINE o == op[p]
            next == NextMetadata(o.base.meta, o.tr)
            gone == removedMetadataKeys(o.base.meta, next)
            unset == [k \in MetaKey |-> IF k \in gone THEN NoValue ELSE task.meta[k]]
<1>1. unset \in Metas
  <2>1. /\ unset \in [MetaKey -> MetaValues]
        /\ \A k \in MetaKey : unset[k] \in {NoValue, task.meta[k]}
    BY OpType, MetaFacts DEF MetaValues
  <2>2. {"hubStatus", "claim", "sync_conflict", "sync_state"} \subseteq MetaKey
    BY Keys DEF Reasons
  <2>. HIDE DEF unset
  <2>3. /\ unset["hubStatus"] \in HUB_TASK_STATUSES \cup {NoValue}
        /\ unset["claim"] \in Proc \cup {NoValue}
        /\ unset["sync_conflict"] \in HUB_TASK_STATUSES \cup {NoValue}
        /\ unset["sync_state"] \in SyncStates \cup {NoValue}
    BY <2>1, <2>2, OpType, MetaFacts
  <2>. QED
    BY <2>1, <2>3 DEF Metas
<1>2. CASE ~task.exists
  <2>1. End(p) /\ Stored'
    BY <1>2, OpType DEF UnsetKeys, Stored
  <2>. QED
    BY <2>1, EndStep
<1>3. CASE task.exists
  <2>1. /\ Becomes(p, [o EXCEPT !.pc = "t_check"])
        /\ task' = [task EXCEPT !.meta = unset] /\ ready' = ready /\ work' = work
        /\ issue' = issue /\ o.pc = "t_unset"
    BY <1>3 DEF UnsetKeys
  <2>. HIDE DEF unset
  <2>2. task' \in Records /\ task'.meta = unset /\ task'.labels = task.labels
    BY <1>1, <2>1, OpType DEF Records
  <2>3. Stored'
    BY <2>1, <2>2, OpType DEF Stored
  <2>4. op'[p] = [o EXCEPT !.pc = "t_check"] /\ OthersWait(p)
    BY <2>1, BecomesFacts
  <2>5. /\ op'[p] \in Ops /\ op'[p].pc = "t_check" /\ op'[p].base = o.base
        /\ op'[p].cmd = o.cmd /\ op'[p].ret = o.ret /\ op'[p].tr = o.tr
        /\ op'[p].arg = o.arg /\ op'[p].plan = o.plan /\ op'[p].clean = o.clean
    BY <2>4, OpType DEF Ops, TransitionSteps
  <2>6. Placed(op'[p])
    BY <2>1, <2>5, OpType DEF Placed, TransitionSteps
  <2>7. ASSUME o.clean
        PROVE  task'.meta = next /\ task'.labels = <<o.tr.to>>
    <3>1. task = UpdatedRecord(o.base, o.base, o.tr)
      BY <2>1, <2>7, OpType DEF Mending, Undisturbed
    <3>2. task.labels = <<o.tr.to>> /\ task.meta = Over(o.base.meta, next)
      <4>1. o.base \in Records /\ o.tr \in Requests
        BY OpType
      <4>. HIDE DEF o
      <4>. QED
        BY <3>1, <4>1, UpdatedIsRecord
    <3>3. next \in Metas
      BY OpType, NextMeta
    <3>4. unset = next
      BY <3>2, <3>3, OpType, Unsetting DEF unset
    <3>. QED
      BY <2>2, <3>2, <3>4
  <2>8. Mending(op[p])'
    <3>1. (op[p].clean => Undisturbed(op[p]))'
      BY <2>5, <2>7 DEF Undisturbed
    <3>2. (op[p].clean => Repairing(op[p]))'
      <4>1. Pending(op[p])' = Pending(op[p])
        BY <2>5 DEF Pending
      <4>2. ASSUME o.clean, o.cmd = "repair"
            PROVE  /\ PlanFits(o.base, Pending(o), o.arg = "dirty")
                   /\ o.tr.repl = (o.tr.patch["claim"] # NoValue)
        BY <2>1, <4>2, OpType DEF Mending, Repairing, TransitionSteps
      <4>. QED
        BY <2>1, <2>5, <4>1, <4>2
        DEF Repairing, TransitionSteps, PlanFits, stateInconsistent, hasStaleClaimFields
    <3>3. Resolving(op[p])'
      BY <2>1, <2>5, OpType DEF Mending, Resolving, TransitionSteps
    <3>. QED
      BY <3>1, <3>2, <3>3 DEF Mending
  <2>. QED
    BY <2>3, <2>4, <2>5, <2>6, <2>8, Moved
<1>. QED
  BY <1>2, <1>3

\* A transition that is asserted on gives its command what it promised.
LEMMA CheckKeeps ==
    ASSUME BoardInv, NEW p \in Proc, CheckTransition(p)
    PROVE  BoardInv'
<1>. DEFINE o == op[p]
            done == [o EXCEPT !.pc = o.ret, !.snap = task, !.tr = NoRequest, !.base = NoTask,
                              !.ret = "idle"]
<1>1. /\ Stored' /\ task' = task /\ ready' = ready /\ work' = work /\ o.pc = "t_check"
  BY OpType DEF CheckTransition, Stored
<1>2. CASE End(p)
  BY <1>1, <1>2, EndStep
<1>3. CASE ~End(p)
  <2>1. /\ Becomes(p, done) /\ o.ret # "idle"
        /\ assertHubTaskTransition(task, o.tr.to)
    BY <1>3 DEF CheckTransition
  <2>2. op'[p] = done /\ OthersWait(p)
    BY <2>1, BecomesFacts
  <2>3. /\ op'[p] \in Ops /\ op'[p].pc = o.ret /\ op'[p].pc \in ReturnSteps
        /\ op'[p].cmd = o.cmd /\ op'[p].arg = o.arg /\ op'[p].plan = o.plan
        /\ op'[p].clean = o.clean
    <3>1. o.ret \in ReturnSteps
      BY <2>1, OpType DEF Ops
    <3>2. done \in Ops
      BY <3>1, OpType, IdleType DEF Ops
    <3>. QED
      BY <2>2, <3>1, <3>2, OpType DEF Ops
  <2>4. Placed(op'[p])
    BY <1>1, <2>3, OpType DEF Placed, ReturnSteps, TransitionSteps
  <2>5. ASSUME o.clean, o.cmd = "repair"
        PROVE  PlanFits(task, o.plan, o.arg = "dirty")
    <3>1. /\ o.tr.repl = (o.tr.patch["claim"] # NoValue)
          /\ PlanFits(o.base, <<<<o.tr.to, o.tr.patch["claim"]>>>> \o o.plan, o.arg = "dirty")
          /\ task.meta = NextMetadata(o.base.meta, o.tr) /\ task.labels = <<o.tr.to>>
      BY <1>1, <2>5, OpType DEF Mending, Undisturbed, Repairing, TransitionSteps, Pending
    <3>2. Status(task) = o.tr.to
          /\ (o.tr.to \in CLAIM_REQUIRED_STATUSES => task.meta["claim"] # NoValue)
      BY <2>1 DEF assertHubTaskTransition
    <3>3. o.plan \in Seq(HUB_TASK_STATUSES \X (Proc \cup {NoValue})) /\ BoardTypes
      BY OpType DEF Ops, BoardInv
    <3>. QED
      BY <3>1, <3>2, <3>3, OpType, EntryRepairs
  <2>6. ASSUME o.clean, o.cmd = "resolve"
        PROVE  ~hasHubTaskSyncConflict(task) \/ Status(task) = "sync_conflict"
    <3>1. /\ o.tr.patch["sync_state"] \in {"synced", "push_pending"}
          /\ task.meta = NextMetadata(o.base.meta, o.tr)
      BY <1>1, <2>6, OpType DEF Mending, Undisturbed, Resolving, TransitionSteps
    <3>2. Status(task) = o.tr.to
      BY <2>1 DEF assertHubTaskTransition
    <3>. QED
      BY <3>1, <3>2, OpType, NextMeta DEF hasHubTaskSyncConflict
  <2>7. Mending(op[p])'
    <3>1. (op[p].clean => Undisturbed(op[p]))'
      BY <2>3 DEF Undisturbed, ReturnSteps
    <3>2. (op[p].clean => Repairing(op[p]))'
      BY <1>1, <2>3, <2>5
      DEF Repairing, ReturnSteps, TransitionSteps, PlanFits, stateInconsistent, hasStaleClaimFields
    <3>3. Resolving(op[p])'
      BY <1>1, <2>3, <2>6 DEF Resolving, ReturnSteps, TransitionSteps
    <3>. QED
      BY <3>1, <3>2, <3>3 DEF Mending
  <2>. QED
    BY <1>1, <2>2, <2>3, <2>4, <2>7, Moved
<1>. QED
  BY <1>2, <1>3

-----------------------------------------------------------------------------
(* The commands *)

LEMMA StartStep ==
    ASSUME BoardInv, NEW p \in Proc, Stored', NEW cmd \in Commands, NEW o \in Ops,
           o.pc \in OtherSteps \ {"push", "pushed"},
           cmd = "resolve" => o.arg \in {"local", "remote"},
           Start(p, cmd, o)
    PROVE  BoardInv'
<1>1. op'[p] = [o EXCEPT !.cmd = cmd] /\ OthersWait(p)
  BY BecomesFacts DEF Start
<1>2. op'[p] \in Ops /\ op'[p].cmd = cmd /\ op'[p].pc = o.pc /\ op'[p].arg = o.arg
  BY <1>1 DEF Ops
<1>3. Placed(op'[p])
  BY <1>2 DEF Placed, OtherSteps, TransitionSteps, Commands, NoValue
<1>. QED
  BY <1>1, <1>2, <1>3, QuietStep DEF OtherSteps, TransitionSteps

LEMMA AskStep ==
    ASSUME BoardInv, NEW p \in Proc, NEW cmd \in Commands, NEW arg \in Arguments,
           cmd = "resolve" => arg \in {"local", "remote"},
           Ask(p, cmd, arg)
    PROVE  BoardInv'
<1>1. Stored'
  BY OpType DEF Ask, Stored
<1>. DEFINE o == [Idle EXCEPT !.pc = "confirm", !.arg = arg]
<1>2. o \in Ops /\ o.pc = "confirm" /\ o.arg = arg
  BY IdleType DEF Ops, OtherSteps
<1>. HIDE DEF o
<1>3. Start(p, cmd, o)
  BY DEF Ask, o
<1>. QED
  BY <1>1, <1>2, <1>3, StartStep DEF OtherSteps

\* The patches of the commands are metadata.
LEMMA PatchesType ==
    ASSUME NEW m \in Metas
    PROVE  /\ \A c \in Proc \cup {NoValue} : [m EXCEPT !["claim"] = c] \in Metas
           /\ \A k \in Reasons \ {"sync_conflict"}, v \in {"yes", NoValue} : [m EXCEPT ![k] = v] \in Metas
           /\ \A v \in HUB_TASK_STATUSES \cup {NoValue} : [m EXCEPT !["sync_conflict"] = v] \in Metas
<1>1. "claim" \in MetaKey /\ Reasons \subseteq MetaKey /\ "sync_conflict" \in Reasons
  BY Keys DEF Reasons
<1>2. ASSUME NEW c \in Proc \cup {NoValue} PROVE [m EXCEPT !["claim"] = c] \in Metas
  BY <1>1, PutIsMeta DEF MetaValues
<1>3. ASSUME NEW k \in Reasons \ {"sync_conflict"}, NEW v \in {"yes", NoValue}
      PROVE  [m EXCEPT ![k] = v] \in Metas
  BY <1>1, PutIsMeta DEF MetaValues, Reasons
<1>4. ASSUME NEW v \in HUB_TASK_STATUSES \cup {NoValue}
      PROVE  [m EXCEPT !["sync_conflict"] = v] \in Metas
  BY <1>1, PutIsMeta DEF MetaValues
<1>. QED
  BY <1>2, <1>3, <1>4

LEMMA RunKeeps ==
    ASSUME BoardInv, NEW p \in Proc, Run(p)
    PROVE  BoardInv'
<1>. USE OpType
<1>1. /\ op[p] \in Ops
      /\ {"implementing", "waiting_for_merge", "merging", "publishing", "blocked", "done", "failed"}
           \subseteq HUB_TASK_STATUSES
  BY DEF HUB_TASK_STATUSES
<1>2. CASE RunStart(p)
  <2>1. Stored'
    BY <1>2 DEF RunStart, Stored
  <2>2. [Idle EXCEPT !.pc = "claim"] \in Ops /\ [Idle EXCEPT !.pc = "claim"].pc = "claim"
    BY IdleType DEF Ops, OtherSteps
  <2>. QED
    BY <1>2, <2>1, <2>2, StartStep DEF RunStart, OtherSteps, Commands
<1>3. CASE claimHubTask(p)
  <2>1. Stored' /\ op[p].cmd = "run"
    BY <1>3 DEF claimHubTask, Stored, Running
  <2>2. CASE End(p)
    BY <2>1, <2>2, EndStep
  <2>3. CASE Transit(p, [op[p] EXCEPT !.snap = task],
               Request("implementing", [task.meta EXCEPT !["claim"] = p]), "implement")
    <3>1. [op[p] EXCEPT !.snap = task] \in Ops /\ [op[p] EXCEPT !.snap = task].cmd = "run"
      BY <2>1 DEF Ops
    <3>. QED
      BY <1>1, <2>1, <2>3, <3>1, PatchesType, RequestType, TransitStep DEF ReturnSteps, NoValue
  <2>. QED
    BY <1>3, <2>2, <2>3 DEF claimHubTask
<1>4. CASE recordImplementationSuccess(p)
  <2>1. Stored' /\ op[p].cmd = "run"
    BY <1>4 DEF recordImplementationSuccess, Stored, Running
  <2>2. Transit(p, op[p],
          Request("waiting_for_merge", [op[p].snap.meta EXCEPT !["claim"] = p]), "select")
    BY <1>4 DEF recordImplementationSuccess
  <2>. QED
    BY <1>1, <2>1, <2>2, PatchesType, RequestType, TransitStep DEF ReturnSteps, NoValue
<1>5. CASE recordImplementationFailure(p)
  <2>1. Stored' /\ op[p].cmd = "run"
    BY <1>5 DEF recordImplementationFailure, Stored, Running
  <2>2. Transit(p, op[p], Failure([op[p].snap.meta EXCEPT !["claim"] = p], "agent_failed"), "idle")
    BY <1>5 DEF recordImplementationFailure
  <2>. QED
    BY <1>1, <2>1, <2>2, PatchesType, RequestType, TransitStep DEF ReturnSteps, NoValue, FailureReasons
<1>6. CASE enterMergePhase(p)
  <2>1. Stored' /\ op[p].cmd = "run"
    BY <1>6 DEF enterMergePhase, Stored, Running
  <2>2. CASE End(p)
    BY <2>1, <2>2, EndStep
  <2>3. CASE Transit(p, [op[p] EXCEPT !.snap = task], Request("merging", task.meta), "merge")
    <3>1. [op[p] EXCEPT !.snap = task] \in Ops /\ [op[p] EXCEPT !.snap = task].cmd = "run"
      BY <2>1 DEF Ops
    <3>. QED
      BY <1>1, <2>1, <2>3, <3>1, RequestType, TransitStep DEF ReturnSteps, NoValue
  <2>. QED
    BY <1>6, <2>2, <2>3 DEF enterMergePhase
<1>7. CASE recordMergePhaseFailure(p)
  <2>1. Stored' /\ op[p].cmd = "run"
    BY <1>7 DEF recordMergePhaseFailure, Stored, Running
  <2>2. Transit(p, op[p], Failure(op[p].snap.meta, "merge_failed"), "idle")
    BY <1>7 DEF recordMergePhaseFailure
  <2>. QED
    BY <1>1, <2>1, <2>2, RequestType, TransitStep DEF ReturnSteps, NoValue, FailureReasons
<1>8. CASE recordRepairExhaustion(p)
  <2>1. Stored' /\ op[p].cmd = "run"
    BY <1>8 DEF recordRepairExhaustion, Stored, Running
  <2>2. Transit(p, op[p], Request("blocked", [op[p].snap.meta EXCEPT !["blocked"] = "yes"]), "idle")
    BY <1>8 DEF recordRepairExhaustion
  <2>3. [op[p].snap.meta EXCEPT !["blocked"] = "yes"] \in Metas
    BY PatchesType DEF Reasons
  <2>. QED
    BY <1>1, <2>1, <2>2, <2>3, RequestType, TransitStep DEF ReturnSteps, NoValue
<1>9. CASE revertTaskToWaitingForMerge(p)
  <2>1. Stored' /\ op[p].cmd = "run"
    BY <1>9 DEF revertTaskToWaitingForMerge, Stored, Running
  <2>2. Transit(p, op[p], Request("waiting_for_merge", op[p].snap.meta), "idle")
    BY <1>9 DEF revertTaskToWaitingForMerge
  <2>. QED
    BY <1>1, <2>1, <2>2, RequestType, TransitStep DEF ReturnSteps, NoValue
<1>10. CASE awaitRequiredPublicationBeforeClose(p)
  <2>1. Stored' /\ op[p].cmd = "run"
    BY <1>10 DEF awaitRequiredPublicationBeforeClose, Stored, Running
  <2>2. Transit(p, op[p], Request("publishing", op[p].snap.meta), "close")
    BY <1>10 DEF awaitRequiredPublicationBeforeClose
  <2>. QED
    BY <1>1, <2>1, <2>2, RequestType, TransitStep DEF ReturnSteps, NoValue
<1>11. CASE recordTaskClosure(p)
  <2>1. Stored' /\ op[p].cmd = "run"
    BY <1>11 DEF recordTaskClosure, Stored, Running
  <2>2. Transit(p, op[p], Request("done", [op[p].snap.meta EXCEPT !["done"] = "yes"]), "idle")
    BY <1>11 DEF recordTaskClosure
  <2>3. [op[p].snap.meta EXCEPT !["done"] = "yes"] \in Metas
    BY PatchesType DEF Reasons
  <2>. QED
    BY <1>1, <2>1, <2>2, <2>3, RequestType, TransitStep DEF ReturnSteps, NoValue
<1>12. CASE recordCloseFailure(p)
  <2>1. Stored' /\ op[p].cmd = "run"
    BY <1>12 DEF recordCloseFailure, Stored, Running
  <2>2. Transit(p, op[p], Failure(op[p].snap.meta, "close_failed"), "idle")
    BY <1>12 DEF recordCloseFailure
  <2>. QED
    BY <1>1, <2>1, <2>2, RequestType, TransitStep DEF ReturnSteps, NoValue, FailureReasons
<1>. QED
  BY <1>2, <1>3, <1>4, <1>5, <1>6, <1>7, <1>8, <1>9, <1>10, <1>11, <1>12 DEF Run

LEMMA AfterPullStep ==
    ASSUME BoardInv, NEW p \in Proc, Stored', op[p].cmd = "sync", AfterPull(p)
    PROVE  BoardInv'
<1>1. CASE End(p)
  BY <1>1, EndStep
<1>2. CASE Becomes(p, [op[p] EXCEPT !.pc = "push_board", !.snap = NoTask])
  <2>1. op'[p] = [op[p] EXCEPT !.pc = "push_board", !.snap = NoTask] /\ OthersWait(p)
    BY <1>2, BecomesFacts
  <2>2. op'[p] \in Ops /\ op'[p].pc = "push_board" /\ op'[p].cmd = "sync"
    BY <2>1, OpType, IdleType DEF Ops, ReturnSteps
  <2>3. Placed(op'[p])
    BY <2>2 DEF Placed, TransitionSteps, NoValue
  <2>. QED
    BY <2>1, <2>2, <2>3, QuietStep DEF TransitionSteps
<1>. QED
  BY <1>1, <1>2 DEF AfterPull

LEMMA PullKeeps ==
    ASSUME BoardInv, NEW p \in Proc, refreshLinkedGithubIssue(p)
    PROVE  BoardInv'
<1>. DEFINE snap == op[p].snap
            i == op[p].iss
<1>1. /\ op[p].cmd = "sync" /\ issue' = issue /\ ready' = ready /\ work' = work
  BY DEF refreshLinkedGithubIssue, Running
<1>2. ASSUME UNCHANGED task PROVE Stored'
  BY <1>1, <1>2, OpType DEF Stored
<1>3. ASSUME NEW state \in {"synced", NoValue},
             WriteFromPull(p, setHubTaskSyncMetadata(task, snap, Patch(i.at, state)))
      PROVE  BoardInv'
  <2>1. setHubTaskSyncMetadata(task, snap, Patch(i.at, state)) \in Records
    <3>1. i.at \in Range(Stamp) \cup {NoValue}
      BY OpType DEF Issues
    <3>2. Patch(i.at, state) \in Metas
      BY <3>1, PatchType DEF SyncStates
    <3>. QED
      BY <3>2, OpType, SyncWriteType
  <2>2. Stored'
    BY <1>1, <1>3, <2>1, OpType DEF WriteFromPull, Stored
  <2>. QED
    BY <1>1, <1>3, <2>2, EndStep, AfterPullStep DEF WriteFromPull
<1>4. CASE UNCHANGED task /\ AfterPull(p)
  BY <1>1, <1>2, <1>4, AfterPullStep
<1>5. CASE UNCHANGED task /\ Becomes(p, [op[p] EXCEPT !.pc = "conflict"])
  <2>1. op'[p] = [op[p] EXCEPT !.pc = "conflict"] /\ OthersWait(p)
    BY <1>5, BecomesFacts
  <2>2. op'[p] \in Ops /\ op'[p].pc = "conflict" /\ op'[p].cmd = "sync"
    BY <1>1, <2>1, OpType DEF Ops, OtherSteps
  <2>3. Placed(op'[p])
    BY <2>2 DEF Placed, TransitionSteps, NoValue
  <2>. QED
    BY <1>2, <1>5, <2>1, <2>2, <2>3, QuietStep DEF TransitionSteps
<1>6. \/ WriteFromPull(p, setHubTaskSyncMetadata(task, snap, Patch(i.at, NoValue)))
      \/ WriteFromPull(p, setHubTaskSyncMetadata(task, snap, Patch(i.at, "synced")))
      \/ UNCHANGED task /\ AfterPull(p)
      \/ UNCHANGED task /\ Becomes(p, [op[p] EXCEPT !.pc = "conflict"])
  BY DEF refreshLinkedGithubIssue
<1>. QED
  BY <1>3, <1>4, <1>5, <1>6

LEMMA PushKeeps ==
    ASSUME BoardInv, NEW p \in Proc, pushHubTaskToGithub(p)
    PROVE  BoardInv'
<1>. DEFINE snap == op[p].snap
<1>1. op[p].cmd = "sync" /\ op[p].pc = "push" /\ task' = task /\ ready' = ready /\ work' = work
  BY DEF pushHubTaskToGithub, Running
<1>2. PICK to \in {PushedIssue(snap, op[p].iss)} \X {"synced"}
                 \cup {issue, LabelledIssue(snap, op[p].iss)} \X {"push_pending"} :
        /\ issue' = Restamped(issue, to[1])
        /\ IF snap.meta["sync_state"] = to[2] THEN End(p)
           ELSE Becomes(p, [op[p] EXCEPT !.pc = "pushed", !.arg = to[2]])
  BY DEF pushHubTaskToGithub
<1>3. BoardTypes /\ issue \in Issues
  BY DEF BoardInv, BoardTypes, Stored
<1>4. ~isHubExecutionStatus(Status(snap))
  BY <1>1, OpType DEF Placed
<1>5. LabelledIssue(snap, op[p].iss) \in Issues /\ PushedIssue(snap, op[p].iss) \in Issues
  BY <1>3, <1>4, OpType, PushTypes
<1>6. to[1] \in Issues /\ to[2] \in {"synced", "push_pending"}
  BY <1>2, <1>3, <1>5
<1>7. to[1].at = issue.at
  <2>1. LabelledIssue(snap, op[p].iss).at = issue.at
    BY <1>3 DEF LabelledIssue, Issues
  <2>2. PushedIssue(snap, op[p].iss).at = issue.at
    BY <1>5, <2>1 DEF PushedIssue, Issues
  <2>. QED
    BY <1>2, <2>1, <2>2
<1>8. Stored'
  <2>1. issue' \in Issues /\ issue'.at \in Range(Stamp)
    BY <1>2, <1>3, <1>6, <1>7, RestampType
  <2>. QED
    BY <1>1, <2>1, OpType DEF Stored
<1>9. CASE End(p)
  BY <1>8, <1>9, EndStep
<1>10. CASE Becomes(p, [op[p] EXCEPT !.pc = "pushed", !.arg = to[2]])
  <2>1. op'[p] = [op[p] EXCEPT !.pc = "pushed", !.arg = to[2]] /\ OthersWait(p)
    BY <1>10, BecomesFacts
  <2>2. op'[p] \in Ops /\ op'[p].pc = "pushed" /\ op'[p].cmd = "sync" /\ op'[p].arg = to[2]
    <3>1. op[p] \in Ops /\ to[2] \in Arguments
      BY <1>6, OpType DEF Arguments
    <3>. QED
      BY <1>1, <2>1, <3>1 DEF Ops, OtherSteps
  <2>3. Placed(op'[p])
    BY <1>6, <2>2 DEF Placed, TransitionSteps, NoValue
  <2>. QED
    BY <1>8, <2>1, <2>2, <2>3, QuietStep DEF TransitionSteps
<1>. QED
  BY <1>2, <1>9, <1>10

LEMMA SyncKeeps ==
    ASSUME BoardInv, NEW p \in Proc, Sync(p)
    PROVE  BoardInv'
<1>1. CASE runHubTaskSyncCommand(p)
  BY <1>1, AskStep DEF runHubTaskSyncCommand, Commands, Arguments
<1>2. CASE syncHubTasksWithGithub(p)
  <2>. DEFINE step == IF op[p].arg = "push" THEN "push_board" ELSE "pull_board"
  <2>1. Stored' /\ op[p].cmd = "sync"
    BY <1>2, OpType DEF syncHubTasksWithGithub, Stored, Running
  <2>2. PICK closed \in {FALSE, ~issue.open} :
          Becomes(p, [op[p] EXCEPT !.pc = step, !.iss = listIssues(op[p].arg, closed)])
    BY <1>2 DEF syncHubTasksWithGithub
  <2>3. listIssues(op[p].arg, closed) \in Issues
    BY OpType, IdleType DEF listIssues, Stored
  <2>4. /\ op'[p] = [op[p] EXCEPT !.pc = step, !.iss = listIssues(op[p].arg, closed)]
        /\ OthersWait(p)
    BY <2>2, BecomesFacts
  <2>5. op'[p] \in Ops /\ op'[p].pc \in {"push_board", "pull_board"} /\ op'[p].cmd = "sync"
    BY <2>1, <2>3, <2>4, OpType DEF Ops, OtherSteps, ReturnSteps
  <2>6. Placed(op'[p])
    BY <2>5 DEF Placed, TransitionSteps, NoValue
  <2>. QED
    BY <2>1, <2>4, <2>5, <2>6, QuietStep DEF TransitionSteps
<1>3. CASE pullGithubIssues(p)
  <2>1. Stored' /\ op[p].cmd = "sync"
    BY <1>3, OpType DEF pullGithubIssues, Stored, Running
  <2>2. CASE AfterPull(p)
    BY <2>1, <2>2, AfterPullStep
  <2>3. CASE Becomes(p, [op[p] EXCEPT !.pc = "refresh", !.snap = task])
    <3>1. op'[p] = [op[p] EXCEPT !.pc = "refresh", !.snap = task] /\ OthersWait(p)
      BY <2>3, BecomesFacts
    <3>2. op'[p] \in Ops /\ op'[p].pc = "refresh" /\ op'[p].cmd = "sync"
      BY <2>1, <3>1, OpType DEF Ops, OtherSteps
    <3>3. Placed(op'[p])
      BY <3>2 DEF Placed, TransitionSteps, NoValue
    <3>. QED
      BY <2>1, <3>1, <3>2, <3>3, QuietStep DEF TransitionSteps
  <2>. QED
    BY <1>3, <2>2, <2>3 DEF pullGithubIssues
<1>4. CASE refreshLinkedGithubIssue(p)
  BY <1>4, PullKeeps
<1>5. CASE ImportIssue(p)
  <2>1. op[p].cmd = "sync" /\ AfterPull(p)
    BY <1>5 DEF ImportIssue, Running
  <2>2. Stored'
    BY <1>5, OpType, ImportType DEF ImportIssue, Stored
  <2>. QED
    BY <2>1, <2>2, AfterPullStep
<1>6. CASE recordHubTaskSyncConflict(p)
  <2>. DEFINE to == IF isCompletedHubStatus(Status(task)) THEN Status(task) ELSE "sync_conflict"
              patch == [Patch(NoValue, "conflict") EXCEPT !["sync_conflict"] = Status(op[p].snap)]
              ret == IF op[p].arg = "sync" THEN "push_board" ELSE "idle"
  <2>1. Stored' /\ op[p].cmd = "sync"
    BY <1>6, OpType DEF recordHubTaskSyncConflict, Stored, Running
  <2>2. CASE End(p)
    BY <2>1, <2>2, EndStep
  <2>3. CASE Transit(p, [op[p] EXCEPT !.snap = task], Request(to, patch), ret)
    <3>6. [op[p] EXCEPT !.snap = task] \in Ops /\ [op[p] EXCEPT !.snap = task].cmd = "sync"
      BY <2>1, OpType DEF Ops
    <3>1. to \in HUB_TASK_STATUSES
      BY OpType, StatusType DEF HUB_TASK_STATUSES
    <3>2. Status(op[p].snap) \in HUB_TASK_STATUSES
      BY OpType, StatusType
    <3>3. Patch(NoValue, "conflict") \in Metas
      BY PatchType DEF SyncStates
    <3>4. patch \in Metas
      BY <3>2, <3>3, PatchesType
    <3>5. ret \in (ReturnSteps \ {"resolved", "repair"}) \cup {"idle"}
      BY DEF ReturnSteps
    <3>. HIDE DEF to, patch, ret
    <3>. QED
      BY <2>1, <2>3, <3>1, <3>4, <3>5, <3>6, OpType, RequestType, TransitStep DEF NoValue
  <2>. QED
    BY <1>6, <2>2, <2>3 DEF recordHubTaskSyncConflict
<1>7. CASE pushHubTasks(p)
  <2>1. Stored' /\ op[p].cmd = "sync"
    BY <1>7, OpType DEF pushHubTasks, Stored, Running
  <2>2. CASE End(p)
    BY <2>1, <2>2, EndStep
  <2>3. CASE ~End(p)
    <3>1. ~isHubExecutionStatus(Status(task)) /\ Becomes(p, [op[p] EXCEPT !.pc = "push", !.snap = task])
      BY <1>7, <2>3 DEF pushHubTasks
    <3>2. op'[p] = [op[p] EXCEPT !.pc = "push", !.snap = task] /\ OthersWait(p)
      BY <3>1, BecomesFacts
    <3>3. op'[p] \in Ops /\ op'[p].pc = "push" /\ op'[p].cmd = "sync" /\ op'[p].snap = task
      BY <2>1, <3>2, OpType DEF Ops, OtherSteps
    <3>4. Placed(op'[p])
      BY <3>1, <3>3 DEF Placed, TransitionSteps, NoValue
    <3>. QED
      BY <2>1, <3>2, <3>3, <3>4, QuietStep DEF TransitionSteps
  <2>. QED
    BY <2>2, <2>3
<1>8. CASE pushHubTaskToGithub(p)
  BY <1>8, PushKeeps
<1>9. CASE updateHubTaskSyncState(p)
  <2>1. End(p) /\ op[p].pc = "pushed"
    BY <1>9 DEF updateHubTaskSyncState, Running
  <2>2. Patch(NoValue, op[p].arg) \in Metas
    BY <2>1, OpType, PatchType DEF Placed, SyncStates
  <2>3. setHubTaskSyncMetadata(task, op[p].snap, Patch(NoValue, op[p].arg)) \in Records
    BY <2>2, OpType, SyncWriteType
  <2>4. Stored'
    BY <1>9, <2>3, OpType DEF updateHubTaskSyncState, Stored
  <2>. QED
    BY <2>1, <2>4, EndStep
<1>. QED
  BY <1>1, <1>2, <1>3, <1>4, <1>5, <1>6, <1>7, <1>8, <1>9 DEF Sync

LEMMA ResolveKeeps ==
    ASSUME BoardInv, NEW p \in Proc, Resolve(p)
    PROVE  BoardInv'
<1>1. CASE tasksResolveCommand(p)
  <2>1. PICK keep \in {"local", "remote"} : Ask(p, "resolve", keep)
    BY <1>1 DEF tasksResolveCommand
  <2>. QED
    BY <2>1, AskStep DEF Commands, Arguments
<1>2. CASE resolveHubTaskSyncConflict(p)
  <2>1. Stored' /\ op[p].cmd = "resolve"
    BY <1>2, OpType DEF resolveHubTaskSyncConflict, Stored, Running
  <2>2. CASE End(p)
    BY <2>1, <2>2, EndStep
  <2>3. CASE Becomes(p, [op[p] EXCEPT !.pc = "list", !.snap = task, !.clean = TRUE])
    <3>1. op'[p] = [op[p] EXCEPT !.pc = "list", !.snap = task, !.clean = TRUE] /\ OthersWait(p)
      BY <2>3, BecomesFacts
    <3>2. /\ op'[p] \in Ops /\ op'[p].pc = "list" /\ op'[p].cmd = "resolve"
          /\ op'[p].arg = op[p].arg
      BY <2>1, <3>1, OpType DEF Ops, OtherSteps
    <3>3. Placed(op'[p])
      BY <2>1, <3>2, OpType DEF Placed, TransitionSteps, NoValue
    <3>. QED
      BY <2>1, <3>1, <3>2, <3>3, QuietStep DEF TransitionSteps
  <2>. QED
    BY <1>2, <2>2, <2>3 DEF resolveHubTaskSyncConflict
<1>3. CASE applyHubTaskConflictResolution(p)
  <2>. DEFINE values == buildConflictFieldValues(op[p].snap, issue)
              kept == resolveHubTaskConflict(op[p].arg, values)
              before == [task.meta EXCEPT !["sync_conflict"] = NoValue]
              patch == Over(before, Patch(issue.at, kept.sync))
  <2>1. Stored' /\ op[p].cmd = "resolve"
    BY <1>3, OpType DEF applyHubTaskConflictResolution, Stored, Running
  <2>2. CASE End(p)
    BY <2>1, <2>2, EndStep
  <2>3. CASE ~End(p)
    <3>1. /\ resolveLocalConflictHubStatus(op[p].snap) # NoValue
          /\ Transit(p, op[p], Request(kept.to, patch), "resolved")
      BY <1>3, <2>3 DEF applyHubTaskConflictResolution
    <3>2. op[p].arg \in {"local", "remote"}
      BY <2>1, OpType DEF Placed
    <3>3. kept.sync \in {"synced", "push_pending"}
      BY DEF resolveHubTaskConflict
    <3>4. kept.to \in HUB_TASK_STATUSES
      <4>1. resolveLocalConflictHubStatus(op[p].snap) \in HUB_TASK_STATUSES
        BY <3>1, OpType, StatusType, MetaFacts DEF resolveLocalConflictHubStatus
      <4>2. resolveRemoteCollaborationStatus(issue) \in HUB_TASK_STATUSES
        BY OpType, RemoteStatusType DEF Stored
      <4>3. kept.to = values[op[p].arg]
        BY DEF resolveHubTaskConflict
      <4>. QED
        BY <3>2, <4>1, <4>2, <4>3 DEF buildConflictFieldValues
    <3>. HIDE DEF kept
    <3>5. Patch(issue.at, kept.sync) \in Metas /\ Patch(issue.at, kept.sync)["sync_state"] = kept.sync
      BY <3>3, OpType, PatchType DEF Stored, SyncStates
    <3>6. before \in Metas
      BY OpType, PatchesType
    <3>. HIDE DEF before
    <3>7. patch \in Metas
      BY <3>5, <3>6, OverIsMeta
    <3>8. patch["sync_state"] = kept.sync
      BY <3>3, <3>5, Keys DEF Over, NoValue
    <3>. HIDE DEF patch
    <3>. DEFINE tr == Request(kept.to, patch)
    <3>9. tr \in Requests /\ tr.patch = patch
      BY <3>4, <3>7, RequestType DEF Request
    <3>. HIDE DEF tr
    <3>10. op'[p] = [op[p] EXCEPT !.pc = "t_load", !.tr = tr, !.ret = "resolved"] /\ OthersWait(p)
      BY <3>1, BecomesFacts DEF Transit, tr
    <3>11. /\ op'[p] \in Ops /\ op'[p].pc = "t_load" /\ op'[p].cmd = "resolve"
           /\ op'[p].arg = op[p].arg /\ op'[p].ret = "resolved" /\ op'[p].tr = tr
      BY <2>1, <3>9, <3>10, OpType DEF Ops, TransitionSteps, ReturnSteps
    <3>12. Placed(op'[p])
      BY <3>2, <3>11 DEF Placed, NoValue
    <3>13. Mending(op[p])'
      BY <3>3, <3>8, <3>9, <3>11 DEF Mending, Undisturbed, Repairing, Resolving
    <3>. QED
      BY <2>1, <3>10, <3>11, <3>12, <3>13, Moved
  <2>. QED
    BY <2>2, <2>3
<1>4. CASE FinishResolve(p)
  <2>1. End(p)
    BY <1>4 DEF FinishResolve
  <2>2. setHubTaskSyncMetadata(task, op[p].snap, NoMeta) \in Records
    BY OpType, NoMetaIsMeta, SyncWriteType
  <2>3. Stored'
    BY <1>4, <2>2, OpType DEF FinishResolve, Stored
  <2>. QED
    BY <2>1, <2>3, EndStep
<1>. QED
  BY <1>1, <1>2, <1>3, <1>4 DEF Resolve

LEMMA RepairKeeps ==
    ASSUME BoardInv, NEW p \in Proc, Repair(p)
    PROVE  BoardInv'
<1>1. CASE tasksRepairStateCommand(p)
  <2>1. PICK dirty \in {"dirty", "clean"} : Ask(p, "repair", dirty)
    BY <1>1 DEF tasksRepairStateCommand
  <2>. QED
    BY <2>1, AskStep DEF Commands, Arguments
<1>2. CASE planRepairs(p)
  <2>. DEFINE plan == doctorHubTaskState(task, op[p].arg = "dirty")
              o == [op[p] EXCEPT !.pc = "repair", !.snap = task, !.clean = TRUE, !.plan = plan]
  <2>1. /\ Stored' /\ op[p].cmd = "repair"
        /\ task' = task /\ ready' = ready /\ work' = work
    BY <1>2, OpType DEF planRepairs, Stored, Running
  <2>2. CASE End(p)
    BY <2>1, <2>2, EndStep
  <2>3. CASE Becomes(p, o)
    <3>1. op'[p] = o /\ OthersWait(p)
      BY <2>3, BecomesFacts
    <3>2. BoardTypes /\ (op[p].arg = "dirty") \in BOOLEAN
      BY DEF BoardInv
    <3>3. /\ plan \in Seq(HUB_TASK_STATUSES \X (Proc \cup {NoValue}))
          /\ PlanFits(task, plan, op[p].arg = "dirty")
      BY <3>2, OpType, DoctorPlans
    <3>. HIDE DEF plan
    <3>4. /\ op'[p] \in Ops /\ op'[p].pc = "repair" /\ op'[p].cmd = "repair"
          /\ op'[p].arg = op[p].arg /\ op'[p].plan = plan
      BY <2>1, <3>1, <3>3, OpType DEF Ops, ReturnSteps
    <3>5. Placed(op'[p])
      BY <3>4 DEF Placed, TransitionSteps, NoValue
    <3>6. Mending(op[p])'
      BY <2>1, <3>3, <3>4
      DEF Mending, Undisturbed, Repairing, Resolving, TransitionSteps, PlanFits, stateInconsistent,
          hasStaleClaimFields
    <3>. QED
      BY <2>1, <3>1, <3>4, <3>5, <3>6, Moved
  <2>. QED
    BY <1>2, <2>2, <2>3 DEF planRepairs
<1>3. CASE repairHubTaskState(p)
  <2>. DEFINE Entry == HUB_TASK_STATUSES \X (Proc \cup {NoValue})
              plan == op[p].plan
              next == Head(plan)
              patch == [NoMeta EXCEPT !["claim"] = next[2]]
              tr == [to |-> next[1], patch |-> patch, fail |-> NoValue, repl |-> next[2] # NoValue]
              o == [op[p] EXCEPT !.plan = Tail(plan)]
  <2>1. /\ Stored' /\ op[p].cmd = "repair" /\ op[p].pc = "repair" /\ plan # <<>>
        /\ task' = task /\ ready' = ready /\ work' = work
        /\ Transit(p, o, tr, "repair")
    BY <1>3, OpType DEF repairHubTaskState, Stored, Running
  <2>2. plan \in Seq(Entry)
    BY OpType DEF Ops
  <2>. HIDE DEF plan, Entry
  <2>3. /\ next \in Entry /\ Tail(plan) \in Seq(Entry)
        /\ plan = <<next>> \o Tail(plan)
    BY <2>1, <2>2
  <2>4. /\ next[1] \in HUB_TASK_STATUSES /\ next[2] \in Proc \cup {NoValue}
        /\ next = <<next[1], next[2]>>
    BY <2>3 DEF Entry
  <2>. HIDE DEF next
  <2>5. patch \in Metas /\ patch["claim"] = next[2]
    BY <2>4, NoMetaIsMeta, PatchesType, MetaFacts, Keys
  <2>. HIDE DEF patch
  <2>6. tr \in Requests /\ tr.to = next[1] /\ tr.patch = patch /\ tr.repl = (next[2] # NoValue)
    BY <2>4, <2>5 DEF Requests
  <2>. HIDE DEF tr
  <2>7. op'[p] = [o EXCEPT !.pc = "t_load", !.tr = tr, !.ret = "repair"] /\ OthersWait(p)
    BY <2>1, BecomesFacts DEF Transit
  <2>8. /\ op'[p] \in Ops /\ op'[p].pc = "t_load" /\ op'[p].cmd = "repair"
        /\ op'[p].arg = op[p].arg /\ op'[p].ret = "repair" /\ op'[p].tr = tr
        /\ op'[p].plan = Tail(plan) /\ op'[p].clean = op[p].clean
    <3>1. op[p] \in Ops
      BY OpType
    <3>. QED
      BY <2>1, <2>3, <2>6, <2>7, <3>1 DEF Ops, TransitionSteps, ReturnSteps, Entry
  <2>9. Placed(op'[p])
    BY <2>8 DEF Placed, NoValue
  <2>10. op[p].clean => PlanFits(task, plan, op[p].arg = "dirty")
    BY <2>1, OpType DEF Mending, Repairing, plan
  <2>11. Pending(op[p])' = plan
    BY <2>3, <2>4, <2>5, <2>6, <2>8 DEF Pending
  <2>12. Mending(op[p])'
    <3>1. (op[p].clean => Undisturbed(op[p]))' /\ Resolving(op[p])'
      BY <2>8 DEF Undisturbed, Resolving
    <3>2. (op[p].clean => Repairing(op[p]))'
      BY <2>1, <2>5, <2>6, <2>8, <2>10, <2>11
      DEF Repairing, TransitionSteps, PlanFits, stateInconsistent, hasStaleClaimFields
    <3>. QED
      BY <3>1, <3>2 DEF Mending
  <2>. QED
    BY <2>1, <2>7, <2>8, <2>9, <2>12, Moved
<1>4. CASE FinishRepair(p)
  BY <1>4, OpType, EndStep DEF FinishRepair, Stored
<1>. QED
  BY <1>1, <1>2, <1>3, <1>4 DEF Repair

LEMMA RecoverKeeps ==
    ASSUME BoardInv, NEW p \in Proc, tasksRecoverCommand(p) \/ recoverLoadedTask(p)
    PROVE  BoardInv'
<1>1. CASE tasksRecoverCommand(p)
  <2>1. PICK scope \in {"one", "stale"} : Ask(p, "recover", scope)
    BY <1>1 DEF tasksRecoverCommand
  <2>. QED
    BY <2>1, AskStep DEF Commands, Arguments
<1>2. CASE recoverLoadedTask(p)
  <2>1. Stored' /\ op[p].cmd = "recover"
    BY <1>2, OpType DEF recoverLoadedTask, Stored, Running
  <2>2. CASE End(p)
    BY <2>1, <2>2, EndStep
  <2>3. CASE ~End(p)
    <3>1. PICK tr \in recoverHubTask(task) : Transit(p, [op[p] EXCEPT !.snap = task], tr, "idle")
      BY <1>2, <2>3 DEF recoverLoadedTask
    <3>2. tr \in Requests
      BY OpType, RecoveryTypes
    <3>3. [op[p] EXCEPT !.snap = task] \in Ops /\ [op[p] EXCEPT !.snap = task].cmd = "recover"
      BY <2>1, OpType DEF Ops
    <3>. QED
      BY <2>1, <3>1, <3>2, <3>3, TransitStep DEF NoValue
  <2>. QED
    BY <2>2, <2>3
<1>. QED
  BY <1>1, <1>2

LEMMA TriageKeeps ==
    ASSUME BoardInv, NEW p \in Proc, Triage(p)
    PROVE  BoardInv'
<1>1. {"wontfix", "needs_info", "ready_for_agent"} \subseteq HUB_TASK_STATUSES \cap Arguments
  BY DEF HUB_TASK_STATUSES, Arguments
<1>2. \A arg \in {"wontfix", "needs_info", "ready_for_agent"} :
        /\ [op[p] EXCEPT !.arg = arg] \in Ops
        /\ [op[p] EXCEPT !.arg = arg].cmd = op[p].cmd
  BY <1>1, OpType DEF Ops
<1>3. \A v \in {"yes", NoValue} : [op[p].snap.meta EXCEPT !["wontfix"] = v] \in Metas
  BY OpType, PatchesType DEF Reasons
<1>4. CASE TriageStart(p)
  <2>. DEFINE o == [Idle EXCEPT !.pc = "triage", !.snap = task]
  <2>1. Stored'
    BY <1>4, OpType DEF TriageStart, Stored
  <2>2. o \in Ops /\ o.pc = "triage"
    BY IdleType, OpType DEF Ops, OtherSteps
  <2>3. Start(p, "triage", o)
    BY <1>4 DEF TriageStart
  <2>. HIDE DEF o
  <2>. QED
    BY <2>1, <2>2, <2>3, StartStep DEF OtherSteps, Commands
<1>5. CASE applyWontfixOutcome(p)
  <2>1. Stored' /\ op[p].cmd = "triage"
    BY <1>5, OpType DEF applyWontfixOutcome, Stored, Running
  <2>2. Transit(p, [op[p] EXCEPT !.arg = "wontfix"],
          Request("wontfix", [op[p].snap.meta EXCEPT !["wontfix"] = "yes"]), "labels")
    BY <1>5 DEF applyWontfixOutcome
  <2>. QED
    BY <1>1, <1>2, <1>3, <2>1, <2>2, RequestType, TransitStep DEF ReturnSteps, NoValue
<1>6. CASE applyNonWontfixOutcome(p)
  <2>1. Stored' /\ op[p].cmd = "triage"
    BY <1>6, OpType DEF applyNonWontfixOutcome, Stored, Running
  <2>2. PICK outcome \in {"needs_info", "ready_for_agent"} :
          Transit(p, [op[p] EXCEPT !.arg = outcome],
            Request(outcome, [op[p].snap.meta EXCEPT !["wontfix"] = NoValue]), "labels")
    BY <1>6 DEF applyNonWontfixOutcome
  <2>. QED
    BY <1>1, <1>2, <1>3, <2>1, <2>2, RequestType, TransitStep DEF ReturnSteps, NoValue
<1>7. CASE ClearTriageLabels(p)
  <2>. DEFINE clear == {"inbox", "needs_info", "ready_for_agent", "ready_for_human"} \ {op[p].arg}
              kept == Without(task.labels, clear)
              labels == IF op[p].arg = "wontfix" /\ "wontfix" \notin Range(kept)
                        THEN Append(kept, "wontfix") ELSE kept
  <2>1. kept \in Seq(HUB_TASK_STATUSES)
    BY OpType, WithoutType DEF Records
  <2>2. labels \in Seq(HUB_TASK_STATUSES)
    BY <1>1, <2>1
  <2>3. End(p) /\ task' = [task EXCEPT !.labels = labels]
    BY <1>7 DEF ClearTriageLabels
  <2>. HIDE DEF labels
  <2>4. task' \in Records
    BY <2>2, <2>3, OpType DEF Records
  <2>5. Stored'
    BY <1>7, <2>4, OpType DEF ClearTriageLabels, Stored
  <2>. QED
    BY <2>3, <2>5, EndStep
<1>. QED
  BY <1>4, <1>5, <1>6, <1>7 DEF Triage

-----------------------------------------------------------------------------
(* The surroundings *)

LEMMA StopKeeps ==
    ASSUME BoardInv, NEW p \in Proc, Stop(p)
    PROVE  BoardInv'
<1>1. /\ Stored' /\ task' = task /\ ready' = ready /\ work' = work
      /\ op' = [op EXCEPT ![p] = Idle]
  BY OpType DEF Stop, Stored
<1>2. op \in [Proc -> Ops]
  BY DEF BoardInv, BoardTypes
<1>3. op'[p] = Idle /\ OthersWait(p)
  BY <1>1, <1>2 DEF OthersWait
<1>4. Idle.pc = "idle" /\ Idle.cmd = NoValue
  BY DEF Idle
<1>. QED
  BY <1>1, <1>3, <1>4, IdleType, QuietStep DEF TransitionSteps, NoValue

LEMMA EditKeeps ==
    ASSUME BoardInv, EditIssue
    PROVE  BoardInv'
<1>1. PICK open \in BOOLEAN, l \in {"ready_for_agent", "wontfix"} :
        issue' = Restamped(issue, [issue EXCEPT !.open = open, !.labels = <<l>>])
  BY DEF EditIssue
<1>2. BoardTypes /\ issue \in Issues
  BY DEF BoardInv, BoardTypes, Stored
<1>3. <<l>> \in Seq(REMOTE_COLLABORATION_LABELS)
  BY DEF REMOTE_COLLABORATION_LABELS
<1>. DEFINE new == [issue EXCEPT !.open = open, !.labels = <<l>>]
<1>4. new \in Issues /\ new.at = issue.at
  BY <1>2, <1>3 DEF Issues
<1>. HIDE DEF new
<1>5. Restamped(issue, new) \in Issues /\ Restamped(issue, new).at \in Range(Stamp)
  BY <1>2, <1>4, RestampType
<1>6. issue' = Restamped(issue, new)
  BY <1>1 DEF new
<1>7. task' = task /\ ready' = ready /\ work' = work /\ op' = op
  BY DEF EditIssue
<1>8. BoardTypes'
  BY <1>2, <1>5, <1>6, <1>7 DEF BoardTypes, Stored
<1>9. ASSUME NEW q \in Proc PROVE Placed(op'[q]) /\ Mending(op[q])'
  <2>1. Placed(op[q]) /\ Mending(op[q]) /\ op'[q] = op[q]
    BY <1>7 DEF BoardInv
  <2>. QED
    BY <1>7, <2>1, Unwritten
<1>. QED
  BY <1>8, <1>9 DEF BoardInv

LEMMA RelabelKeeps ==
    ASSUME BoardInv, AddStatusLabel
    PROVE  BoardInv'
<1>1. /\ task' = [task EXCEPT !.labels = Append(task.labels, "failed")]
      /\ op' = [q \in Proc |-> IF op[q] = Idle THEN Idle ELSE [op[q] EXCEPT !.clean = FALSE]]
      /\ issue' = issue /\ ready' = ready /\ work' = work
  BY DEF AddStatusLabel
<1>2. BoardTypes /\ task \in Records
  BY DEF BoardInv, BoardTypes, Stored
<1>3. Append(task.labels, "failed") \in Seq(HUB_TASK_STATUSES)
  BY <1>2 DEF Records, HUB_TASK_STATUSES
<1>4. task' \in Records
  BY <1>1, <1>2, <1>3 DEF Records
<1>5. ASSUME NEW q \in Proc
      PROVE  op'[q] \in Ops /\ Placed(op'[q]) /\ Mending(op[q])'
  <2>1. op[q] \in Ops /\ Placed(op[q]) /\ Mending(op[q])
    BY <1>2 DEF BoardInv, BoardTypes
  <2>2. CASE op[q] = Idle
    <3>1. op'[q] = Idle /\ op'[q].pc = "idle" /\ op'[q].cmd = NoValue
      BY <1>1, <2>2 DEF Idle
    <3>2. Mending(op[q])'
      BY <3>1 DEF Mending, Undisturbed, Repairing, Resolving, NoValue
    <3>. QED
      BY <3>1, <3>2, IdleType
  <2>3. CASE op[q] # Idle
    <3>1. op'[q] = [op[q] EXCEPT !.clean = FALSE]
      BY <1>1, <2>3
    <3>2. /\ op'[q] \in Ops
          /\ op'[q].pc = op[q].pc /\ op'[q].cmd = op[q].cmd /\ op'[q].arg = op[q].arg
          /\ op'[q].snap = op[q].snap /\ op'[q].ret = op[q].ret /\ op'[q].tr = op[q].tr
          /\ op'[q].clean = FALSE
      BY <2>1, <3>1 DEF Ops
    <3>3. Placed(op'[q])
      BY <2>1, <3>2 DEF Placed
    <3>4. Mending(op[q])'
      BY <2>1, <3>2 DEF Mending, Resolving
    <3>. QED
      BY <3>2, <3>3, <3>4
  <2>. QED
    BY <2>2, <2>3
<1>6. op' \in [Proc -> Ops]
  BY <1>1, <1>5
<1>7. BoardTypes'
  BY <1>1, <1>2, <1>4, <1>6 DEF BoardTypes, Stored
<1>. QED
  BY <1>5, <1>7 DEF BoardInv

LEMMA BoardStarts ==
    ASSUME BoardInit
    PROVE  BoardInv
<1>1. PICK l \in {"inbox", "ready_for_agent"} :
        issue = [open |-> TRUE, labels |-> <<l>>, at |-> Stamp[1]]
  BY DEF BoardInit
<1>2. Stamp[1] \in Range(Stamp)
  <2>1. 1 \in DOMAIN Stamp
    BY DEF Stamp
  <2>. QED
    BY <2>1 DEF Range
<1>3. <<l>> \in Seq(REMOTE_COLLABORATION_LABELS)
  BY DEF REMOTE_COLLABORATION_LABELS
<1>4. issue \in Issues /\ issue.at \in Range(Stamp)
  BY <1>1, <1>2, <1>3 DEF Issues
<1>5. task \in Records
  BY <1>4, IdleType, ImportType DEF BoardInit
<1>6. op = [p \in Proc |-> Idle] /\ ready = NoValue /\ work = FALSE
  BY DEF BoardInit
<1>7. BoardTypes
  BY <1>4, <1>5, <1>6, IdleType DEF BoardTypes, Stored
<1>8. Idle.pc = "idle" /\ Idle.cmd = NoValue
  BY DEF Idle
<1>9. Mending(Idle)
  BY <1>8 DEF Mending, Undisturbed, Repairing, Resolving, TransitionSteps, NoValue
<1>. QED
  BY <1>6, <1>7, <1>9, IdleType DEF BoardInv

LEMMA BoardSteps ==
    ASSUME BoardInv, BoardNext
    PROVE  BoardInv'
<1>1. ASSUME NEW p \in Proc, Transition(p) PROVE BoardInv'
  BY <1>1, LoadKeeps, UpdateKeeps, UnsetKeeps, CheckKeeps DEF Transition
<1>2. ASSUME NEW p \in Proc, tasksDeleteCommand(p) PROVE BoardInv'
  BY <1>2, AskStep DEF tasksDeleteCommand, Commands, Arguments
<1>3. ASSUME NEW p \in Proc, deleteHubTasks(p) PROVE BoardInv'
  <2>1. End(p) /\ Stored'
    BY <1>3, OpType, IdleType DEF deleteHubTasks, Stored
  <2>. QED
    BY <2>1, EndStep
<1>4. ASSUME NEW p \in Proc, Cancel(p) PROVE BoardInv'
  <2>1. End(p) /\ Stored'
    BY <1>4, OpType DEF Cancel, Stored
  <2>. QED
    BY <2>1, EndStep
<1>. QED
  BY <1>1, <1>2, <1>3, <1>4, RunKeeps, SyncKeeps, ResolveKeeps, RepairKeeps, RecoverKeeps, TriageKeeps,
     StopKeeps, EditKeeps, RelabelKeeps DEF BoardNext

LEMMA BoardStutters ==
    ASSUME BoardInv, UNCHANGED boardVars
    PROVE  BoardInv'
<1>1. task' = task /\ issue' = issue /\ ready' = ready /\ work' = work /\ op' = op
  BY DEF boardVars
<1>2. BoardTypes'
  BY <1>1 DEF BoardInv, BoardTypes, Stored
<1>3. ASSUME NEW q \in Proc PROVE Placed(op'[q]) /\ Mending(op[q])'
  BY <1>1, Unwritten DEF BoardInv
<1>. QED
  BY <1>2, <1>3 DEF BoardInv

\* The records and the requests are of their types, a command that nobody wrote under finds
\* the record it read, and a repair's plan has what there is to repair
\* (transitionHubTaskStatus, repairHubTaskState).
THEOREM BoardInvHolds == BoardSpec => []BoardInv
<1>1. BoardInit => BoardInv
  BY BoardStarts
<1>2. BoardInv /\ [BoardNext]_boardVars => BoardInv'
  BY BoardSteps, BoardStutters
<1>. QED
  BY <1>1, <1>2, PTL DEF BoardSpec

\* A repair or a resolution of a task's state that nobody wrote under leaves nothing to
\* repair and no conflict to resolve, and the records are of their types
\* (repairHubTaskState, resolveHubTaskConflict).
THEOREM TasksMended == BoardSpec => []CommandsMend
<1>1. BoardInv => BoardTypeOK
  <2>. SUFFICES ASSUME BoardInv PROVE BoardTypeOK
    OBVIOUS
  <2>1. BoardTypes /\ Stored /\ task \in Records /\ task.meta \in Metas /\ issue \in Issues
    BY DEF BoardInv, BoardTypes, Stored, Records
  <2>2. /\ task.exists \in BOOLEAN /\ task.life \in Lifecycles
        /\ task.labels \in Seq(HUB_TASK_STATUSES) /\ issue.open \in BOOLEAN
        /\ issue.labels \in Seq(REMOTE_COLLABORATION_LABELS)
    BY <2>1 DEF Records, Issues
  <2>3. Range(task.labels) \subseteq HUB_TASK_STATUSES /\ Range(issue.labels) \subseteq REMOTE_COLLABORATION_LABELS
    BY <2>2 DEF Range
  <2>4. \A p \in Proc : op[p].pc # "idle" <=> op[p].cmd # NoValue
    BY DEF BoardInv, Placed
  <2>. QED
    BY <2>1, <2>2, <2>3, <2>4, MetaFacts DEF BoardTypeOK, Stored, Lifecycles, SyncStates
<1>2. BoardInv => RepairSettles
  <2>. SUFFICES ASSUME BoardInv, NEW p \in Proc, Running(p, "repair", "repair"),
                       op[p].plan = <<>>, op[p].clean
                PROVE  doctorHubTaskState(task, op[p].arg = "dirty") = <<>>
    BY DEF RepairSettles
  <2>1. PlanFits(task, op[p].plan, op[p].arg = "dirty")
    BY OpType DEF Running, Mending, Repairing
  <2>2. Settled(task) /\ ~stateInconsistent(task, op[p].arg = "dirty")
    BY <2>1 DEF PlanFits
  <2>3. BoardTypes /\ (op[p].arg = "dirty") \in BOOLEAN
    BY DEF BoardInv
  <2>. QED
    BY <2>2, <2>3, OpType, DoctorPlans
<1>3. BoardInv => ResolveSettles
  BY OpType DEF ResolveSettles, Running, Mending, Resolving
<1>. QED
  BY <1>1, <1>2, <1>3, BoardInvHolds, PTL DEF CommandsMend

-----------------------------------------------------------------------------
(* What a command has decided *)

\* Either every entry of the plan completes the task, or none does and the task read was open.
OneKind(plan, t) ==
    \/ \A i \in 1..Len(plan) : isCompletedHubStatus(plan[i][1])
    \/ /\ ~isCompletedHubStatus(Status(t))
       /\ \A i \in 1..Len(plan) : ~isCompletedHubStatus(plan[i][1])

\* The request fits the record from which it was decided.
Fits(o) ==
    /\ o.tr.fail # NoValue => o.tr.to = "failed"
    /\ o.cmd # "resolve" =>
         o.tr.patch["sync_state"] \in {NoValue, "conflict", o.snap.meta["sync_state"]}
    /\ o.cmd \notin {"resolve", "run"} =>
         isCompletedHubStatus(o.tr.to) \/ ~isCompletedHubStatus(Status(o.snap))
    /\ o.cmd = "repair" => OneKind(Pending(o), o.snap)

Decided(o) ==
    /\ o.pc \in TransitionSteps => Fits(o)
    /\ o.pc = "triage" => ~isCompletedHubStatus(Status(o.snap))
    /\ o.cmd = "repair" /\ o.pc = "repair" => OneKind(o.plan, o.snap)

DecidedInv == \A p \in Proc : Decided(op[p])

LEMMA DecidedMoved ==
    ASSUME BoardInv, DecidedInv, NEW p \in Proc, OthersWait(p), Decided(op'[p])
    PROVE  DecidedInv'
<1>1. ASSUME NEW q \in Proc, q # p
      PROVE  Decided(op'[q])
  <2>1. op[q] \in Ops /\ Decided(op[q])
    BY OpType DEF DecidedInv
  <2>2. CASE op'[q] = [op[q] EXCEPT !.clean = FALSE]
    <3>1. /\ op'[q].pc = op[q].pc /\ op'[q].cmd = op[q].cmd /\ op'[q].snap = op[q].snap
          /\ op'[q].tr = op[q].tr /\ op'[q].plan = op[q].plan
      BY <2>1, <2>2 DEF Ops
    <3>. QED
      BY <2>1, <3>1 DEF Decided, Fits, Pending
  <2>3. CASE op'[q] = op[q]
    BY <2>1, <2>3
  <2>. QED
    BY <1>1, <2>2, <2>3 DEF OthersWait
<1>. QED
  BY <1>1 DEF DecidedInv

\* Steps after which nothing is decided.
LEMMA DecidedElsewhere ==
    ASSUME BoardInv, DecidedInv, NEW p \in Proc, NEW o, Becomes(p, o),
           o.pc \notin TransitionSteps \cup {"triage", "repair"}
    PROVE  DecidedInv'
<1>1. op'[p] = o /\ OthersWait(p)
  BY BecomesFacts
<1>2. Decided(op'[p])
  BY <1>1 DEF Decided
<1>. QED
  BY <1>1, <1>2, DecidedMoved

LEMMA DecidedEnd ==
    ASSUME BoardInv, DecidedInv, NEW p \in Proc, End(p)
    PROVE  DecidedInv'
<1>1. Idle.pc = "idle"
  BY DEF Idle
<1>. QED
  BY <1>1, DecidedElsewhere DEF End, TransitionSteps

LEMMA DecidedTransit ==
    ASSUME BoardInv, DecidedInv, NEW p \in Proc, NEW o \in Ops, NEW tr \in Requests,
           NEW ret \in ReturnSteps \cup {"idle"}, Transit(p, o, tr, ret),
           tr.fail # NoValue => tr.to = "failed",
           o.cmd # "resolve" =>
             tr.patch["sync_state"] \in {NoValue, "conflict", o.snap.meta["sync_state"]},
           o.cmd \notin {"resolve", "run"} =>
             isCompletedHubStatus(tr.to) \/ ~isCompletedHubStatus(Status(o.snap)),
           o.cmd = "repair" => OneKind(<<<<tr.to, tr.patch["claim"]>>>> \o o.plan, o.snap)
    PROVE  DecidedInv'
<1>1. op'[p] = [o EXCEPT !.pc = "t_load", !.tr = tr, !.ret = ret] /\ OthersWait(p)
  BY BecomesFacts DEF Transit
<1>2. /\ op'[p].pc = "t_load" /\ op'[p].cmd = o.cmd /\ op'[p].tr = tr /\ op'[p].snap = o.snap
      /\ op'[p].plan = o.plan
  BY <1>1 DEF Ops
<1>3. Decided(op'[p])
  BY <1>2 DEF Decided, Fits, Pending
<1>. QED
  BY <1>1, <1>3, DecidedMoved

\* A transition that goes on.
LEMMA DecidedOn ==
    ASSUME BoardInv, DecidedInv, NEW p \in Proc, NEW o, Becomes(p, o),
           op[p].pc \in TransitionSteps, o.pc \in TransitionSteps, o.cmd = op[p].cmd,
           o.tr = op[p].tr, o.snap = op[p].snap, o.plan = op[p].plan
    PROVE  DecidedInv'
<1>1. op'[p] = o /\ OthersWait(p)
  BY BecomesFacts
<1>2. Decided(op[p])
  BY DEF DecidedInv
<1>3. Decided(o)
  BY <1>2 DEF Decided, Fits, Pending, TransitionSteps
<1>. QED
  BY <1>1, <1>3, DecidedMoved

\* The patches of the commands have the sync_state of the record they were made from.
LEMMA PatchState ==
    ASSUME NEW m \in Metas, NEW k \in MetaKey \ {"sync_state"}, NEW v
    PROVE  [m EXCEPT ![k] = v]["sync_state"] = m["sync_state"]
  BY MetaFacts, Keys

\* A record of which a doctor plans repairs, and the plan.
LEMMA DoctorDecides ==
    ASSUME BoardTypes, NEW t \in Records, NEW dirty \in BOOLEAN
    PROVE  OneKind(doctorHubTaskState(t, dirty), t)
<1>. DEFINE plan == doctorHubTaskState(t, dirty)
            same == <<Status(t), NoValue>>
<1>1. /\ PlanFits(t, plan, dirty)
      /\ \A i \in 1..Len(plan) : plan[i] = same \/ plan[i] = <<"waiting_for_merge", ready>>
  BY DoctorPlans DEF PlanFits
<1>2. CASE ~isCompletedHubStatus(Status(t))
  BY <1>1, <1>2 DEF OneKind, isCompletedHubStatus
<1>3. CASE isCompletedHubStatus(Status(t))
  <2>. DEFINE a == RepairIf(multipleStatusLabels(t), Status(t), NoValue)
              b == RepairIf(terminalStaleExecutionMetadata(t), Status(t), NoValue)
              c == RepairIf(staleHubStatusMetadata(t), Status(t), NoValue)
              d == RepairIf(stateInconsistent(t, dirty), "waiting_for_merge", ready)
              Entry == HUB_TASK_STATUSES \X (Proc \cup {NoValue})
              Same(s) == s \in Seq(Entry) /\ \A i \in 1..Len(s) : s[i] = same
  <2>1. same \in Entry
    BY StatusType
  <2>2. ~stateInconsistent(t, dirty)
    BY <1>3 DEF stateInconsistent
  <2>3. a \in {<<>>, <<same>>} /\ b \in {<<>>, <<same>>} /\ c \in {<<>>, <<same>>} /\ d = <<>>
    BY <2>2 DEF RepairIf
  <2>. HIDE DEF a, b, c, d, same, Entry
  <2>4. /\ Same(<<>>) /\ Same(<<same>>)
        /\ \A s \in Seq(Entry) : s \o <<>> = s
        /\ \A s : Same(s) => Same(s \o <<same>>)
    BY <2>1
  <2>5. Same(a) /\ Same(a \o b)
    BY <2>3, <2>4
  <2>6. Same((a \o b) \o c)
    BY <2>3, <2>4, <2>5
  <2>7. plan = ((a \o b) \o c) \o d
    BY DEF doctorHubTaskState, a, b, c, d
  <2>8. Same(plan)
    BY <2>3, <2>4, <2>6, <2>7
  <2>9. \A i \in 1..Len(plan) : isCompletedHubStatus(plan[i][1])
    <3>. HIDE DEF plan
    <3>. QED
      BY <1>3, <2>8 DEF same
  <2>. QED
    BY <2>9 DEF OneKind
<1>. QED
  BY <1>2, <1>3

LEMMA TransitionDecided ==
    ASSUME BoardInv, DecidedInv, NEW p \in Proc, Transition(p)
    PROVE  DecidedInv'
<1>. USE OpType
<1>1. CASE End(p)
  BY <1>1, DecidedEnd
<1>2. CASE LoadForTransition(p) /\ ~End(p)
  <2>. DEFINE o == [op[p] EXCEPT !.pc = "t_update", !.base = task]
  <2>1. op[p].pc = "t_load" /\ Becomes(p, o)
    BY <1>2 DEF LoadForTransition
  <2>2. /\ o.pc = "t_update" /\ o.cmd = op[p].cmd /\ o.tr = op[p].tr /\ o.snap = op[p].snap
        /\ o.plan = op[p].plan
    BY DEF Ops
  <2>. HIDE DEF o
  <2>. QED
    BY <2>1, <2>2, DecidedOn DEF TransitionSteps
<1>3. CASE UpdateRecord(p) /\ ~End(p)
  <2>1. PICK step \in {"t_check", "t_unset"} : Becomes(p, [op[p] EXCEPT !.pc = step])
    BY <1>3 DEF UpdateRecord
  <2>. DEFINE o == [op[p] EXCEPT !.pc = step]
  <2>2. /\ o.pc = step /\ o.cmd = op[p].cmd /\ o.tr = op[p].tr /\ o.snap = op[p].snap
        /\ o.plan = op[p].plan
    BY DEF Ops
  <2>. HIDE DEF o
  <2>3. Becomes(p, o) /\ op[p].pc = "t_update"
    BY <1>3, <2>1 DEF o, UpdateRecord
  <2>. QED
    BY <2>2, <2>3, DecidedOn DEF TransitionSteps
<1>4. CASE UnsetKeys(p) /\ ~End(p)
  <2>. DEFINE o == [op[p] EXCEPT !.pc = "t_check"]
  <2>1. op[p].pc = "t_unset" /\ Becomes(p, o)
    BY <1>4 DEF UnsetKeys
  <2>2. /\ o.pc = "t_check" /\ o.cmd = op[p].cmd /\ o.tr = op[p].tr /\ o.snap = op[p].snap
        /\ o.plan = op[p].plan
    BY DEF Ops
  <2>. HIDE DEF o
  <2>. QED
    BY <2>1, <2>2, DecidedOn DEF TransitionSteps
<1>5. CASE CheckTransition(p) /\ ~End(p)
  <2>. DEFINE o == [op[p] EXCEPT !.pc = op[p].ret, !.snap = task, !.tr = NoRequest,
                                 !.base = NoTask, !.ret = "idle"]
  <2>1. /\ op[p].pc = "t_check" /\ op[p].ret # "idle" /\ Becomes(p, o)
        /\ Status(task) = op[p].tr.to
    BY <1>5 DEF CheckTransition, assertHubTaskTransition
  <2>2. o.pc = op[p].ret /\ o.cmd = op[p].cmd /\ o.snap = task /\ o.plan = op[p].plan
    BY DEF Ops
  <2>. HIDE DEF o
  <2>3. op[p].ret \in ReturnSteps
    BY <2>1 DEF Ops
  <2>4. CASE op[p].ret # "repair"
    BY <2>1, <2>2, <2>3, <2>4, DecidedElsewhere DEF ReturnSteps, TransitionSteps
  <2>5. CASE op[p].ret = "repair"
    <3>1. op[p].cmd = "repair" /\ OneKind(Pending(op[p]), op[p].snap)
      BY <2>1, <2>5 DEF Placed, DecidedInv, Decided, Fits, TransitionSteps
    <3>. DEFINE first == <<op[p].tr.to, op[p].tr.patch["claim"]>>
                plan == op[p].plan
                all == <<first>> \o plan
    <3>2. plan \in Seq(HUB_TASK_STATUSES \X (Proc \cup {NoValue}))
      BY DEF Ops
    <3>3. first[1] = Status(task)
      BY <2>1
    <3>. HIDE DEF first
    <3>4. /\ Len(all) = Len(plan) + 1 /\ Len(plan) \in Nat /\ all[1] = first
          /\ \A i \in 1..Len(plan) : all[i + 1] = plan[i] /\ i + 1 \in 1..Len(all)
          /\ 1 \in 1..Len(all)
      BY <3>2
    <3>5. OneKind(all, op[p].snap)
      BY <3>1 DEF Pending, first
    <3>. HIDE DEF all, plan
    <3>6. OneKind(plan, task)
      BY <3>3, <3>4, <3>5 DEF OneKind
    <3>7. op'[p] = o /\ OthersWait(p)
      BY <2>1, BecomesFacts
    <3>8. Decided(o)
      BY <2>2, <2>5, <3>6 DEF Decided, TransitionSteps, plan
    <3>. QED
      BY <3>7, <3>8, DecidedMoved
  <2>. QED
    BY <2>4, <2>5
<1>. QED
  BY <1>1, <1>2, <1>3, <1>4, <1>5 DEF Transition

LEMMA RunTransit ==
    ASSUME BoardInv, DecidedInv, NEW p \in Proc, NEW o \in Ops, o.cmd = "run",
           NEW to \in HUB_TASK_STATUSES, NEW ret \in ReturnSteps \cup {"idle"},
           NEW patch \in Metas, patch["sync_state"] = o.snap.meta["sync_state"],
           Transit(p, o, Request(to, patch), ret)
    PROVE  DecidedInv'
<1>. DEFINE tr == Request(to, patch)
<1>1. tr \in Requests
  BY RequestType
<1>2. tr.fail = NoValue /\ tr.patch = patch
  BY DEF Request
<1>3. Transit(p, o, tr, ret)
  OBVIOUS
<1>. HIDE DEF tr
<1>. QED
  BY <1>1, <1>2, <1>3, DecidedTransit

LEMMA RunFails ==
    ASSUME BoardInv, DecidedInv, NEW p \in Proc, NEW o \in Ops, o.cmd = "run",
           NEW why \in FailureReasons, NEW ret \in ReturnSteps \cup {"idle"},
           NEW patch \in Metas, patch["sync_state"] = o.snap.meta["sync_state"],
           Transit(p, o, Failure(patch, why), ret)
    PROVE  DecidedInv'
<1>. DEFINE tr == Failure(patch, why)
<1>1. tr \in Requests
  <2>1. "failed" \in HUB_TASK_STATUSES
    BY DEF HUB_TASK_STATUSES
  <2>. QED
    BY <2>1, RequestType
<1>2. tr.to = "failed" /\ tr.patch = patch
  BY DEF Failure, Request
<1>3. Transit(p, o, tr, ret)
  OBVIOUS
<1>. HIDE DEF tr
<1>. QED
  BY <1>1, <1>2, <1>3, DecidedTransit

LEMMA RunDecided ==
    ASSUME BoardInv, DecidedInv, NEW p \in Proc, Run(p)
    PROVE  DecidedInv'
<1>1. /\ op[p] \in Ops /\ op[p].snap.meta \in Metas /\ task.meta \in Metas
      /\ [op[p] EXCEPT !.snap = task] \in Ops
      /\ [op[p] EXCEPT !.snap = task].cmd = op[p].cmd
      /\ [op[p] EXCEPT !.snap = task].snap = task
  BY OpType DEF Ops
<1>2. /\ {"implementing", "waiting_for_merge", "merging", "publishing", "blocked", "done", "failed"}
           \subseteq HUB_TASK_STATUSES
      /\ {"implement", "select", "merge", "close", "idle"} \subseteq ReturnSteps \cup {"idle"}
      /\ {"agent_failed", "merge_failed", "close_failed"} \subseteq FailureReasons
  BY DEF HUB_TASK_STATUSES, ReturnSteps, FailureReasons
<1>3. ASSUME NEW m \in Metas
      PROVE  [m EXCEPT !["claim"] = p] \in Metas /\ [m EXCEPT !["claim"] = p]["sync_state"] = m["sync_state"]
  BY PatchesType, PatchState, Keys
<1>4. ASSUME NEW m \in Metas, NEW k \in {"blocked", "done"}
      PROVE  [m EXCEPT ![k] = "yes"] \in Metas /\ [m EXCEPT ![k] = "yes"]["sync_state"] = m["sync_state"]
  <2>1. k \in Reasons \ {"sync_conflict"} /\ k \in MetaKey \ {"sync_state"}
    BY Keys DEF Reasons
  <2>. QED
    BY <2>1, PatchesType, PatchState
<1>5. CASE RunStart(p)
  <2>. DEFINE o == [[Idle EXCEPT !.pc = "claim"] EXCEPT !.cmd = "run"]
  <2>1. o.pc = "claim" /\ Becomes(p, o)
    BY <1>5, IdleType DEF RunStart, Start, Ops
  <2>. HIDE DEF o
  <2>. QED
    BY <2>1, DecidedElsewhere DEF TransitionSteps
<1>6. CASE End(p)
  BY <1>6, DecidedEnd
<1>7. CASE claimHubTask(p) /\ ~End(p)
  <2>1. op[p].cmd = "run" /\ Transit(p, [op[p] EXCEPT !.snap = task],
          Request("implementing", [task.meta EXCEPT !["claim"] = p]), "implement")
    BY <1>7 DEF claimHubTask, Running
  <2>. QED
    BY <1>1, <1>2, <1>3, <1>4, <2>1, RunTransit
<1>8. CASE enterMergePhase(p) /\ ~End(p)
  <2>1. op[p].cmd = "run" /\ Transit(p, [op[p] EXCEPT !.snap = task],
          Request("merging", task.meta), "merge")
    BY <1>8 DEF enterMergePhase, Running
  <2>. QED
    BY <1>1, <1>2, <1>3, <1>4, <2>1, RunTransit
<1>9. CASE recordImplementationSuccess(p)
  <2>1. op[p].cmd = "run" /\ Transit(p, op[p],
          Request("waiting_for_merge", [op[p].snap.meta EXCEPT !["claim"] = p]), "select")
    BY <1>9 DEF recordImplementationSuccess, Running
  <2>. QED
    BY <1>1, <1>2, <1>3, <1>4, <2>1, RunTransit
<1>10. CASE recordImplementationFailure(p)
  <2>1. op[p].cmd = "run" /\ Transit(p, op[p],
          Failure([op[p].snap.meta EXCEPT !["claim"] = p], "agent_failed"), "idle")
    BY <1>10 DEF recordImplementationFailure, Running
  <2>. QED
    BY <1>1, <1>2, <1>3, <1>4, <2>1, RunFails
<1>11. CASE recordMergePhaseFailure(p)
  <2>1. op[p].cmd = "run" /\ Transit(p, op[p],
          Failure(op[p].snap.meta, "merge_failed"), "idle")
    BY <1>11 DEF recordMergePhaseFailure, Running
  <2>. QED
    BY <1>1, <1>2, <1>3, <1>4, <2>1, RunFails
<1>12. CASE recordRepairExhaustion(p)
  <2>1. op[p].cmd = "run" /\ Transit(p, op[p],
          Request("blocked", [op[p].snap.meta EXCEPT !["blocked"] = "yes"]), "idle")
    BY <1>12 DEF recordRepairExhaustion, Running
  <2>. QED
    BY <1>1, <1>2, <1>3, <1>4, <2>1, RunTransit
<1>13. CASE revertTaskToWaitingForMerge(p)
  <2>1. op[p].cmd = "run" /\ Transit(p, op[p],
          Request("waiting_for_merge", op[p].snap.meta), "idle")
    BY <1>13 DEF revertTaskToWaitingForMerge, Running
  <2>. QED
    BY <1>1, <1>2, <1>3, <1>4, <2>1, RunTransit
<1>14. CASE awaitRequiredPublicationBeforeClose(p)
  <2>1. op[p].cmd = "run" /\ Transit(p, op[p],
          Request("publishing", op[p].snap.meta), "close")
    BY <1>14 DEF awaitRequiredPublicationBeforeClose, Running
  <2>. QED
    BY <1>1, <1>2, <1>3, <1>4, <2>1, RunTransit
<1>15. CASE recordTaskClosure(p)
  <2>1. op[p].cmd = "run" /\ Transit(p, op[p],
          Request("done", [op[p].snap.meta EXCEPT !["done"] = "yes"]), "idle")
    BY <1>15 DEF recordTaskClosure, Running
  <2>. QED
    BY <1>1, <1>2, <1>3, <1>4, <2>1, RunTransit
<1>16. CASE recordCloseFailure(p)
  <2>1. op[p].cmd = "run" /\ Transit(p, op[p],
          Failure(op[p].snap.meta, "close_failed"), "idle")
    BY <1>16 DEF recordCloseFailure, Running
  <2>. QED
    BY <1>1, <1>2, <1>3, <1>4, <2>1, RunFails
<1>. QED
  BY <1>5, <1>6, <1>7, <1>8, <1>9, <1>10, <1>11, <1>12, <1>13, <1>14, <1>15, <1>16 DEF Run

\* A command that waits for its answer, or begins.
LEMMA AskDecided ==
    ASSUME BoardInv, DecidedInv, NEW p \in Proc, NEW cmd, NEW arg, Ask(p, cmd, arg)
    PROVE  DecidedInv'
<1>. DEFINE o == [[Idle EXCEPT !.pc = "confirm", !.arg = arg] EXCEPT !.cmd = cmd]
<1>1. o.pc = "confirm"
  BY IdleType DEF Ops
<1>2. Becomes(p, o)
  BY DEF Ask, Start
<1>. HIDE DEF o
<1>. QED
  BY <1>1, <1>2, DecidedElsewhere DEF TransitionSteps

LEMMA AfterPullDecided ==
    ASSUME BoardInv, DecidedInv, NEW p \in Proc, AfterPull(p)
    PROVE  DecidedInv'
<1>1. CASE End(p)
  BY <1>1, DecidedEnd
<1>2. CASE Becomes(p, [op[p] EXCEPT !.pc = "push_board", !.snap = NoTask])
  <2>1. [op[p] EXCEPT !.pc = "push_board", !.snap = NoTask].pc = "push_board"
    BY OpType DEF Ops
  <2>. QED
    BY <1>2, <2>1, DecidedElsewhere DEF TransitionSteps
<1>. QED
  BY <1>1, <1>2 DEF AfterPull

LEMMA SyncDecided ==
    ASSUME BoardInv, DecidedInv, NEW p \in Proc, Sync(p)
    PROVE  DecidedInv'
<1>. USE OpType
<1>1. ASSUME NEW o, Becomes(p, o),
             o.pc \in {"push_board", "pull_board", "refresh", "conflict", "push", "pushed"}
      PROVE  DecidedInv'
  BY <1>1, DecidedElsewhere DEF TransitionSteps
<1>3. CASE runHubTaskSyncCommand(p)
  BY <1>3, AskDecided DEF runHubTaskSyncCommand
<1>4. CASE syncHubTasksWithGithub(p)
  <2>. DEFINE step == IF op[p].arg = "push" THEN "push_board" ELSE "pull_board"
  <2>1. PICK closed \in {FALSE, ~issue.open} :
          Becomes(p, [op[p] EXCEPT !.pc = step, !.iss = listIssues(op[p].arg, closed)])
    BY <1>4 DEF syncHubTasksWithGithub
  <2>. DEFINE o == [op[p] EXCEPT !.pc = step, !.iss = listIssues(op[p].arg, closed)]
  <2>2. o.pc \in {"push_board", "pull_board"} /\ Becomes(p, o)
    BY <2>1 DEF Ops
  <2>. HIDE DEF o
  <2>. QED
    BY <1>1, <2>2
<1>5. CASE pullGithubIssues(p)
  <2>1. AfterPull(p) \/ Becomes(p, [op[p] EXCEPT !.pc = "refresh", !.snap = task])
    BY <1>5 DEF pullGithubIssues
  <2>2. [op[p] EXCEPT !.pc = "refresh", !.snap = task].pc = "refresh"
    BY DEF Ops
  <2>. QED
    BY <1>1, <2>1, <2>2, AfterPullDecided
<1>6. CASE refreshLinkedGithubIssue(p)
  <2>1. \/ AfterPull(p) \/ End(p) \/ Becomes(p, [op[p] EXCEPT !.pc = "conflict"])
    BY <1>6 DEF refreshLinkedGithubIssue, WriteFromPull
  <2>2. [op[p] EXCEPT !.pc = "conflict"].pc = "conflict"
    BY DEF Ops
  <2>. QED
    BY <1>1, <2>1, <2>2, AfterPullDecided, DecidedEnd
<1>7. CASE ImportIssue(p)
  BY <1>7, AfterPullDecided DEF ImportIssue
<1>8. CASE recordHubTaskSyncConflict(p)
  <2>. DEFINE to == IF isCompletedHubStatus(Status(task)) THEN Status(task) ELSE "sync_conflict"
              patch == [Patch(NoValue, "conflict") EXCEPT !["sync_conflict"] = Status(op[p].snap)]
              ret == IF op[p].arg = "sync" THEN "push_board" ELSE "idle"
              o == [op[p] EXCEPT !.snap = task]
  <2>1. op[p].cmd = "sync" /\ (End(p) \/ Transit(p, o, Request(to, patch), ret))
    BY <1>8 DEF recordHubTaskSyncConflict, Running
  <2>2. to \in HUB_TASK_STATUSES /\ (isCompletedHubStatus(to) \/ ~isCompletedHubStatus(Status(task)))
    BY StatusType DEF HUB_TASK_STATUSES
  <2>3. patch \in Metas /\ patch["sync_state"] = "conflict"
    <3>1. /\ Patch(NoValue, "conflict") \in Metas
          /\ Patch(NoValue, "conflict")["sync_state"] = "conflict"
      BY PatchType DEF SyncStates
    <3>2. Status(op[p].snap) \in HUB_TASK_STATUSES
      BY StatusType
    <3>. QED
      BY <3>1, <3>2, PatchesType, PatchState, Keys DEF Reasons
  <2>4. ret \in ReturnSteps \cup {"idle"}
    BY DEF ReturnSteps
  <2>5. o \in Ops /\ o.cmd = op[p].cmd /\ o.snap = task
    BY DEF Ops
  <2>6. CASE End(p)
    BY <2>6, DecidedEnd
  <2>7. CASE Transit(p, o, Request(to, patch), ret)
    <3>. HIDE DEF to, patch, ret, o
    <3>. DEFINE tr == Request(to, patch)
    <3>1. tr \in Requests
      BY <2>2, <2>3, RequestType
    <3>2. tr.to = to /\ tr.patch = patch /\ tr.fail = NoValue
      BY DEF Request
    <3>3. Transit(p, o, tr, ret)
      BY <2>7
    <3>4. o.cmd = "sync"
      BY <2>1, <2>5
    <3>. HIDE DEF tr
    <3>. QED
      BY <2>2, <2>3, <2>4, <2>5, <3>1, <3>2, <3>3, <3>4, DecidedTransit
  <2>. QED
    BY <2>1, <2>6, <2>7
<1>9. CASE pushHubTasks(p)
  <2>1. End(p) \/ Becomes(p, [op[p] EXCEPT !.pc = "push", !.snap = task])
    BY <1>9 DEF pushHubTasks
  <2>2. [op[p] EXCEPT !.pc = "push", !.snap = task].pc = "push"
    BY DEF Ops
  <2>. QED
    BY <1>1, <2>1, <2>2, DecidedEnd
<1>10. CASE pushHubTaskToGithub(p)
  <2>1. End(p) \/ \E arg \in {"synced", "push_pending"} :
                    Becomes(p, [op[p] EXCEPT !.pc = "pushed", !.arg = arg])
    BY <1>10 DEF pushHubTaskToGithub
  <2>2. \A arg : [op[p] EXCEPT !.pc = "pushed", !.arg = arg].pc = "pushed"
    BY DEF Ops
  <2>. QED
    BY <1>1, <2>1, <2>2, DecidedEnd
<1>11. CASE updateHubTaskSyncState(p)
  BY <1>11, DecidedEnd DEF updateHubTaskSyncState
<1>. QED
  BY <1>3, <1>4, <1>5, <1>6, <1>7, <1>8, <1>9, <1>10, <1>11 DEF Sync

LEMMA ResolveDecided ==
    ASSUME BoardInv, DecidedInv, NEW p \in Proc, Resolve(p)
    PROVE  DecidedInv'
<1>1. CASE tasksResolveCommand(p)
  BY <1>1, AskDecided DEF tasksResolveCommand
<1>2. CASE End(p)
  BY <1>2, DecidedEnd
<1>3. CASE resolveHubTaskSyncConflict(p) /\ ~End(p)
  <2>. DEFINE o == [op[p] EXCEPT !.pc = "list", !.snap = task, !.clean = TRUE]
  <2>1. Becomes(p, o)
    BY <1>3 DEF resolveHubTaskSyncConflict
  <2>2. o.pc = "list"
    BY OpType DEF Ops
  <2>. HIDE DEF o
  <2>. QED
    BY <2>1, <2>2, DecidedElsewhere DEF TransitionSteps
<1>4. CASE applyHubTaskConflictResolution(p) /\ ~End(p)
  <2>. DEFINE kept == resolveHubTaskConflict(op[p].arg, buildConflictFieldValues(op[p].snap, issue))
              patch == Over([task.meta EXCEPT !["sync_conflict"] = NoValue], Patch(issue.at, kept.sync))
              o == [op[p] EXCEPT !.pc = "t_load", !.tr = Request(kept.to, patch), !.ret = "resolved"]
  <2>1. op[p].cmd = "resolve" /\ Becomes(p, o)
    BY <1>4 DEF applyHubTaskConflictResolution, Running, Transit
  <2>2. o.pc = "t_load" /\ o.cmd = op[p].cmd /\ o.tr = Request(kept.to, patch)
    BY OpType DEF Ops
  <2>3. Request(kept.to, patch).fail = NoValue
    BY DEF Request
  <2>. HIDE DEF o, kept, patch
  <2>4. Decided(o)
    BY <2>1, <2>2, <2>3 DEF Decided, Fits, TransitionSteps
  <2>5. op'[p] = o /\ OthersWait(p)
    BY <2>1, BecomesFacts
  <2>. QED
    BY <2>4, <2>5, DecidedMoved
<1>5. CASE FinishResolve(p)
  BY <1>5, DecidedEnd DEF FinishResolve
<1>. QED
  BY <1>1, <1>2, <1>3, <1>4, <1>5 DEF Resolve

LEMMA RepairDecided ==
    ASSUME BoardInv, DecidedInv, NEW p \in Proc, Repair(p)
    PROVE  DecidedInv'
<1>1. CASE tasksRepairStateCommand(p)
  BY <1>1, AskDecided DEF tasksRepairStateCommand
<1>2. CASE End(p)
  BY <1>2, DecidedEnd
<1>3. CASE planRepairs(p) /\ ~End(p)
  <2>. DEFINE plan == doctorHubTaskState(task, op[p].arg = "dirty")
              o == [op[p] EXCEPT !.pc = "repair", !.snap = task, !.clean = TRUE, !.plan = plan]
  <2>1. op'[p] = o /\ OthersWait(p)
    BY <1>3, BecomesFacts DEF planRepairs
  <2>2. o.pc = "repair" /\ o.snap = task /\ o.plan = plan
    BY OpType DEF Ops
  <2>3. OneKind(plan, task)
    BY OpType, DoctorDecides DEF BoardInv
  <2>. HIDE DEF o, plan
  <2>4. Decided(o)
    BY <2>2, <2>3 DEF Decided, TransitionSteps
  <2>. QED
    BY <2>1, <2>4, DecidedMoved
<1>4. CASE repairHubTaskState(p)
  <2>. DEFINE Entry == HUB_TASK_STATUSES \X (Proc \cup {NoValue})
              plan == op[p].plan
              next == Head(plan)
              o == [op[p] EXCEPT !.plan = Tail(@)]
              patch == [NoMeta EXCEPT !["claim"] = next[2]]
              tr == [to |-> next[1], patch |-> patch, fail |-> NoValue, repl |-> next[2] # NoValue]
  <2>1. /\ op[p].cmd = "repair" /\ op[p].pc = "repair" /\ op[p].plan # <<>>
        /\ Transit(p, o, tr, "repair")
    BY <1>4 DEF repairHubTaskState, Running
  <2>2. plan \in Seq(Entry) /\ plan # <<>>
    BY <2>1, OpType DEF Ops
  <2>3. /\ next \in Entry /\ Tail(plan) \in Seq(Entry) /\ <<next>> \o Tail(plan) = plan
        /\ 1 \in 1..Len(plan) /\ plan[1] = next
    <3>. HIDE DEF Entry, plan
    <3>. QED
      BY <2>2
  <2>4. /\ o \in Ops /\ o.cmd = "repair" /\ o.plan = Tail(plan) /\ o.snap = op[p].snap
    <3>1. op[p] \in Ops
      BY OpType
    <3>2. o = [op[p] EXCEPT !.plan = Tail(plan)]
      BY <3>1 DEF Ops
    <3>. HIDE DEF o, plan
    <3>. QED
      BY <2>1, <2>3, <3>1, <3>2 DEF Ops
  <2>5. patch \in Metas /\ patch["sync_state"] = NoValue /\ patch["claim"] = next[2]
    <3>1. next[2] \in Proc \cup {NoValue}
      BY <2>3
    <3>2. NoMeta \in Metas /\ NoMeta["sync_state"] = NoValue
      BY NoMetaIsMeta, Keys DEF NoMeta
    <3>. HIDE DEF next
    <3>. QED
      BY <3>1, <3>2, PatchesType, PatchState, MetaFacts, Keys
  <2>6. next[1] \in HUB_TASK_STATUSES /\ next = <<next[1], next[2]>>
    BY <2>3
  <2>7. /\ tr \in Requests /\ tr.to = next[1] /\ tr.patch = patch /\ tr.fail = NoValue
    <3>. HIDE DEF next, patch
    <3>. QED
      BY <2>5, <2>6 DEF Requests
  <2>8. OneKind(plan, op[p].snap)
    BY <2>1 DEF DecidedInv, Decided
  <2>9. isCompletedHubStatus(next[1]) \/ ~isCompletedHubStatus(Status(op[p].snap))
    <3>. HIDE DEF next, plan
    <3>. QED
      BY <2>3, <2>8 DEF OneKind
  <2>10. <<<<tr.to, tr.patch["claim"]>>>> \o o.plan = plan
    BY <2>3, <2>4, <2>5, <2>6, <2>7
  <2>11. OneKind(<<<<tr.to, tr.patch["claim"]>>>> \o o.plan, o.snap)
    BY <2>4, <2>8, <2>10
  <2>. HIDE DEF o, tr, patch, next, plan
  <2>. QED
    BY <2>1, <2>4, <2>5, <2>7, <2>9, <2>11, DecidedTransit DEF ReturnSteps
<1>5. CASE FinishRepair(p)
  BY <1>5, DecidedEnd DEF FinishRepair
<1>. QED
  BY <1>1, <1>2, <1>3, <1>4, <1>5 DEF Repair

\* A recovery asks for something only of a task that is not completed.
LEMMA RecoveryDecides ==
    ASSUME NEW t \in Records, NEW tr \in recoverHubTask(t)
    PROVE  /\ ~isCompletedHubStatus(Status(t))
           /\ tr.fail = NoValue /\ tr.patch["sync_state"] = t.meta["sync_state"]
<1>1. t.meta \in Metas
  BY DEF Records
<1>2. /\ [t.meta EXCEPT !["claim"] = NoValue]["sync_state"] = t.meta["sync_state"]
      /\ [t.meta EXCEPT !["done"] = "yes"]["sync_state"] = t.meta["sync_state"]
  BY <1>1, PatchState, Keys DEF Reasons
<1>3. tr \in {Request("waiting_for_merge", t.meta), Request("done", [t.meta EXCEPT !["done"] = "yes"]),
              Request(resolveFailedRecoveryTarget(t.meta), [t.meta EXCEPT !["claim"] = NoValue]),
              Request(Status(t), [t.meta EXCEPT !["claim"] = NoValue])}
  BY DEF recoverHubTask, recoverCloseFailedTask, recoverGenericFailedTask,
         recoverStaleExecutionStatus, releaseStaleClaim
<1>4. \A to, patch : Request(to, patch).fail = NoValue /\ Request(to, patch).patch = patch
  BY DEF Request
<1>5. tr.fail = NoValue /\ tr.patch["sync_state"] = t.meta["sync_state"]
  <2>1. PICK to, patch : tr = Request(to, patch) /\ patch["sync_state"] = t.meta["sync_state"]
    BY <1>2, <1>3
  <2>. QED
    BY <1>4, <2>1
<1>6. ~isCompletedHubStatus(Status(t))
  <2>. SUFFICES ASSUME Status(t) \in {"done", "wontfix"} PROVE FALSE
    BY DEF isCompletedHubStatus
  <2>1. recoverHubTask(t) = {}
    BY DEF recoverHubTask
  <2>. QED
    BY <2>1
<1>. QED
  BY <1>5, <1>6

LEMMA RecoverDecided ==
    ASSUME BoardInv, DecidedInv, NEW p \in Proc, tasksRecoverCommand(p) \/ recoverLoadedTask(p)
    PROVE  DecidedInv'
<1>1. CASE tasksRecoverCommand(p)
  BY <1>1, AskDecided DEF tasksRecoverCommand
<1>2. CASE End(p)
  BY <1>2, DecidedEnd
<1>3. CASE recoverLoadedTask(p) /\ ~End(p)
  <2>. DEFINE o == [op[p] EXCEPT !.snap = task]
  <2>1. PICK tr \in recoverHubTask(task) : Transit(p, o, tr, "idle")
    BY <1>3 DEF recoverLoadedTask
  <2>2. o \in Ops /\ o.cmd = "recover" /\ o.snap = task
    BY <1>3, OpType DEF recoverLoadedTask, Running, Ops
  <2>3. tr \in Requests
    BY OpType, RecoveryTypes
  <2>4. /\ ~isCompletedHubStatus(Status(task))
        /\ tr.fail = NoValue /\ tr.patch["sync_state"] = task.meta["sync_state"]
    BY OpType, RecoveryDecides
  <2>. HIDE DEF o
  <2>. QED
    BY <2>1, <2>2, <2>3, <2>4, DecidedTransit
<1>. QED
  BY <1>1, <1>2, <1>3

LEMMA TriageDecided ==
    ASSUME BoardInv, DecidedInv, NEW p \in Proc, Triage(p)
    PROVE  DecidedInv'
<1>1. CASE TriageStart(p)
  <2>. DEFINE o == [[Idle EXCEPT !.pc = "triage", !.snap = task] EXCEPT !.cmd = "triage"]
  <2>1. op'[p] = o /\ OthersWait(p) /\ Status(task) \in {"inbox", "needs_info"}
    BY <1>1, BecomesFacts DEF TriageStart, Start
  <2>2. o.pc = "triage" /\ o.snap = task /\ o.cmd = "triage"
    BY IdleType DEF Ops
  <2>. HIDE DEF o
  <2>3. Decided(o)
    BY <2>1, <2>2 DEF Decided, TransitionSteps, isCompletedHubStatus
  <2>. QED
    BY <2>1, <2>3, DecidedMoved
<1>2. CASE applyWontfixOutcome(p) \/ applyNonWontfixOutcome(p)
  <2>1. /\ op[p].cmd = "triage" /\ ~isCompletedHubStatus(Status(op[p].snap))
        /\ \E to \in {"wontfix", "needs_info", "ready_for_agent"}, v \in {"yes", NoValue} :
             Transit(p, [op[p] EXCEPT !.arg = to],
               Request(to, [op[p].snap.meta EXCEPT !["wontfix"] = v]), "labels")
    BY <1>2 DEF applyWontfixOutcome, applyNonWontfixOutcome, Running, DecidedInv, Decided
  <2>2. PICK to \in {"wontfix", "needs_info", "ready_for_agent"}, v \in {"yes", NoValue} :
             Transit(p, [op[p] EXCEPT !.arg = to],
               Request(to, [op[p].snap.meta EXCEPT !["wontfix"] = v]), "labels")
    BY <2>1
  <2>. DEFINE o == [op[p] EXCEPT !.arg = to]
              patch == [op[p].snap.meta EXCEPT !["wontfix"] = v]
              tr == Request(to, patch)
  <2>3. o \in Ops /\ o.cmd = "triage" /\ o.snap = op[p].snap
    BY <2>1, OpType DEF Ops, Arguments
  <2>4. patch \in Metas /\ patch["sync_state"] = op[p].snap.meta["sync_state"]
    <3>1. "wontfix" \in Reasons \ {"sync_conflict"} /\ "wontfix" \in MetaKey \ {"sync_state"}
      BY Keys DEF Reasons
    <3>. QED
      BY <3>1, OpType, PatchesType, PatchState
  <2>5. tr \in Requests
    <3>1. to \in HUB_TASK_STATUSES
      BY DEF HUB_TASK_STATUSES
    <3>. HIDE DEF patch
    <3>. QED
      BY <2>4, <3>1, RequestType
  <2>6. tr.fail = NoValue /\ tr.patch = patch
    BY DEF Request
  <2>7. Transit(p, o, tr, "labels")
    BY <2>2
  <2>. HIDE DEF o, tr, patch
  <2>. QED
    BY <2>1, <2>3, <2>4, <2>5, <2>6, <2>7, DecidedTransit DEF ReturnSteps
<1>3. CASE ClearTriageLabels(p)
  BY <1>3, DecidedEnd DEF ClearTriageLabels
<1>. QED
  BY <1>1, <1>2, <1>3 DEF Triage

LEMMA DecidedSteps ==
    ASSUME BoardInv, DecidedInv, BoardNext
    PROVE  DecidedInv'
<1>1. Decided(Idle)
  BY DEF Decided, Idle, TransitionSteps, NoValue
<1>2. ASSUME NEW p \in Proc, tasksDeleteCommand(p) \/ deleteHubTasks(p) \/ Cancel(p) PROVE DecidedInv'
  BY <1>2, AskDecided, DecidedEnd DEF tasksDeleteCommand, deleteHubTasks, Cancel
<1>3. ASSUME NEW p \in Proc, Stop(p) PROVE DecidedInv'
  <2>1. \A q \in Proc : op'[q] \in {op[q], Idle}
    BY <1>3 DEF Stop
  <2>. QED
    BY <1>1, <2>1 DEF DecidedInv
<1>4. CASE EditIssue
  BY <1>4 DEF EditIssue, DecidedInv
<1>5. CASE AddStatusLabel
  <2>1. ASSUME NEW q \in Proc PROVE Decided(op'[q])
    <3>1. op'[q] = Idle \/ op'[q] = [op[q] EXCEPT !.clean = FALSE]
      BY <1>5 DEF AddStatusLabel
    <3>2. CASE op'[q] = [op[q] EXCEPT !.clean = FALSE]
      <4>1. /\ op'[q].pc = op[q].pc /\ op'[q].cmd = op[q].cmd /\ op'[q].snap = op[q].snap
            /\ op'[q].tr = op[q].tr /\ op'[q].plan = op[q].plan
        BY <3>2, OpType DEF Ops
      <4>2. Decided(op[q])
        BY DEF DecidedInv
      <4>. QED
        BY <4>1, <4>2 DEF Decided, Fits, Pending
    <3>. QED
      BY <1>1, <3>1, <3>2
  <2>. QED
    BY <2>1 DEF DecidedInv
<1>. QED
  BY <1>2, <1>3, <1>4, <1>5, TransitionDecided, RunDecided, SyncDecided, ResolveDecided,
     RepairDecided, RecoverDecided, TriageDecided DEF BoardNext

\* What a command has decided fits the record it decided from, whoever wrote since
\* (transitionHubTaskStatus).
THEOREM DecidedHolds == BoardSpec => [](BoardInv /\ DecidedInv)
<1>1. BoardInit => DecidedInv
  BY DEF BoardInit, DecidedInv, Decided, Idle, TransitionSteps, NoValue
<1>2. BoardInv /\ DecidedInv /\ UNCHANGED boardVars => DecidedInv'
  BY DEF boardVars, DecidedInv
<1>3. BoardInv /\ DecidedInv /\ [BoardNext]_boardVars => DecidedInv'
  BY <1>2, DecidedSteps
<1>. QED
  BY <1>1, <1>3, BoardInvHolds, PTL DEF BoardSpec

-----------------------------------------------------------------------------
(* The status of a record *)

Barred == {"blocked", "needs_info", "failed"}

\* The first reason that is present decides.
LEMMA ReasonFirst ==
    ASSUME NEW m \in Metas
    PROVE  LET reason == resolveStatusFromMetadataReasons(m)
           IN /\ reason = NoValue => \A k \in Reasons : m[k] = NoValue
              /\ reason # NoValue => m[reason] # NoValue
              /\ reason \in Barred <=> \E k \in Barred : m[k] # NoValue
              /\ reason \notin Barred /\ m["sync_conflict"] # NoValue => reason = "sync_conflict"
<1>. DEFINE rules == METADATA_STATUS_RULES
            present == {i \in DOMAIN rules : m[rules[i]] # NoValue}
            first == Min(present)
            reason == resolveStatusFromMetadataReasons(m)
<1>1. /\ DOMAIN rules = 1..6
      /\ rules[1] = "blocked" /\ rules[2] = "needs_info" /\ rules[3] = "failed"
      /\ rules[4] = "sync_conflict" /\ rules[5] = "wontfix" /\ rules[6] = "done"
  BY DEF METADATA_STATUS_RULES
<1>2. present \subseteq 1..6 /\ \A i \in 1..6 : i \in present <=> m[rules[i]] # NoValue
  BY <1>1
<1>3. present # {} => first \in present /\ \A y \in present : first <= y
  <2>. SUFFICES ASSUME present # {} PROVE first \in present /\ \A y \in present : first <= y
    OBVIOUS
  <2>1. \E x \in present : \A y \in present : x <= y
    BY <1>2, LeastNat
  <2>. QED
    BY <2>1 DEF Min
<1>4. reason = IF present = {} THEN NoValue ELSE rules[first]
  BY DEF resolveStatusFromMetadataReasons
<1>. HIDE DEF rules, present, first, reason
<1>5. CASE present = {}
  BY <1>1, <1>2, <1>4, <1>5 DEF Reasons, Barred, NoValue, reason
<1>6. CASE present # {}
  <2>1. first \in 1..6 /\ reason = rules[first] /\ m[reason] # NoValue
    BY <1>2, <1>3, <1>4, <1>6
  <2>2. \A i \in 1..6 : m[rules[i]] # NoValue => first <= i
    BY <1>2, <1>3, <1>6
  <2>3. reason # NoValue
    BY <1>1, <2>1 DEF NoValue
  <2>4. /\ m["blocked"] # NoValue => first <= 1
        /\ m["needs_info"] # NoValue => first <= 2
        /\ m["failed"] # NoValue => first <= 3
        /\ m["sync_conflict"] # NoValue => first <= 4
    BY <1>1, <2>2
  <2>5. reason \in Barred <=> first <= 3
    BY <1>1, <2>1 DEF Barred
  <2>6. reason \in Barred <=> \E k \in Barred : m[k] # NoValue
    BY <2>1, <2>4, <2>5 DEF Barred
  <2>7. reason \notin Barred /\ m["sync_conflict"] # NoValue => reason = "sync_conflict"
    BY <1>1, <2>1, <2>4, <2>5
  <2>. QED
    BY <2>1, <2>3, <2>6, <2>7 DEF reason
<1>. QED
  BY <1>5, <1>6

\* Metadata with the same reasons has the same first one.
LEMMA ReasonAgrees ==
    ASSUME NEW m, NEW n, \A k \in Reasons : m[k] = n[k]
    PROVE  resolveStatusFromMetadataReasons(m) = resolveStatusFromMetadataReasons(n)
<1>1. \A i \in DOMAIN METADATA_STATUS_RULES : METADATA_STATUS_RULES[i] \in Reasons
  BY Keys DEF Range
<1>2. {i \in DOMAIN METADATA_STATUS_RULES : m[METADATA_STATUS_RULES[i]] # NoValue} =
        {i \in DOMAIN METADATA_STATUS_RULES : n[METADATA_STATUS_RULES[i]] # NoValue}
  BY <1>1
<1>. QED
  BY <1>2 DEF resolveStatusFromMetadataReasons

\* What keeps the status of a record with a completed label completed.
Closing(m) ==
    /\ \A k \in Barred : m[k] = NoValue
    /\ m["sync_conflict"] # NoValue => isCompletedHubStatus(m["hubStatus"])

LEMMA CompletedShape ==
    ASSUME NEW t \in Records, isCompletedHubStatus(Status(t))
    PROVE  Closing(t.meta)
<1>. DEFINE reason == resolveStatusFromMetadataReasons(t.meta)
<1>1. t.meta \in Metas
  BY DEF Records
<1>2. /\ reason \in Barred <=> \E k \in Barred : t.meta[k] # NoValue
      /\ reason \notin Barred /\ t.meta["sync_conflict"] # NoValue => reason = "sync_conflict"
  BY <1>1, ReasonFirst
<1>. HIDE DEF reason
<1>3. /\ reason # NoValue =>
            Status(t) = IF reason = "sync_conflict" /\ isCompletedHubStatus(t.meta["hubStatus"])
                        THEN t.meta["hubStatus"] ELSE reason
  BY DEF Status, resolveStatusFromTaskShape, reason
<1>4. reason \notin Barred
  BY <1>3 DEF Barred, isCompletedHubStatus, NoValue
<1>5. reason = "sync_conflict" => isCompletedHubStatus(t.meta["hubStatus"])
  BY <1>3 DEF isCompletedHubStatus, NoValue
<1>. QED
  BY <1>2, <1>4, <1>5 DEF Closing

LEMMA ShapeCompletes ==
    ASSUME NEW t, t.meta \in Metas, Closing(t.meta),
           isCompletedHubStatus(resolveStatusFromLabels(t.labels))
    PROVE  isCompletedHubStatus(Status(t))
<1>. DEFINE reason == resolveStatusFromMetadataReasons(t.meta)
            label == resolveStatusFromLabels(t.labels)
<1>1. /\ reason \in Barred <=> \E k \in Barred : t.meta[k] # NoValue
      /\ reason # NoValue => t.meta[reason] # NoValue
      /\ reason \in Reasons \cup {NoValue}
  BY ReasonFirst, ReasonStatus
<1>2. Status(t) = IF reason = "sync_conflict" /\ isCompletedHubStatus(t.meta["hubStatus"])
                    THEN t.meta["hubStatus"]
                  ELSE IF reason # NoValue THEN reason ELSE label
  BY DEF Status, resolveStatusFromTaskShape, LABEL_AUTHORITATIVE_STATUSES, isCompletedHubStatus
<1>. HIDE DEF reason
<1>3. reason \in {"sync_conflict", "wontfix", "done", NoValue}
  BY <1>1 DEF Closing, Barred, Reasons
<1>4. reason = "sync_conflict" => isCompletedHubStatus(t.meta["hubStatus"])
  BY <1>1 DEF Closing, NoValue
<1>. HIDE DEF label
<1>. QED
  BY <1>2, <1>3, <1>4 DEF isCompletedHubStatus, NoValue, label

-----------------------------------------------------------------------------
(* Who writes the record *)

\* The steps that change the record of a task that was there and stays there.
LEMMA Writer ==
    ASSUME BoardInv, [BoardNext]_boardVars, NEW p \in Proc, Writes(p)
    PROVE  \/ refreshLinkedGithubIssue(p) \/ updateHubTaskSyncState(p)
           \/ UpdateRecord(p) \/ UnsetKeys(p) \/ ClearTriageLabels(p) \/ FinishResolve(p)
<1>1. task' # task /\ task.exists /\ task'.exists /\ op'[p].pc # op[p].pc
  BY DEF Writes
<1>2. BoardNext
  BY <1>1 DEF boardVars
<1>3. ~EditIssue /\ \A q \in Proc : ~Stop(q)
  BY <1>1 DEF EditIssue, Stop
<1>4. ~AddStatusLabel
  <2>. SUFFICES ASSUME AddStatusLabel PROVE FALSE
    OBVIOUS
  <2>1. op'[p] = IF op[p] = Idle THEN Idle ELSE [op[p] EXCEPT !.clean = FALSE]
    BY DEF AddStatusLabel
  <2>2. op'[p].pc = op[p].pc
    BY <2>1, OpType DEF Ops
  <2>. QED
    BY <1>1, <2>2
<1>5. PICK q \in Proc :
        \/ Transition(q) \/ Run(q) \/ Sync(q) \/ Resolve(q) \/ Repair(q)
        \/ tasksRecoverCommand(q) \/ recoverLoadedTask(q) \/ Triage(q)
        \/ tasksDeleteCommand(q) \/ deleteHubTasks(q) \/ Cancel(q)
  BY <1>2, <1>3, <1>4 DEF BoardNext
<1>6. ~Run(q)
  BY <1>1 DEF Run, RunStart, claimHubTask, recordImplementationSuccess, recordImplementationFailure,
    enterMergePhase, recordMergePhaseFailure, recordRepairExhaustion, revertTaskToWaitingForMerge,
    awaitRequiredPublicationBeforeClose, recordTaskClosure, recordCloseFailure
<1>7. ~Repair(q) /\ ~tasksRecoverCommand(q) /\ ~recoverLoadedTask(q) /\ ~tasksDeleteCommand(q)
      /\ ~Cancel(q)
  BY <1>1 DEF Repair, tasksRepairStateCommand, planRepairs, repairHubTaskState, FinishRepair,
    tasksRecoverCommand, recoverLoadedTask, tasksDeleteCommand, Cancel, Ask
<1>8. ~deleteHubTasks(q)
  BY <1>1 DEF deleteHubTasks, DeletedTask, NoTask
<1>9. /\ Transition(q) => UpdateRecord(q) \/ UnsetKeys(q)
      /\ Resolve(q) => FinishResolve(q)
      /\ Triage(q) => ClearTriageLabels(q)
  BY <1>1 DEF Transition, LoadForTransition, CheckTransition, Resolve, tasksResolveCommand, Ask,
    resolveHubTaskSyncConflict, applyHubTaskConflictResolution, Triage, TriageStart,
    applyWontfixOutcome, applyNonWontfixOutcome
<1>10. Sync(q) => refreshLinkedGithubIssue(q) \/ updateHubTaskSyncState(q)
  <2>1. ~ImportIssue(q)
    BY <1>1 DEF ImportIssue, NoTask
  <2>. QED
    BY <1>1, <2>1 DEF Sync, runHubTaskSyncCommand, Ask, syncHubTasksWithGithub, pullGithubIssues,
      recordHubTaskSyncConflict, pushHubTasks, pushHubTaskToGithub
<1>11. \/ refreshLinkedGithubIssue(q) \/ updateHubTaskSyncState(q)
       \/ UpdateRecord(q) \/ UnsetKeys(q) \/ ClearTriageLabels(q) \/ FinishResolve(q)
  BY <1>5, <1>6, <1>7, <1>8, <1>9, <1>10
<1>12. \E o : Becomes(q, o)
  BY <1>11 DEF refreshLinkedGithubIssue, WriteFromPull, AfterPull, updateHubTaskSyncState, UpdateRecord,
    UnsetKeys, ClearTriageLabels, FinishResolve, End
<1>13. q = p
  <2>. SUFFICES ASSUME q # p PROVE FALSE
    OBVIOUS
  <2>1. OthersWait(q)
    BY <1>12, BecomesFacts
  <2>2. op'[p] = op[p] \/ op'[p] = [op[p] EXCEPT !.clean = FALSE]
    BY <2>1 DEF OthersWait
  <2>3. op'[p].pc = op[p].pc
    BY <2>2, OpType DEF Ops
  <2>. QED
    BY <1>1, <2>3
<1>. QED
  BY <1>11, <1>13

\* A write of synchronisation.
LEMMA SyncWriter ==
    ASSUME BoardInv, NEW p \in Proc, Writes(p), refreshLinkedGithubIssue(p) \/ updateHubTaskSyncState(p)
    PROVE  \E at \in Range(Stamp) \cup {NoValue}, state \in SyncStates \cup {NoValue} :
             task' = setHubTaskSyncMetadata(task, op[p].snap, Patch(at, state))
<1>1. task.exists /\ task' # task
  BY DEF Writes
<1>2. CASE updateHubTaskSyncState(p)
  <2>1. /\ op[p].arg \in {"synced", "push_pending"}
        /\ task' = setHubTaskSyncMetadata(task, op[p].snap, Patch(NoValue, op[p].arg))
    BY <1>1, <1>2, OpType DEF updateHubTaskSyncState, Running, Placed
  <2>. QED
    BY <2>1 DEF SyncStates
<1>3. CASE refreshLinkedGithubIssue(p)
  <2>1. op[p].iss.at \in Range(Stamp) \cup {NoValue}
    BY OpType DEF Issues
  <2>2. \/ task' = setHubTaskSyncMetadata(task, op[p].snap, Patch(op[p].iss.at, NoValue))
        \/ task' = setHubTaskSyncMetadata(task, op[p].snap, Patch(op[p].iss.at, "synced"))
    BY <1>1, <1>3 DEF refreshLinkedGithubIssue, WriteFromPull
  <2>. QED
    BY <2>1, <2>2 DEF SyncStates
<1>. QED
  BY <1>2, <1>3

LEMMA SyncWriteMeta ==
    ASSUME NEW m \in Metas, NEW old \in Metas,
           NEW at \in Range(Stamp) \cup {NoValue}, NEW state \in SyncStates \cup {NoValue}
    PROVE  \A k \in Reasons \cup {"hubStatus"} :
             Over(Over(m, old), Patch(at, state))[k] = IF old[k] # NoValue THEN old[k] ELSE m[k]
<1>1. Reasons \cup {"hubStatus"} \subseteq MetaKey \ {"remote_updated_at", "sync_state"}
  BY Keys DEF Reasons
<1>2. \A k \in Reasons \cup {"hubStatus"} : Patch(at, state)[k] = NoValue
  BY <1>1 DEF Patch, NoMeta
<1>. QED
  BY <1>1, <1>2 DEF Over

LEMMA SyncWriteKeeps ==
    ASSUME BoardInv, NEW p \in Proc,
           NEW at \in Range(Stamp) \cup {NoValue}, NEW state \in SyncStates \cup {NoValue},
           task' = setHubTaskSyncMetadata(task, op[p].snap, Patch(at, state))
    PROVE  /\ task'.labels = task.labels
           /\ \A k \in Reasons \cup {"hubStatus"} :
                task'.meta[k] = IF op[p].snap.meta[k] # NoValue THEN op[p].snap.meta[k]
                                ELSE task.meta[k]
<1>1. task \in Records /\ task.meta \in Metas /\ op[p].snap.meta \in Metas
  BY OpType
<1>2. /\ task'.labels = task.labels
      /\ task'.meta = Over(Over(task.meta, op[p].snap.meta), Patch(at, state))
  BY <1>1 DEF setHubTaskSyncMetadata, Records
<1>. DEFINE mine == task.meta
            old == op[p].snap.meta
            new == task'.meta
<1>3. mine \in Metas /\ old \in Metas /\ new = Over(Over(mine, old), Patch(at, state))
  BY <1>1, <1>2
<1>. HIDE DEF mine, old, new
<1>4. \A k \in Reasons \cup {"hubStatus"} :
        Over(Over(mine, old), Patch(at, state))[k] = IF old[k] # NoValue THEN old[k] ELSE mine[k]
  BY <1>3, SyncWriteMeta
<1>5. \A k \in Reasons \cup {"hubStatus"} : new[k] = IF old[k] # NoValue THEN old[k] ELSE mine[k]
  BY <1>3, <1>4
<1>. QED
  BY <1>2, <1>5 DEF mine, old, new

\* The metadata of a transition that completes a task, and of one that takes a conflict away.
LEMMA NextKeeps ==
    ASSUME NEW base \in Metas, NEW tr \in Requests
    PROVE  LET next == NextMetadata(base, tr)
               state == IF tr.patch["sync_state"] # NoValue THEN tr.patch["sync_state"]
                        ELSE base["sync_state"]
           IN /\ isCompletedHubStatus(tr.to) /\ (tr.fail # NoValue => tr.to = "failed") =>
                   \A k \in Barred : next[k] = NoValue
              /\ base["sync_conflict"] # NoValue /\ next["sync_conflict"] = NoValue =>
                   state # "conflict"
<1>. DEFINE over == Over(base, tr.patch)
            merged == [over EXCEPT !["hubStatus"] = tr.to]
            cleared == clearStaleHubStatusMetadata(merged, tr.to)
            next == NextMetadata(base, tr)
            state == IF tr.patch["sync_state"] # NoValue THEN tr.patch["sync_state"]
                     ELSE base["sync_state"]
<1>1. over \in [MetaKey -> MetaValues]
  BY OverIsMeta, MetaFacts DEF Requests
<1>2. {"blocked", "needs_info", "failed", "sync_conflict", "sync_state"} \subseteq MetaKey \ {"hubStatus", "claim"}
  BY Keys DEF Reasons
<1>3. /\ over["sync_state"] = state
      /\ base["sync_conflict"] # NoValue => over["sync_conflict"] # NoValue
  BY <1>2 DEF Over
<1>. HIDE DEF over, state
<1>4. \A k \in MetaKey \ {"hubStatus"} : merged[k] = over[k]
  BY <1>1
<1>. HIDE DEF merged
<1>5. \A k \in MetaKey : cleared[k] =
        IF \/ k \in {"failed", "blocked", "needs_info", "wontfix", "done"} /\ tr.to # k
           \/ k = "sync_conflict" /\ tr.to # k /\ merged["sync_state"] # "conflict"
        THEN NoValue ELSE merged[k]
  BY DEF clearStaleHubStatusMetadata
<1>6. DOMAIN cleared = MetaKey
  BY DEF clearStaleHubStatusMetadata
<1>7. next = [cleared EXCEPT !["claim"] = resolveTransitionClaim(base["claim"], tr), !["failed"] = tr.fail]
  BY DEF NextMetadata, cleared, merged, over
<1>. HIDE DEF cleared, next
<1>8. /\ \A k \in MetaKey \ {"claim", "failed"} : next[k] = cleared[k]
      /\ next["failed"] = tr.fail
  BY <1>2, <1>6, <1>7
<1>9. ASSUME isCompletedHubStatus(tr.to), tr.fail # NoValue => tr.to = "failed"
      PROVE  \A k \in Barred : next[k] = NoValue
  <2>1. tr.to \notin {"blocked", "needs_info", "failed"}
    BY <1>9 DEF isCompletedHubStatus
  <2>2. next["blocked"] = NoValue /\ next["needs_info"] = NoValue
    BY <1>2, <1>5, <1>8, <2>1
  <2>3. next["failed"] = NoValue
    BY <1>8, <1>9, <2>1
  <2>. QED
    BY <2>2, <2>3 DEF Barred
<1>10. ASSUME base["sync_conflict"] # NoValue, next["sync_conflict"] = NoValue
       PROVE  state # "conflict"
  <2>1. merged["sync_conflict"] # NoValue /\ merged["sync_state"] = state
    BY <1>2, <1>3, <1>4, <1>10
  <2>2. cleared["sync_conflict"] = NoValue
    BY <1>2, <1>8, <1>10
  <2>. QED
    BY <1>2, <1>5, <2>1, <2>2
<1>. QED
  BY <1>9, <1>10 DEF next, state

-----------------------------------------------------------------------------
(* What no command undoes *)

\* A write of synchronisation keeps a status of execution or of completion.
LEMMA SyncSpares ==
    ASSUME BoardInv, [BoardNext]_boardVars
    PROVE  SyncSparesExecution
<1>. SUFFICES ASSUME NEW p \in Proc, Writes(p), op[p].cmd = "sync", op[p].pc \in {"refresh", "pushed"},
                     Status(task) \in LABEL_AUTHORITATIVE_STATUSES, Rests(task),
                     resolveStatusFromMetadataReasons(op[p].snap.meta) = NoValue,
                     ~hasHubTaskSyncConflict(task)
              PROVE  Status(task') = Status(task)
  BY DEF SyncSparesExecution
<1>. DEFINE reason == resolveStatusFromMetadataReasons(task.meta)
            label == resolveStatusFromLabels(task.labels)
<1>1. refreshLinkedGithubIssue(p) \/ updateHubTaskSyncState(p)
  BY Writer DEF UpdateRecord, UnsetKeys, ClearTriageLabels, FinishResolve, Running
<1>2. PICK at \in Range(Stamp) \cup {NoValue}, state \in SyncStates \cup {NoValue} :
        task' = setHubTaskSyncMetadata(task, op[p].snap, Patch(at, state))
  BY <1>1, SyncWriter
<1>3. /\ task'.labels = task.labels
      /\ \A k \in Reasons \cup {"hubStatus"} :
           task'.meta[k] = IF op[p].snap.meta[k] # NoValue THEN op[p].snap.meta[k] ELSE task.meta[k]
  BY <1>2, SyncWriteKeeps
<1>4. \A k \in Reasons : op[p].snap.meta[k] = NoValue
  BY OpType, ReasonFirst
<1>5. \A k \in Reasons : task'.meta[k] = task.meta[k]
  BY <1>3, <1>4
<1>6. resolveStatusFromMetadataReasons(task'.meta) = reason
  BY <1>5, ReasonAgrees
<1>7. reason # "sync_conflict"
  BY OpType, ReasonFirst DEF hasHubTaskSyncConflict, NoValue
<1>8. Status(task) = label
  BY DEF Rests
<1>9. reason # NoValue => Status(task) = reason /\ Status(task') = reason
  BY <1>6, <1>7 DEF Status, resolveStatusFromTaskShape
<1>10. resolveStatusFromLabels(task'.labels) = label
  BY <1>3
<1>. HIDE DEF reason, label
<1>11. reason = NoValue => Status(task') = label
  BY <1>6, <1>8, <1>10 DEF Status, resolveStatusFromTaskShape, NoValue
<1>. QED
  BY <1>8, <1>9, <1>11

\* What a record keeps when its labels stay headed as they were.
LEMMA LabelsCleared ==
    ASSUME BoardInv, NEW p \in Proc, ClearTriageLabels(p), task' \in Records,
           isCompletedHubStatus(resolveStatusFromLabels(task.labels))
    PROVE  /\ task'.meta = task.meta
           /\ resolveStatusFromLabels(task'.labels) = resolveStatusFromLabels(task.labels)
<1>. DEFINE clear == {"inbox", "needs_info", "ready_for_agent", "ready_for_human"} \ {op[p].arg}
            kept == Without(task.labels, clear)
<1>1. /\ task'.meta = task.meta
      /\ task'.labels \in {kept, Append(kept, "wontfix")}
  <2>1. task' = [task EXCEPT !.labels =
          IF op[p].arg = "wontfix" /\ "wontfix" \notin Range(kept)
          THEN Append(kept, "wontfix") ELSE kept]
    BY DEF ClearTriageLabels
  <2>. HIDE DEF kept
  <2>. QED
    BY <2>1, OpType DEF Records
<1>2. task.labels \in Seq(HUB_TASK_STATUSES)
  BY OpType DEF Records
<1>3. task.labels # <<>> /\ Head(task.labels) \in {"done", "wontfix"}
  BY DEF resolveStatusFromLabels, isCompletedHubStatus, NoValue
<1>4. /\ kept \in Seq(HUB_TASK_STATUSES) /\ kept # <<>> /\ Head(kept) = Head(task.labels)
  <2>1. Head(task.labels) \notin clear
    BY <1>3
  <2>. HIDE DEF clear
  <2>. QED
    BY <1>2, <1>3, <2>1, WithoutType
<1>. HIDE DEF kept
<1>5. task'.labels # <<>> /\ Head(task'.labels) = Head(task.labels)
  <2>1. "wontfix" \in HUB_TASK_STATUSES
    BY DEF HUB_TASK_STATUSES
  <2>. QED
    BY <1>1, <1>4, <2>1
<1>. QED
  BY <1>1, <1>3, <1>5 DEF resolveStatusFromLabels

\* No command but a resolution or a run reopens a completed task.
LEMMA CompletedStays ==
    ASSUME BoardInv, DecidedInv, [BoardNext]_boardVars, BoardInv'
    PROVE  CompletedStaysCompleted
<1>. SUFFICES ASSUME NEW p \in Proc, Writes(p), op[p].cmd \notin {"resolve", "run"},
                     isCompletedHubStatus(Status(task)),
                     isCompletedHubStatus(resolveStatusFromLabels(task.labels)),
                     \A t \in LastRead(p) :
                       isCompletedHubStatus(Status(t)) /\ isCompletedHubStatus(t.meta["hubStatus"])
              PROVE  isCompletedHubStatus(Status(task'))
  BY DEF CompletedStaysCompleted
<1>1. task' \in Records /\ task'.meta \in Metas
  BY DEF BoardInv, BoardTypes, Stored, Records
<1>2. Closing(task.meta)
  BY OpType, CompletedShape
<1>3. /\ isCompletedHubStatus(Status(op[p].snap)) /\ isCompletedHubStatus(op[p].snap.meta["hubStatus"])
      /\ Closing(op[p].snap.meta)
  BY OpType, CompletedShape DEF LastRead
<1>4. {"blocked", "needs_info", "failed", "sync_conflict", "hubStatus"} \subseteq MetaKey
      /\ Barred \cup {"sync_conflict"} \subseteq Reasons
  BY Keys DEF Reasons, Barred
<1>5. ~isCompletedHubStatus(NoValue)
  BY DEF isCompletedHubStatus, NoValue
<1>6. CASE refreshLinkedGithubIssue(p) \/ updateHubTaskSyncState(p)
  <2>1. PICK at \in Range(Stamp) \cup {NoValue}, state \in SyncStates \cup {NoValue} :
          task' = setHubTaskSyncMetadata(task, op[p].snap, Patch(at, state))
    BY <1>6, SyncWriter
  <2>2. task'.labels = task.labels
    BY <2>1, SyncWriteKeeps
  <2>3. \A k \in Reasons \cup {"hubStatus"} :
          task'.meta[k] = IF op[p].snap.meta[k] # NoValue THEN op[p].snap.meta[k] ELSE task.meta[k]
    BY <2>1, SyncWriteKeeps
  <2>4. isCompletedHubStatus(task'.meta["hubStatus"])
    BY <1>3, <1>5, <2>3
  <2>5. \A k \in Barred : task'.meta[k] = NoValue
    BY <1>2, <1>3, <1>4, <2>3 DEF Closing
  <2>6. Closing(task'.meta)
    BY <2>4, <2>5 DEF Closing
  <2>. QED
    BY <1>1, <2>2, <2>6, ShapeCompletes
<1>7. CASE UpdateRecord(p)
  <2>. DEFINE tr == op[p].tr
              next == NextMetadata(op[p].base.meta, tr)
  <2>1. op[p].pc = "t_update" /\ task' = UpdatedRecord(task, op[p].base, tr)
    BY <1>7 DEF UpdateRecord, Writes
  <2>2. isCompletedHubStatus(tr.to) /\ (tr.fail # NoValue => tr.to = "failed")
    BY <1>3, <2>1 DEF DecidedInv, Decided, Fits, TransitionSteps
  <2>3. task'.labels = <<tr.to>> /\ task'.meta = Over(task.meta, next)
    BY <2>1, OpType, UpdatedIsRecord
  <2>4. next["hubStatus"] = tr.to
    BY OpType, NextMeta
  <2>5. \A k \in Barred : next[k] = NoValue
    BY <2>2, OpType, NextKeeps
  <2>. HIDE DEF next
  <2>6. task'.meta["hubStatus"] = tr.to
    BY <1>4, <1>5, <2>2, <2>3, <2>4 DEF Over
  <2>7. \A k \in Barred : task'.meta[k] = NoValue
    BY <1>2, <1>4, <2>3, <2>5, Keys DEF Over, Closing
  <2>8. Closing(task'.meta)
    BY <2>2, <2>6, <2>7 DEF Closing
  <2>9. resolveStatusFromLabels(task'.labels) = tr.to
    BY <2>3 DEF resolveStatusFromLabels
  <2>. QED
    BY <1>1, <2>2, <2>8, <2>9, ShapeCompletes
<1>8. CASE UnsetKeys(p)
  <2>. DEFINE next == NextMetadata(op[p].base.meta, op[p].tr)
              gone == removedMetadataKeys(op[p].base.meta, next)
  <2>1. task' = [task EXCEPT !.meta = [k \in MetaKey |-> IF k \in gone THEN NoValue ELSE @[k]]]
    BY <1>8 DEF UnsetKeys, Writes
  <2>2. "hubStatus" \notin gone
    <3>1. next["hubStatus"] = op[p].tr.to /\ op[p].tr.to \in HUB_TASK_STATUSES
      BY OpType, NextMeta DEF Requests
    <3>2. NoValue \notin HUB_TASK_STATUSES
      BY DEF NoValue, HUB_TASK_STATUSES
    <3>. HIDE DEF next
    <3>. QED
      BY <3>1, <3>2 DEF removedMetadataKeys
  <2>. HIDE DEF next, gone
  <2>3. /\ task'.labels = task.labels
        /\ \A k \in MetaKey : task'.meta[k] = IF k \in gone THEN NoValue ELSE task.meta[k]
    BY <2>1, OpType DEF Records
  <2>4. Closing(task'.meta)
    BY <1>2, <1>4, <2>2, <2>3, Keys DEF Closing
  <2>. QED
    BY <1>1, <2>3, <2>4, ShapeCompletes
<1>9. CASE ClearTriageLabels(p)
  <2>1. task'.meta = task.meta /\ resolveStatusFromLabels(task'.labels) = resolveStatusFromLabels(task.labels)
    BY <1>1, <1>9, LabelsCleared
  <2>. QED
    BY <1>1, <1>2, <2>1, ShapeCompletes
<1>10. ~FinishResolve(p)
  BY DEF FinishResolve, Running
<1>. QED
  BY <1>6, <1>7, <1>8, <1>9, <1>10, Writer

\* No command but a resolution takes the reason of a conflict away that it has read.
LEMMA ConflictsStay ==
    ASSUME BoardInv, DecidedInv, [BoardNext]_boardVars
    PROVE  ConflictStays
<1>. SUFFICES ASSUME NEW p \in Proc, Writes(p), op[p].cmd # "resolve",
                     task.meta["sync_conflict"] # NoValue, task'.meta["sync_conflict"] = NoValue
              PROVE  \E t \in LastRead(p) : t.meta["sync_state"] # "conflict"
  BY DEF ConflictStays
<1>1. "sync_conflict" \in MetaKey /\ "sync_conflict" \in Reasons
  BY Keys DEF Reasons
<1>2. ~(refreshLinkedGithubIssue(p) \/ updateHubTaskSyncState(p))
  <2>. SUFFICES ASSUME refreshLinkedGithubIssue(p) \/ updateHubTaskSyncState(p) PROVE FALSE
    OBVIOUS
  <2>1. PICK at \in Range(Stamp) \cup {NoValue}, state \in SyncStates \cup {NoValue} :
          task' = setHubTaskSyncMetadata(task, op[p].snap, Patch(at, state))
    BY SyncWriter
  <2>2. \A k \in Reasons \cup {"hubStatus"} :
          task'.meta[k] = IF op[p].snap.meta[k] # NoValue THEN op[p].snap.meta[k] ELSE task.meta[k]
    BY <2>1, SyncWriteKeeps
  <2>. QED
    BY <1>1, <2>2
<1>3. ~UpdateRecord(p)
  <2>. SUFFICES ASSUME UpdateRecord(p) PROVE FALSE
    OBVIOUS
  <2>1. task' = UpdatedRecord(task, op[p].base, op[p].tr)
    BY DEF UpdateRecord, Writes
  <2>2. task'.meta = Over(task.meta, NextMetadata(op[p].base.meta, op[p].tr))
    BY <2>1, OpType, UpdatedIsRecord
  <2>. QED
    BY <1>1, <2>2 DEF Over
<1>4. ~ClearTriageLabels(p)
  <2>. SUFFICES ASSUME ClearTriageLabels(p) PROVE FALSE
    OBVIOUS
  <2>1. task'.meta = task.meta
    BY OpType DEF ClearTriageLabels, Records
  <2>. QED
    BY <2>1
<1>5. ~FinishResolve(p)
  BY DEF FinishResolve, Running
<1>6. CASE UnsetKeys(p)
  <2>. DEFINE base == op[p].base
              tr == op[p].tr
              next == NextMetadata(base.meta, tr)
              gone == removedMetadataKeys(base.meta, next)
  <2>1. /\ op[p].pc = "t_unset"
        /\ task' = [task EXCEPT !.meta = [k \in MetaKey |-> IF k \in gone THEN NoValue ELSE @[k]]]
    BY <1>6 DEF UnsetKeys, Writes
  <2>2. "sync_conflict" \in gone
    <3>. HIDE DEF gone
    <3>1. task'.meta["sync_conflict"] = IF "sync_conflict" \in gone THEN NoValue
                                        ELSE task.meta["sync_conflict"]
      BY <1>1, <2>1, OpType DEF Records
    <3>. QED
      BY <3>1
  <2>3. base.meta["sync_conflict"] # NoValue /\ next["sync_conflict"] = NoValue
    BY <2>2 DEF removedMetadataKeys
  <2>4. (IF tr.patch["sync_state"] # NoValue THEN tr.patch["sync_state"]
         ELSE base.meta["sync_state"]) # "conflict"
    BY <2>3, OpType, NextKeeps
  <2>5. tr.patch["sync_state"] \in {NoValue, "conflict", op[p].snap.meta["sync_state"]}
    BY <2>1 DEF DecidedInv, Decided, Fits, TransitionSteps
  <2>6. op[p].snap \in LastRead(p) /\ base \in LastRead(p)
    BY <2>1 DEF LastRead
  <2>. QED
    BY <2>4, <2>5, <2>6
<1>. QED
  BY <1>2, <1>3, <1>4, <1>5, <1>6, Writer

\* No command undoes what another has recorded on a task since it last read it: a write of
\* synchronisation spares a status of execution (setHubTaskSyncMetadata), a completed task is
\* not reopened (transitionHubTaskStatus), and a conflict stays until it is resolved
\* (clearStaleHubStatusMetadata).
THEOREM OthersAreKept == BoardSpec => OthersKept
<1>1. BoardInv /\ DecidedInv /\ [BoardNext]_boardVars /\ BoardInv' =>
           [SyncSparesExecution /\ CompletedStaysCompleted /\ ConflictStays]_boardVars
  BY SyncSpares, CompletedStays, ConflictsStay
<1>. QED
  BY <1>1, DecidedHolds, PTL DEF BoardSpec, OthersKept

-----------------------------------------------------------------------------
(* TaskBranch: the inductive invariant *)

Adopting == AdoptSteps \cup ReadoptSteps
CommentSteps == {"first", "last", "mark", "failFirst", "failLast", "failMark"}
Ownerships == {None, "created", "existed"}

\* What an adoption takes for landed is in a target.
Sourced == HasTransaction \/ pc \in Adopting => source <= Greater(target[Old], head[Old])

\* An application of notes has read the fingerprints as they are; its comments are on the
\* task as far as it has come.
Commenting ==
    /\ pc \in CommentSteps => log \in Note /\ log \notin applied /\ seen = applied
    /\ pc \in CommentSteps \ {"first", "failFirst"} => log \in begun
    /\ pc \in {"mark", "failMark"} => log \in full

\* Every comment belongs to a fingerprint or to the application at work, unless one was cut
\* short.
Accounted ==
    ~excused =>
        /\ doubled = {}
        /\ \A n \in begun : n \in applied \/ (n = log /\ pc \in CommentSteps \ {"first", "failFirst"})
        /\ \A n \in full : n \in applied \/ (n = log /\ pc \in {"mark", "failMark"})

\* The fingerprints, those a run may put back included, stand for comments.
Backed == applied \subseteq full /\ claimed \subseteq full

\* A branch of the user exists, and no claim says the Hub created it.
UsersKnown ==
    \A t \in users : tip[t] # None /\ owner[t] # "created" /\ cl.owner[t] # "created"

\* What a clean-up is about to delete it may delete.
Planned ==
    \A t \in cl.plan : cl.owner[t] = "created" \/ (cl.owner[t] = None /\ cl.unowned)

CleanupOK ==
    cl \in [at : {"idle", "world", "evaluate", "delete"}, scope : SUBSET Task, unowned : BOOLEAN,
            head : [Task -> 0 .. MaxCommits], owner : [Task -> Ownerships],
            wt : SUBSET Task, lease : SUBSET Task, todo : SUBSET Task, plan : SUBSET Task]

BranchInv ==
    /\ scene \in Scenes
    /\ tip \in [Task -> {None} \cup 0 .. MaxCommits]
    /\ target \in [Task -> 0 .. MaxCommits] /\ head \in [Task -> 0 .. MaxCommits]
    /\ owner \in [Task -> Ownerships] /\ users \subseteq Task
    /\ lease \subseteq Task /\ wt \subseteq Task
    /\ CleanupOK /\ UsersKnown /\ Planned

AdoptionInv ==
    /\ listed \in BOOLEAN /\ journal \in 0 .. Cleaned
    /\ anchor \subseteq {"manifest", "ref", "artifact"} /\ source \in 0 .. MaxCommits
    /\ (journal = Verified => "artifact" \in anchor)
    /\ Sourced

NotesInv ==
    /\ log \in Note \cup {None, Invalid} /\ call \in 0 .. MaxCalls
    /\ snapshots \subseteq {"current", "orphan"}
    /\ applied \subseteq Note /\ claimed \subseteq Note /\ seen \subseteq Note
    /\ begun \subseteq Note /\ full \subseteq begun /\ doubled \subseteq begun /\ excused \in BOOLEAN
    /\ Commenting /\ Accounted /\ Backed /\ NotesReachTask

StepInv ==
    /\ status \in [Task -> {"merging", "ready", "implementing", "waiting", "failed", "done"}]
    /\ pc \in Steps
    /\ crashes \in 0 .. MaxCrashes /\ failures \in 0 .. MaxFailures

IInv == BranchInv /\ AdoptionInv /\ NotesInv /\ StepInv

\* The invariant is enough for what is checked.
LEMMA Enough == IInv => RecordsAreBacked
<1> SUFFICES ASSUME IInv PROVE RecordsAreBacked
  OBVIOUS
<1>1. TypeOK
  BY DEF IInv, BranchInv, AdoptionInv, NotesInv, StepInv, TypeOK, Ownerships
<1>2. AdoptedIsContained
  <2> SUFFICES ASSUME journal >= TargetLanded PROVE source <= Greater(target[Old], head[Old])
    BY DEF AdoptedIsContained
  <2> QED BY DEF IInv, AdoptionInv, Sourced, HasTransaction, TargetLanded
<1> QED BY <1>1, <1>2
        DEF IInv, NotesInv, Accounted, Backed, RecordsAreBacked, CommentedOnce, FingerprintIsBacked

-----------------------------------------------------------------------------
(* What a step leaves alone *)

\* What leaves branches and clean-up alone keeps their invariant.
LEMMA BranchSame ==
    ASSUME BranchInv, UNCHANGED <<scene, branches, cl>>
    PROVE  BranchInv'
BY DEF BranchInv, branches, CleanupOK, UsersKnown, Planned

\* What leaves the notes alone keeps their invariant.
LEMMA NotesSame ==
    ASSUME NotesInv, UNCHANGED notes, failures' = 0 => failures = 0,
           \/ pc' = pc
           \/ pc \notin CommentSteps /\ pc' \notin CommentSteps \cup {"succeeded", "released"}
    PROVE  NotesInv'
BY DEF NotesInv, notes, Commenting, Accounted, Backed, NotesReachTask, CommentSteps

\* The targets contain no less than before.
TargetsGrow == \A t \in Task : target[t] <= target'[t] /\ head[t] <= head'[t]

\* What a target contains it contains from then on.
LEMMA ContainedStays ==
    ASSUME BranchInv, BranchInv', TargetsGrow, NEW n \in 0 .. MaxCommits,
           n <= Greater(target[Old], head[Old])
    PROVE  n <= Greater(target[Old], head[Old])'
<1>1. /\ target[Old] \in Nat /\ head[Old] \in Nat /\ target'[Old] \in Nat /\ head'[Old] \in Nat
      /\ target[Old] <= target'[Old] /\ head[Old] <= head'[Old] /\ n \in Nat
  BY TaskBranchAssumption DEF BranchInv, TargetsGrow, Task
<1> QED BY <1>1 DEF Greater

\* What leaves the adoption alone keeps its invariant.
LEMMA AdoptionSame ==
    ASSUME BranchInv, BranchInv', AdoptionInv, TargetsGrow,
           UNCHANGED adoption, pc' \in Adopting => pc \in Adopting
    PROVE  AdoptionInv'
<1>1. UNCHANGED <<listed, journal, anchor, source>>
  BY DEF adoption
<1>2. Sourced'
  BY <1>1, ContainedStays DEF AdoptionInv, Sourced, HasTransaction
<1> QED BY <1>1, <1>2 DEF AdoptionInv

\* Targets that do not change do not shrink.
LEMMA NoneChanged ==
    ASSUME BranchInv, UNCHANGED <<target, head>>
    PROVE  TargetsGrow
<1>1. \A t \in Task : target[t] \in Nat /\ head[t] \in Nat
  BY TaskBranchAssumption DEF BranchInv
<1> QED BY <1>1 DEF TargetsGrow

-----------------------------------------------------------------------------
(* The initial state *)

\* The invariant holds at the start,
LEMMA InitInv == Init => IInv
<1> SUFFICES ASSUME Init PROVE IInv
  OBVIOUS
<1>1. 0 \in 0 .. MaxCommits /\ 1 \in 0 .. MaxCommits /\ None # 1 /\ None \notin {"created", "existed"}
  BY TaskBranchAssumption
<1>2. BranchInv
  <2>1. tip \in [Task -> {None} \cup 0 .. MaxCommits] /\ owner \in [Task -> Ownerships]
    BY <1>1 DEF Init, Ownerships
  <2>2. target \in [Task -> 0 .. MaxCommits] /\ head \in [Task -> 0 .. MaxCommits]
    BY <1>1 DEF Init
  <2>3. CleanupOK /\ cl.plan = {} /\ cl.owner = [t \in Task |-> None]
    BY <1>1 DEF Init, NoCleanup, CleanupOK, Ownerships
  <2>4. UsersKnown
    BY <1>1, <2>3 DEF Init, UsersKnown
  <2>5. Planned
    BY <2>3 DEF Planned
  <2> QED BY <2>1, <2>2, <2>3, <2>4, <2>5 DEF Init, BranchInv
<1>3. AdoptionInv
  <2>1. pc = "idle" /\ listed = FALSE /\ journal = 0 /\ anchor = {} /\ source = 0
    BY DEF Init
  <2>2. Sourced
    BY <2>1 DEF Sourced, HasTransaction, Adopting, AdoptSteps, ReadoptSteps
  <2>3. journal \in 0 .. Cleaned /\ journal # Verified /\ source \in 0 .. MaxCommits
    BY <1>1, <2>1 DEF Cleaned, Verified
  <2>4. listed \in BOOLEAN /\ anchor \subseteq {"manifest", "ref", "artifact"}
    BY <2>1
  <2> QED BY <2>2, <2>3, <2>4 DEF AdoptionInv
<1>4. NotesInv
  <2>1. /\ pc = "idle" /\ log = None /\ call = 0 /\ snapshots = {} /\ excused = FALSE
        /\ applied = {} /\ claimed = {} /\ seen = {} /\ begun = {} /\ full = {} /\ doubled = {}
    BY DEF Init
  <2>2. Commenting /\ Accounted /\ Backed /\ NotesReachTask
    BY <2>1 DEF Commenting, Accounted, Backed, NotesReachTask, CommentSteps
  <2>3. call \in 0 .. MaxCalls
    BY <2>1, TaskBranchAssumption
  <2>4. log \in Note \cup {None, Invalid} /\ excused \in BOOLEAN
    BY <2>1
  <2>5. /\ snapshots \subseteq {"current", "orphan"}
        /\ applied \subseteq Note /\ claimed \subseteq Note /\ seen \subseteq Note
        /\ begun \subseteq Note /\ full \subseteq begun /\ doubled \subseteq begun
    BY <2>1
  <2> QED BY <2>2, <2>3, <2>4, <2>5 DEF NotesInv
<1>5. StepInv
  BY TaskBranchAssumption DEF Init, StepInv, Steps
<1> QED BY <1>2, <1>3, <1>4, <1>5 DEF IInv

-----------------------------------------------------------------------------
(* The adoption *)

\* The checkpoints of a reconciliation have a highest one.
LEMMA Highest ==
    ASSUME NEW S \in SUBSET (0 .. Cleaned), S # {}
    PROVE  \E r \in S : \A q \in S : q <= r
<1>1. CASE 7 \in S
  BY <1>1 DEF Cleaned
<1>2. CASE 7 \notin S /\ 6 \in S
  BY <1>2 DEF Cleaned
<1>3. CASE 7 \notin S /\ 6 \notin S /\ 5 \in S
  BY <1>3 DEF Cleaned
<1>4. CASE 7 \notin S /\ 6 \notin S /\ 5 \notin S /\ 4 \in S
  BY <1>4 DEF Cleaned
<1>5. CASE 7 \notin S /\ 6 \notin S /\ 5 \notin S /\ 4 \notin S /\ 3 \in S
  BY <1>5 DEF Cleaned
<1>6. CASE 7 \notin S /\ 6 \notin S /\ 5 \notin S /\ 4 \notin S /\ 3 \notin S /\ 2 \in S
  BY <1>6 DEF Cleaned
<1>7. CASE 7 \notin S /\ 6 \notin S /\ 5 \notin S /\ 4 \notin S /\ 3 \notin S /\ 2 \notin S
  <2>1. S \subseteq {0, 1}
    BY <1>7 DEF Cleaned
  <2>2. CASE 1 \in S
    BY <2>1, <2>2
  <2>3. CASE 1 \notin S
    <3>1. S = {0}
      BY <2>1, <2>3
    <3> QED BY <3>1
  <2> QED BY <2>2, <2>3
<1> QED BY <1>1, <1>2, <1>3, <1>4, <1>5, <1>6, <1>7

\* A step of the adoption goes on in it, or ends it.
AdoptGoes ==
    /\ pc \notin CommentSteps
    /\ pc' = pc \/ pc' \in Adopting \cup {"reconcile", "rereconcile", "select", "idle"}

\* What a step of an adoption has to show.
LEMMA AdoptStep ==
    ASSUME IInv, AdoptGoes, UNCHANGED <<scene, branches, notes, crashes, failures, cl>>,
           status' = status \/ status' = [status EXCEPT ![Old] = "done"],
           AdoptionInv'
    PROVE  IInv'
<1>1. BranchInv'
  BY BranchSame DEF IInv
<1>2. NotesInv'
  BY NotesSame DEF IInv, AdoptGoes, Adopting, AdoptSteps, ReadoptSteps, CommentSteps
<1>3. StepInv'
  <2>1. pc' \in Steps
    BY DEF IInv, StepInv, AdoptGoes, Adopting, Steps
  <2> QED BY <2>1 DEF IInv, StepInv
<1> QED BY <1>1, <1>2, <1>3 DEF IInv

\* The steps of an adoption keep the invariant.
LEMMA AdoptKeeps == ASSUME IInv, Adopt PROVE IInv'
<1>0. /\ UNCHANGED <<target, head>> /\ TargetsGrow /\ BranchInv /\ AdoptionInv
      /\ UNCHANGED <<scene, branches, notes, crashes, failures, cl>>
  <2>1. UNCHANGED <<scene, branches, notes, crashes, failures, cl>>
    BY DEF Adopt, Classify, AppendOpening, Persist, AppendLanded, CloseOld, ReconcileAdopted
  <2> QED BY <2>1, NoneChanged DEF branches, IInv
<1>1. CASE Classify
  <2>1. pc \in {"adopt", "readopt"} /\ UNCHANGED <<status, listed, journal, anchor>>
    BY <1>1 DEF Classify, Reconciling
  <2>2. CASE /\ ~HasTransaction /\ tip[Old] # None /\ IsContained
             /\ source' = tip[Old] /\ pc' \in {"open", "reopen"}
    <3>1. tip[Old] \in 0 .. MaxCommits /\ tip[Old] \in Nat
      BY <1>0, <2>2, TaskBranchAssumption DEF BranchInv, Task
    <3>2. target[Old] \in Nat /\ head[Old] \in Nat
      BY <1>0, TaskBranchAssumption DEF BranchInv, Task
    <3>3. source' <= Greater(target[Old], head[Old])
      BY <2>2, <3>1, <3>2 DEF IsContained, Greater
    <3>4. Sourced'
      BY <1>0, <3>3 DEF Sourced, Greater
    <3>5. AdoptionInv'
      BY <1>0, <2>1, <2>2, <3>1, <3>4 DEF AdoptionInv
    <3> QED BY <1>0, <2>1, <2>2, <3>5, AdoptStep
            DEF AdoptGoes, CommentSteps, Adopting, AdoptSteps, ReadoptSteps
  <2>3. CASE UNCHANGED source /\ pc' \in {"reconcile", "rereconcile"}
    <3>1. Sourced'
      BY <1>0, <2>1, <2>3
         DEF AdoptionInv, Sourced, HasTransaction, Greater, Adopting, AdoptSteps, ReadoptSteps
    <3>2. AdoptionInv'
      BY <1>0, <2>1, <2>3, <3>1 DEF AdoptionInv
    <3> QED BY <1>0, <2>1, <2>3, <3>2, AdoptStep DEF AdoptGoes, CommentSteps
  <2> QED BY <1>1, <2>2, <2>3 DEF Classify, Goto
<1>2. ASSUME pc \in Adopting, UNCHANGED <<listed, source>>, anchor' \subseteq {"manifest", "ref", "artifact"},
             journal' \in 0 .. Cleaned, journal' = Verified => "artifact" \in anchor',
             status' = status \/ status' = [status EXCEPT ![Old] = "done"],
             pc' = pc \/ pc' \in Adopting \cup {"reconcile", "rereconcile"}
      PROVE  IInv'
  <2>1. Sourced'
    BY <1>0, <1>2 DEF AdoptionInv, Sourced, Greater
  <2>2. AdoptionInv'
    BY <1>0, <1>2, <2>1 DEF AdoptionInv
  <2>3. AdoptGoes
    BY <1>2 DEF AdoptGoes, CommentSteps, Adopting, AdoptSteps, ReadoptSteps
  <2> QED BY <1>0, <1>2, <2>2, <2>3, AdoptStep
<1>3. CASE AppendOpening
  BY <1>0, <1>2, <1>3
     DEF AppendOpening, Step, Then, Goto, Adopting, AdoptSteps, ReadoptSteps, AdoptionInv, Created,
         Cleaned, Verified
<1>4. CASE Persist
  <2>1. pc \in {"anchor", "reanchor"} /\ UNCHANGED <<listed, source, status>>
    BY <1>4 DEF Persist, Step
  <2>2. pc \in Adopting
    BY <2>1 DEF Adopting, AdoptSteps, ReadoptSteps
  <2>3. CASE /\ \E e \in {"manifest", "ref", "artifact"} : anchor' = anchor \cup {e}
             /\ UNCHANGED <<journal, pc>>
    <3>1. anchor' \subseteq {"manifest", "ref", "artifact"} /\ anchor \subseteq anchor'
      BY <1>0, <2>3 DEF AdoptionInv
    <3> QED BY <1>0, <1>2, <2>1, <2>2, <2>3, <3>1 DEF AdoptionInv
  <2>4. CASE /\ "artifact" \in anchor /\ journal' = Verified /\ UNCHANGED anchor
             /\ pc' \in {"land", "reland"}
    BY <1>0, <1>2, <2>1, <2>2, <2>4 DEF AdoptionInv, Adopting, AdoptSteps, ReadoptSteps, Cleaned, Verified
  <2> QED BY <1>4, <2>3, <2>4 DEF Persist, Then, Goto
<1>5. CASE AppendLanded
  BY <1>0, <1>2, <1>5
     DEF AppendLanded, Step, Then, Goto, Adopting, AdoptSteps, ReadoptSteps, AdoptionInv, Cleaned,
         Verified, TargetLanded
<1>6. CASE CloseOld
  BY <1>0, <1>2, <1>6
     DEF CloseOld, Step, Then, Goto, Adopting, AdoptSteps, ReadoptSteps, AdoptionInv, Cleaned,
         Verified, TaskClosed
<1>7. CASE ReconcileAdopted
  <2> DEFINE proven == (IF HasTransaction THEN {Created} ELSE {})
                       \cup (IF "artifact" \in anchor THEN {Verified} ELSE {})
                       \cup (IF HasTransaction /\ status[Old] = "done" THEN {TaskClosed, Cleaned} ELSE {})
             all == proven \cup {journal}
  <2>1. /\ pc \in {"reconcile", "rereconcile"} /\ pc' \in {"select", "idle"}
        /\ journal' = (CHOOSE r \in all : \A q \in all : q <= r)
        /\ UNCHANGED <<status, listed, anchor, source>>
    BY <1>7 DEF ReconcileAdopted, Step, Then, Goto
  <2>2. all \in SUBSET (0 .. Cleaned) /\ all # {}
    BY <1>0 DEF AdoptionInv, Cleaned, Created, Verified, TaskClosed
  <2>3. all \subseteq {Created, TaskClosed, Cleaned, journal} \cup IF "artifact" \in anchor THEN {Verified} ELSE {}
    OBVIOUS
  <2>4. ~HasTransaction => all \subseteq {0}
    BY <1>0 DEF HasTransaction, AdoptionInv
  <2> HIDE DEF all
  <2>5. journal' \in all
    BY <2>1, <2>2, Highest
  <2>6. journal' = Verified => "artifact" \in anchor
    BY <1>0, <2>3, <2>5 DEF AdoptionInv, Verified, Created, TaskClosed, Cleaned
  <2>7. HasTransaction' => HasTransaction
    BY <2>1, <2>4, <2>5 DEF HasTransaction
  <2>8. Sourced'
    BY <1>0, <2>1, <2>7 DEF AdoptionInv, Sourced, Greater, Adopting, AdoptSteps, ReadoptSteps
  <2>9. AdoptionInv'
    BY <1>0, <2>1, <2>2, <2>5, <2>6, <2>8 DEF AdoptionInv
  <2> QED BY <1>0, <2>1, <2>9, AdoptStep DEF AdoptGoes, CommentSteps
<1> QED BY <1>1, <1>3, <1>4, <1>5, <1>6, <1>7 DEF Adopt
-----------------------------------------------------------------------------
(* The run *)

\* No comment is added and no fingerprint; an application that ends here is excused.
LEMMA NotesIdle ==
    ASSUME NotesInv,
           UNCHANGED <<applied, begun, full, doubled>>,
           claimed' \in {claimed, applied, {}}, seen' \in {seen, {}},
           log' \in Note \cup {None, Invalid}, call' \in 0 .. MaxCalls,
           snapshots' \subseteq {"current", "orphan"},
           (pc \notin CommentSteps /\ excused' = excused) \/ excused' = TRUE,
           pc' \notin CommentSteps,
           pc' \in {"succeeded", "released"} /\ log' \in Note /\ failures' = 0 => log' \in applied
    PROVE  NotesInv'
<1>1. Commenting'
  BY DEF Commenting, CommentSteps
<1>2. Accounted'
  BY DEF NotesInv, Accounted, CommentSteps
<1>3. Backed' /\ NotesReachTask'
  BY DEF NotesInv, Backed, NotesReachTask
<1>4. claimed' \subseteq Note /\ seen' \subseteq Note /\ excused' \in BOOLEAN
  BY DEF NotesInv
<1> QED BY <1>1, <1>2, <1>3, <1>4 DEF NotesInv

\* A failure is counted.
LEMMA FailStep ==
    ASSUME StepInv, Fail
    PROVE  failures' \in 0 .. MaxFailures /\ failures' # 0
BY TaskBranchAssumption DEF StepInv, Fail

\* The steps of a run and of its agent before there are notes.
RunUnderWay ==
    \/ StartRun \/ Claim \/ RecordOwnership \/ Snapshot \/ TakeLease \/ AddWorktree
    \/ AgentCommits \/ AgentNotes \/ \E o \in {"result", "transient", "fatal", "aborted"} : AgentEnds(o)

Working == {"idle", "select", "own", "snapshot", "lease", "worktree", "work"}
Leaving == {"adopt", "readopt", "own", "snapshot", "lease", "worktree", "work", "notes", "failed", "released"}

\* The steps of a run at work are not those of notes or adoptions.
LEMMA WorkingSteps ==
    /\ Working \cap (CommentSteps \cup Adopting \cup {"succeeded", "released"}) = {}
    /\ Leaving \cap (CommentSteps \cup Adopting \cup {"succeeded"}) = {}
    /\ Leaving \subseteq Steps
BY DEF Working, Leaving, CommentSteps, Adopting, AdoptSteps, ReadoptSteps, Steps

\* What a run at work leaves alone.
LEMMA RunningGoes ==
    ASSUME RunUnderWay
    PROVE  pc \in Working /\ pc' \in Leaving /\ UNCHANGED <<scene, target, head, journal, anchor, source, users, cl>>
BY DEF RunUnderWay, StartRun, Claim, RecordOwnership, Snapshot, TakeLease, AddWorktree, AgentCommits,
       AgentNotes, AgentEnds, GivenUp, Goto, branches, adoption, notes, Working, Leaving

\* A run at work keeps the invariant of the branches.
LEMMA RunningBranch == ASSUME IInv, RunUnderWay PROVE BranchInv'
<1>0. BranchInv /\ UNCHANGED <<scene, target, head, users, cl>>
  BY RunningGoes DEF IInv
<1>1. CASE UNCHANGED branches
  BY <1>0, <1>1, BranchSame
<1>2. CASE RecordOwnership
  <2>1. owner' = [owner EXCEPT ![Fresh] = Ownership] /\ UNCHANGED <<tip, lease, wt>>
    BY <1>2 DEF RecordOwnership
  <2>2. Ownership \in Ownerships /\ (Ownership = "created" => tip[Fresh] = None)
    BY DEF Ownership, Ownerships
  <2>3. owner' \in [Task -> Ownerships]
    BY <1>0, <2>1, <2>2 DEF BranchInv
  <2>4. UsersKnown'
    BY <1>0, <2>1, <2>2 DEF BranchInv, UsersKnown
  <2> QED BY <1>0, <2>1, <2>3, <2>4 DEF BranchInv, Planned, CleanupOK
<1>3. CASE UNCHANGED <<tip, owner>> /\ lease' \subseteq Task /\ wt' \subseteq Task
  BY <1>0, <1>3 DEF BranchInv, Planned, CleanupOK, UsersKnown
<1>4. ASSUME UNCHANGED <<owner, lease>>, wt' \subseteq Task, NEW n \in 0 .. MaxCommits,
             tip' = [tip EXCEPT ![Fresh] = n]
      PROVE  BranchInv'
  <2>1. tip' \in [Task -> {None} \cup 0 .. MaxCommits]
    BY <1>0, <1>4 DEF BranchInv
  <2>2. UsersKnown'
    BY <1>0, <1>4, TaskBranchAssumption DEF BranchInv, UsersKnown
  <2> QED BY <1>0, <1>4, <2>1, <2>2 DEF BranchInv, Planned, CleanupOK
<1>5. CASE AddWorktree
  <2>1. wt' \subseteq Task /\ UNCHANGED <<owner, lease>>
    BY <1>0, <1>5 DEF AddWorktree, BranchInv, Task
  <2>2. CASE tip[Fresh] = None
    <3>1. head[Fresh] \in 0 .. MaxCommits /\ tip' = [tip EXCEPT ![Fresh] = head[Fresh]]
      BY <1>0, <1>5, <2>2 DEF AddWorktree, BranchInv, Task
    <3> QED BY <1>4, <2>1, <3>1
  <2>3. CASE tip[Fresh] # None
    <3>1. tip' = tip
      BY <1>0, <1>5, <2>3 DEF AddWorktree, BranchInv
    <3> QED BY <1>3, <2>1, <3>1, <1>0 DEF BranchInv
  <2> QED BY <2>2, <2>3
<1>6. CASE AgentCommits
  <2>1. /\ tip[Fresh] # None /\ tip[Fresh] < MaxCommits /\ tip' = [tip EXCEPT ![Fresh] = tip[Fresh] + 1]
        /\ UNCHANGED <<owner, lease, wt>>
    BY <1>6 DEF AgentCommits, Commit
  <2>2. tip[Fresh] + 1 \in 0 .. MaxCommits
    <3>1. tip[Fresh] \in 0 .. MaxCommits
      BY <1>0, <2>1 DEF BranchInv, Task
    <3> QED BY <2>1, <3>1, TaskBranchAssumption
  <2> QED BY <1>0, <1>4, <2>1, <2>2 DEF BranchInv
<1>7. CASE TakeLease \/ \E o \in {"result", "transient", "fatal", "aborted"} : AgentEnds(o)
  <2>1. UNCHANGED <<tip, owner>>
    BY <1>7 DEF TakeLease, AgentEnds
  <2>2. lease' \in {lease \cup {Fresh}, lease \ {Fresh}} /\ wt' \in {wt, wt \ {Fresh}}
    BY <1>7 DEF TakeLease, AgentEnds
  <2>3. lease' \subseteq Task /\ wt' \subseteq Task
    BY <1>0, <2>2 DEF BranchInv, Task
  <2> QED BY <1>3, <2>1, <2>3
<1>8. CASE StartRun \/ Claim \/ Snapshot \/ AgentNotes
  BY <1>1, <1>8 DEF StartRun, Claim, Snapshot, AgentNotes
<1> QED BY <1>2, <1>5, <1>6, <1>7, <1>8 DEF RunUnderWay

\* A run at work keeps the invariant of the notes.
LEMMA RunningNotes == ASSUME IInv, RunUnderWay PROVE NotesInv'
<1>0. /\ NotesInv /\ StepInv
      /\ pc \notin CommentSteps /\ pc' \notin CommentSteps \cup {"succeeded"}
  BY RunningGoes, WorkingSteps DEF IInv
<1>1. CASE UNCHANGED notes /\ pc' # "released" /\ (failures' = 0 => failures = 0)
  BY <1>0, <1>1, NotesSame
<1>2. CASE StartRun \/ TakeLease \/ AddWorktree \/ AgentCommits
  BY <1>1, <1>2 DEF StartRun, TakeLease, AddWorktree, AgentCommits, Goto
<1>3. CASE Claim
  <2>1. /\ claimed' \in {claimed, applied} /\ pc' # "released"
        /\ UNCHANGED <<log, call, snapshots, applied, seen, begun, full, doubled, excused>>
    BY <1>3 DEF Claim, Goto
  <2> QED BY <1>0, <2>1, NotesIdle DEF NotesInv
<1>4. CASE RecordOwnership
  <2>1. /\ log' = None /\ call' = 1 /\ pc' # "released"
        /\ UNCHANGED <<snapshots, applied, claimed, seen, begun, full, doubled, excused>>
    BY <1>4 DEF RecordOwnership, Goto
  <2>2. call' \in 0 .. MaxCalls
    BY <2>1, TaskBranchAssumption
  <2> QED BY <1>0, <2>1, <2>2, NotesIdle DEF NotesInv
<1>5. CASE Snapshot
  <2>1. /\ pc' # "released"
        /\ UNCHANGED <<log, call, applied, claimed, seen, begun, full, doubled, excused>>
    BY <1>5 DEF Snapshot, Goto
  <2>2. snapshots' \subseteq {"current", "orphan"}
    BY <1>0, <1>5 DEF Snapshot, NotesInv, WithSnapshot
  <2> QED BY <1>0, <2>1, <2>2, NotesIdle DEF NotesInv
<1>6. CASE AgentNotes
  <2>1. /\ pc' = pc /\ log' \in Note \cup {Invalid}
        /\ UNCHANGED <<call, snapshots, applied, claimed, seen, begun, full, doubled, excused>>
    BY <1>6 DEF AgentNotes
  <2>2. pc' # "released"
    BY <1>6, <2>1 DEF AgentNotes
  <2> QED BY <1>0, <2>1, <2>2, NotesIdle DEF NotesInv
<1>7. CASE \E o \in {"result", "transient", "fatal", "aborted"} : AgentEnds(o)
  <2>1. /\ snapshots' = snapshots \ {"current"}
        /\ UNCHANGED <<log, applied, claimed, seen, begun, full, doubled, excused>>
    BY <1>7 DEF AgentEnds, WithoutSnapshot
  <2>2. call' \in 0 .. MaxCalls
    <3>1. call' = call \/ (call < MaxCalls /\ call' = call + 1)
      BY <1>7 DEF AgentEnds, MayRetry
    <3> QED BY <1>0, <3>1, TaskBranchAssumption DEF NotesInv
  <2>3. pc' = "released" => failures' # 0
    <3>1. pc' = "released" => Fail
      BY <1>7 DEF AgentEnds, GivenUp, Goto
    <3> QED BY <1>0, <3>1, FailStep
  <2>4. snapshots' \subseteq {"current", "orphan"}
    BY <1>0, <2>1 DEF NotesInv
  <2> QED BY <1>0, <2>1, <2>2, <2>3, <2>4, NotesIdle DEF NotesInv
<1> QED BY <1>2, <1>3, <1>4, <1>5, <1>6, <1>7 DEF RunUnderWay

\* A run at work keeps the invariant.
LEMMA RunningKeeps == ASSUME IInv, RunUnderWay PROVE IInv'
<1>1. BranchInv' /\ NotesInv'
  BY RunningBranch, RunningNotes
<1>2. AdoptionInv'
  <2>1. pc' \notin Adopting /\ UNCHANGED <<target, head, journal, anchor, source>>
    BY RunningGoes, WorkingSteps
  <2>2. listed' \in BOOLEAN
    <3>1. listed' = listed \/ listed' = (status[Old] # "done")
      BY DEF RunUnderWay, StartRun, Claim, RecordOwnership, Snapshot, TakeLease, AddWorktree,
             AgentCommits, AgentNotes, AgentEnds, adoption
    <3> QED BY <3>1 DEF IInv, AdoptionInv
  <2>3. Sourced'
    BY <2>1 DEF IInv, AdoptionInv, Sourced, HasTransaction, Greater
  <2> QED BY <2>1, <2>2, <2>3 DEF IInv, AdoptionInv
<1>3. StepInv'
  <2>1. pc' \in Steps
    BY RunningGoes, WorkingSteps
  <2>2. status' = status \/ status' = [status EXCEPT ![Fresh] = "implementing"]
    BY DEF RunUnderWay, StartRun, Claim, RecordOwnership, Snapshot, TakeLease, AddWorktree,
           AgentCommits, AgentNotes, AgentEnds
  <2>3. crashes' = crashes /\ (failures' = failures \/ Fail)
    BY DEF RunUnderWay, StartRun, Claim, RecordOwnership, Snapshot, TakeLease, AddWorktree,
           AgentCommits, AgentNotes, AgentEnds
  <2> QED BY <2>1, <2>2, <2>3, FailStep DEF IInv, StepInv
<1> QED BY <1>1, <1>2, <1>3 DEF IInv
-----------------------------------------------------------------------------
(* The notes, the outcome and the end of a run *)

\* Such a step leaves the branches and the adoption alone.
Outside ==
    /\ UNCHANGED <<scene, tip, target, head, owner, users, wt, adoption, cl>> /\ lease' \subseteq Task
    /\ pc' \in Steps \ Adopting
    /\ status' = status \/ \E s \in {"waiting", "failed"} : status' = [status EXCEPT ![Fresh] = s]
    /\ crashes' \in 0 .. MaxCrashes
    /\ failures' = failures \/ Fail

\* What leaves branches and adoption alone needs to keep only the invariant of the notes.
LEMMA OutsideKeeps == ASSUME IInv, Outside, NotesInv' PROVE IInv'
<1>1. BranchInv'
  BY DEF IInv, Outside, BranchInv, CleanupOK, UsersKnown, Planned
<1>2. AdoptionInv'
  BY <1>1, NoneChanged, AdoptionSame DEF IInv, Outside
<1>3. StepInv'
  BY FailStep DEF IInv, Outside, StepInv
<1> QED BY <1>1, <1>2, <1>3 DEF IInv

\* Where the application of notes goes.
LEMMA NotesGo ==
    /\ {"notes", "failed", "succeeded", "released", "first", "last", "mark", "failFirst", "failLast",
        "failMark", "readopt", "idle"} \subseteq Steps \ Adopting
    /\ AfterNotes \in {"succeeded", "released"}
BY DEF Steps, Adopting, AdoptSteps, ReadoptSteps, AfterNotes

NotesStep == LoadNotes \/ AddComment \/ MarkApplied \/ NotesFail

\* Writing notes leaves branches and adoption alone.
LEMMA NotesOutside == ASSUME IInv, NotesStep PROVE Outside
<1>1. /\ UNCHANGED <<scene, branches, adoption, cl, status, crashes>>
      /\ pc' \in {"succeeded", "released", "first", "last", "mark", "failFirst", "failLast", "failMark"}
      /\ failures' = failures \/ Fail
  BY NotesGo DEF NotesStep, LoadNotes, AddComment, MarkApplied, NotesFail, Goto, Then, Step
<1> QED BY <1>1, NotesGo DEF Outside, branches, IInv, BranchInv, StepInv

\* Writing notes keeps their invariant.
LEMMA NotesKeep == ASSUME IInv, NotesStep PROVE NotesInv'
<1>0. NotesInv
  BY DEF IInv
<1>1. CASE LoadNotes
  <2>1. /\ pc \in {"notes", "failed"}
        /\ UNCHANGED <<log, call, snapshots, applied, claimed, begun, full, doubled, excused>>
    BY <1>1 DEF LoadNotes, Applying
  <2>2. CASE /\ log \in Note /\ log \notin applied /\ seen' = applied
             /\ pc' \in {"first", "failFirst"}
    <3>1. Commenting'
      BY <2>1, <2>2 DEF Commenting, CommentSteps
    <3>2. Accounted'
      BY <1>0, <2>1, <2>2 DEF NotesInv, Accounted, CommentSteps
    <3>3. Backed' /\ NotesReachTask'
      BY <1>0, <2>1, <2>2 DEF NotesInv, Backed, NotesReachTask
    <3> QED BY <1>0, <2>1, <2>2, <3>1, <3>2, <3>3 DEF NotesInv
  <2>3. CASE /\ ~(log \in Note /\ ~Replayed) /\ UNCHANGED seen
             /\ pc' \in {"succeeded", "released"}
    BY <1>0, <2>1, <2>3, NotesIdle DEF NotesInv, CommentSteps, Replayed
  <2> QED BY <1>1, <2>2, <2>3 DEF LoadNotes, Goto, Replayed
<1>2. CASE AddComment
  <2>1. /\ pc \in {"first", "failFirst", "last", "failLast"}
        /\ UNCHANGED <<log, call, snapshots, applied, claimed, seen, excused>>
        /\ log \in Note /\ log \notin applied /\ seen = applied
    BY <1>0, <1>2 DEF AddComment, Step, NotesInv, Commenting, CommentSteps
  <2>2. CASE /\ pc \in {"first", "failFirst"} /\ pc' \in {"last", "failLast"}
             /\ begun' = begun \cup {log} /\ full' = full
             /\ doubled' = IF log \in begun THEN doubled \cup {log} ELSE doubled
    <3>1. Commenting'
      BY <2>1, <2>2 DEF Commenting, CommentSteps
    <3>2. Accounted'
      <4> SUFFICES ASSUME ~excused PROVE Accounted'
        BY <2>1 DEF Accounted
      <4>1. doubled = {} /\ log \notin begun /\ begun \subseteq applied /\ full \subseteq applied
        BY <1>0, <2>1, <2>2 DEF NotesInv, Accounted, CommentSteps
      <4> QED BY <2>1, <2>2, <4>1 DEF Accounted, CommentSteps
    <3>3. Backed' /\ NotesReachTask'
      BY <1>0, <2>1, <2>2 DEF NotesInv, Backed, NotesReachTask
    <3>4. begun' \subseteq Note /\ full' \subseteq begun' /\ doubled' \subseteq begun'
      BY <1>0, <2>1, <2>2 DEF NotesInv
    <3> QED BY <1>0, <2>1, <2>2, <3>1, <3>2, <3>3, <3>4 DEF NotesInv
  <2>3. CASE /\ pc \in {"last", "failLast"} /\ pc' \in {"mark", "failMark"}
             /\ full' = full \cup {log} /\ begun' = begun
             /\ doubled' = IF log \in full THEN doubled \cup {log} ELSE doubled
    <3>0. log \in begun
      BY <1>0, <2>3 DEF NotesInv, Commenting, CommentSteps
    <3>1. Commenting'
      BY <2>1, <2>3, <3>0 DEF Commenting, CommentSteps
    <3>2. Accounted'
      <4> SUFFICES ASSUME ~excused PROVE Accounted'
        BY <2>1 DEF Accounted
      <4>1. /\ doubled = {} /\ log \notin full /\ full \subseteq applied
            /\ \A n \in begun : n \in applied \/ n = log
        BY <1>0, <2>1, <2>3 DEF NotesInv, Accounted, CommentSteps
      <4> QED BY <2>1, <2>3, <4>1 DEF Accounted, CommentSteps
    <3>3. Backed' /\ NotesReachTask'
      BY <1>0, <2>1, <2>3 DEF NotesInv, Backed, NotesReachTask
    <3>4. begun' \subseteq Note /\ full' \subseteq begun' /\ doubled' \subseteq begun'
      BY <1>0, <2>3, <3>0 DEF NotesInv
    <3> QED BY <1>0, <2>1, <2>3, <3>1, <3>2, <3>3, <3>4 DEF NotesInv
  <2> QED BY <1>2, <2>2, <2>3 DEF AddComment, Step, Then, Goto
<1>3. CASE MarkApplied
  <2>1. /\ pc \in {"mark", "failMark"} /\ applied' = seen \cup {log}
        /\ pc' \in {"succeeded", "released"}
        /\ UNCHANGED <<log, call, snapshots, claimed, seen, begun, full, doubled, excused>>
    BY <1>3, NotesGo DEF MarkApplied, Step, Goto
  <2>2. log \in Note /\ log \in full /\ seen = applied /\ applied' = applied \cup {log}
    BY <1>0, <2>1 DEF NotesInv, Commenting, CommentSteps
  <2>3. Commenting'
    BY <2>1 DEF Commenting, CommentSteps
  <2>4. Accounted'
    BY <1>0, <2>1, <2>2 DEF NotesInv, Accounted
  <2>5. Backed' /\ NotesReachTask'
    BY <1>0, <2>1, <2>2 DEF NotesInv, Backed, NotesReachTask
  <2> QED BY <1>0, <2>1, <2>2, <2>3, <2>4, <2>5 DEF NotesInv
<1>4. CASE NotesFail
  <2>1. /\ Fail /\ excused' = TRUE /\ pc' \in {"succeeded", "released"}
        /\ UNCHANGED <<log, call, snapshots, applied, claimed, seen, begun, full, doubled>>
    BY <1>4, NotesGo DEF NotesFail, Goto
  <2>2. failures' # 0
    BY <2>1, FailStep DEF IInv
  <2> QED BY <1>0, <2>1, <2>2, NotesIdle DEF NotesInv, CommentSteps
<1> QED BY <1>1, <1>2, <1>3, <1>4 DEF NotesStep

\* The outcome of an agent, with the claim-time metadata it puts back, keeps the invariant.
LEMMA OutcomeKeeps == ASSUME IInv, Outcome PROVE IInv'
<1>0. NotesInv /\ StepInv /\ BranchInv
  BY DEF IInv
<1>1. /\ pc \in {"succeeded", "released"} /\ pc' = "readopt" /\ applied' = Restored
      /\ excused' = (excused \/ ~(applied \subseteq applied'))
      /\ claimed' = {} /\ seen' = {} /\ log' = None /\ call' = 0
      /\ UNCHANGED <<snapshots, begun, full, doubled>>
  BY DEF Outcome, Goto
<1>2. applied' \in {applied, claimed}
  BY <1>1 DEF Restored
<1>3. Commenting' /\ NotesReachTask'
  BY <1>1 DEF Commenting, CommentSteps, NotesReachTask
<1>4. Accounted'
  <2> SUFFICES ASSUME ~excused' PROVE Accounted'
    BY DEF Accounted
  <2>1. ~excused /\ applied \subseteq applied' /\ pc \notin CommentSteps
    BY <1>1 DEF CommentSteps
  <2>2. doubled = {} /\ begun \subseteq applied /\ full \subseteq applied
    BY <1>0, <1>1, <2>1 DEF NotesInv, Accounted, CommentSteps
  <2> QED BY <1>1, <2>1, <2>2 DEF Accounted
<1>5. Backed'
  BY <1>0, <1>1, <1>2 DEF NotesInv, Backed
<1>6. call' \in 0 .. MaxCalls /\ excused' \in BOOLEAN /\ applied' \subseteq Note
  <2>1. call' \in 0 .. MaxCalls
    BY <1>1, TaskBranchAssumption
  <2>2. excused' \in BOOLEAN
    BY <1>0, <1>1 DEF NotesInv
  <2>3. applied' \subseteq Note
    BY <1>0, <1>2 DEF NotesInv
  <2> QED BY <2>1, <2>2, <2>3
<1>7. NotesInv'
  BY <1>0, <1>1, <1>3, <1>4, <1>5, <1>6 DEF NotesInv
<1>8. Outside
  <2>1. UNCHANGED <<scene, branches, adoption, cl, crashes, failures>>
        /\ \E s \in {"waiting", "failed"} : status' = [status EXCEPT ![Fresh] = s]
    BY DEF Outcome
  <2> QED BY <1>0, <1>1, <2>1, NotesGo DEF Outside, branches, BranchInv, StepInv
<1> QED BY <1>7, <1>8, OutsideKeeps

\* A crash keeps the invariant.
LEMMA CrashKeeps == ASSUME IInv, Crash PROVE IInv'
<1>0. NotesInv /\ StepInv /\ BranchInv
  BY DEF IInv
<1>1. /\ pc' = "idle" /\ excused' = (excused \/ pc \in CommentSteps)
      /\ claimed' = {} /\ seen' = {} /\ log' = None /\ call' = 0
      /\ snapshots' \subseteq {"current", "orphan"}
      /\ UNCHANGED <<applied, begun, full, doubled>>
  BY DEF Crash, Goto, CommentSteps
<1>2. call' \in 0 .. MaxCalls
  BY <1>1, TaskBranchAssumption
<1>3. NotesInv'
  <2>1. excused \in BOOLEAN
    BY <1>0 DEF NotesInv
  <2>2. (pc \notin CommentSteps /\ excused' = excused) \/ excused' = TRUE
    BY <1>1, <2>1
  <2> QED BY <1>0, <1>1, <1>2, <2>2, NotesIdle DEF CommentSteps
<1>4. Outside
  <2>1. /\ crashes < MaxCrashes /\ crashes' = crashes + 1 /\ lease' = lease \ {Fresh}
        /\ UNCHANGED <<scene, tip, target, head, owner, users, wt, status, adoption, cl, failures>>
    BY DEF Crash
  <2>2. crashes' \in 0 .. MaxCrashes
    BY <1>0, <2>1, TaskBranchAssumption DEF StepInv
  <2> QED BY <1>0, <1>1, <2>1, <2>2, NotesGo DEF Outside, BranchInv
<1> QED BY <1>3, <1>4, OutsideKeeps
-----------------------------------------------------------------------------
(* The user, the landing and the clean-up *)

\* Such a step leaves the run alone.
Aside == UNCHANGED <<scene, pc, adoption, notes, crashes, failures>>

\* What changes branches and a status only keeps the invariant.
LEMMA AsideKeeps ==
    ASSUME IInv, Aside, BranchInv', TargetsGrow,
           status' = status \/ \E s \in {"ready", "done"} : status' = [status EXCEPT ![Fresh] = s]
    PROVE  IInv'
<1>1. AdoptionInv'
  BY AdoptionSame DEF IInv, Aside
<1>2. NotesInv'
  BY NotesSame DEF IInv, Aside
<1>3. StepInv'
  BY DEF IInv, Aside, StepInv
<1> QED BY <1>1, <1>2, <1>3 DEF IInv

\* Landings and the user's commits and merges keep the invariant.
LEMMA UserKeeps ==
    ASSUME IInv,
           Requeue \/ Land \/ Project \/ \E t \in Task : UserCommits(t) \/ UserMerges(t)
    PROVE  IInv'
<1>0. BranchInv
  BY DEF IInv
<1>1. CASE Requeue
  <2>1. Aside /\ UNCHANGED <<tip, target, head, owner, users, lease, cl>> /\ wt' = wt \ {Fresh}
        /\ status' = [status EXCEPT ![Fresh] = "ready"]
    BY <1>1 DEF Requeue, Aside
  <2>2. BranchInv'
    BY <1>0, <2>1 DEF Aside, BranchInv, CleanupOK, UsersKnown, Planned
  <2>3. TargetsGrow
    BY <1>0, <2>1, NoneChanged
  <2> QED BY <2>1, <2>2, <2>3, AsideKeeps
<1>2. ASSUME UNCHANGED <<scene, tip, owner, users, lease, wt, cl>>,
             target' \in [Task -> 0 .. MaxCommits], head' \in [Task -> 0 .. MaxCommits]
      PROVE  BranchInv'
  BY <1>0, <1>2 DEF BranchInv, CleanupOK, UsersKnown, Planned
<1>3. \A t \in Task : /\ target[t] \in 0 .. MaxCommits /\ target[t] \in Nat
                      /\ head[t] \in 0 .. MaxCommits /\ head[t] \in Nat
                      /\ tip[t] # None => tip[t] \in 0 .. MaxCommits /\ tip[t] \in Nat
  BY <1>0, TaskBranchAssumption DEF BranchInv
<1>4. CASE Project
  <2>1. /\ Aside /\ UNCHANGED <<tip, owner, users, lease, wt, cl, status>>
        /\ head' = [t \in Task |-> Greater(head[t], target[t])]
        /\ target' = [t \in Task |-> Greater(head[t], target[t])]
    BY <1>4 DEF Project, Aside
  <2>2. \A t \in Task : /\ Greater(head[t], target[t]) \in 0 .. MaxCommits
                        /\ head[t] <= Greater(head[t], target[t])
                        /\ target[t] <= Greater(head[t], target[t])
    BY <1>3 DEF Greater
  <2>3. TargetsGrow
    BY <2>1, <2>2 DEF TargetsGrow
  <2>4. BranchInv'
    BY <1>2, <2>1, <2>2 DEF Aside
  <2> QED BY <2>1, <2>3, <2>4, AsideKeeps
<1>5. ASSUME NEW t \in Task, UserMerges(t) PROVE IInv'
  <2>1. /\ Aside /\ UNCHANGED <<tip, target, owner, users, lease, wt, cl, status>>
        /\ tip[t] # None /\ head[t] < tip[t] /\ head' = [head EXCEPT ![t] = tip[t]]
    BY <1>5 DEF UserMerges, Aside
  <2>2. TargetsGrow
    <3> SUFFICES ASSUME NEW s \in Task PROVE target[s] <= target'[s] /\ head[s] <= head'[s]
      BY DEF TargetsGrow
    <3>1. head'[s] = IF s = t THEN tip[t] ELSE head[s]
      BY <1>0, <2>1 DEF BranchInv
    <3> QED BY <1>3, <2>1, <3>1
  <2>3. head' \in [Task -> 0 .. MaxCommits]
    BY <1>0, <1>3, <2>1 DEF BranchInv
  <2>4. BranchInv'
    BY <1>0, <1>2, <2>1, <2>3 DEF Aside, BranchInv
  <2> QED BY <2>1, <2>2, <2>4, AsideKeeps
<1>6. ASSUME NEW t \in Task, UserCommits(t) PROVE IInv'
  <2>1. /\ Aside /\ UNCHANGED <<target, head, owner, users, lease, wt, cl, status>>
        /\ tip[t] # None /\ tip[t] < MaxCommits /\ tip' = [tip EXCEPT ![t] = tip[t] + 1]
    BY <1>6 DEF UserCommits, Commit, Aside
  <2>2. tip[t] + 1 \in 0 .. MaxCommits /\ tip[t] + 1 # None
    BY <1>3, <2>1, TaskBranchAssumption
  <2>3. tip' \in [Task -> {None} \cup 0 .. MaxCommits]
    BY <1>0, <2>1, <2>2 DEF BranchInv
  <2>4. UsersKnown'
    BY <1>0, <2>1, <2>2 DEF BranchInv, UsersKnown
  <2>5. BranchInv'
    BY <1>0, <2>1, <2>3, <2>4 DEF Aside, BranchInv, CleanupOK, Planned
  <2>6. TargetsGrow
    BY <1>0, <2>1, NoneChanged
  <2> QED BY <2>1, <2>5, <2>6, AsideKeeps
<1>7. CASE Land
  <2>1. /\ Aside /\ UNCHANGED <<tip, head, owner, users, lease, wt, cl>>
        /\ tip[Fresh] # None /\ target' = [target EXCEPT ![Fresh] = tip[Fresh]]
        /\ status' = [status EXCEPT ![Fresh] = "done"]
    BY <1>7 DEF Land, Aside
  <2>2. target' \in [Task -> 0 .. MaxCommits]
    BY <1>0, <1>3, <2>1 DEF BranchInv, Task
  <2>3. BranchInv'
    BY <1>0, <1>2, <2>1, <2>2 DEF Aside, BranchInv
  <2>4. AdoptionInv'
    <3>1. target'[Old] = target[Old] /\ head'[Old] = head[Old]
      BY <1>0, <2>1, TaskBranchAssumption DEF BranchInv, Task
    <3> QED BY <2>1, <3>1 DEF IInv, AdoptionInv, Aside, adoption, Sourced, HasTransaction, Greater
  <2>5. NotesInv'
    BY <2>1, NotesSame DEF IInv, Aside
  <2>6. StepInv'
    BY <2>1 DEF IInv, Aside, StepInv
  <2> QED BY <2>3, <2>4, <2>5, <2>6 DEF IInv
<1> QED BY <1>1, <1>4, <1>5, <1>6, <1>7

\* A clean-up keeps the invariant.
LEMMA CleanupKeeps == ASSUME IInv, StartCleanup \/ Cleanup PROVE IInv'
<1>0. BranchInv /\ CleanupOK
  BY DEF IInv, BranchInv
<1>1. Aside /\ UNCHANGED <<target, head, owner, lease, wt, status>> /\ TargetsGrow
  <2>1. Aside /\ UNCHANGED <<target, head, owner, lease, wt, status>>
    BY DEF StartCleanup, Cleanup, ReadWorld, EndCleanup, Evaluate, Delete, Aside, branches
  <2> QED BY <1>0, <2>1, NoneChanged
<1>2. NoCleanup.owner = [t \in Task |-> None] /\ NoCleanup.plan = {}
      /\ NoCleanup \in [at : {"idle", "world", "evaluate", "delete"}, scope : SUBSET Task,
                        unowned : BOOLEAN, head : [Task -> 0 .. MaxCommits],
                        owner : [Task -> Ownerships], wt : SUBSET Task, lease : SUBSET Task,
                        todo : SUBSET Task, plan : SUBSET Task]
  <2>1. 0 \in 0 .. MaxCommits
    BY TaskBranchAssumption
  <2> QED BY <2>1 DEF NoCleanup, Ownerships
<1>3. ASSUME UNCHANGED <<tip, users>>, CleanupOK', UsersKnown', Planned' PROVE IInv'
  <2>1. BranchInv'
    BY <1>0, <1>1, <1>3 DEF BranchInv, Aside
  <2> QED BY <1>1, <2>1, AsideKeeps
<1>4. CASE StartCleanup
  <2>1. /\ UNCHANGED <<tip, users>> /\ cl'.plan = {} /\ cl'.owner = owner
        /\ \E s \in CommandScopes \cup RecoveryScopes \cup MergeScopes :
             cl' = [NoCleanup EXCEPT !.at = "world", !.scope = s.scope, !.unowned = s.unowned,
                                     !.head = head, !.owner = owner]
    BY <1>2, <1>4 DEF StartCleanup, branches, NoCleanup
  <2>2. \A s \in CommandScopes \cup RecoveryScopes \cup MergeScopes :
            s.scope \subseteq Task /\ s.unowned \in BOOLEAN
    <3> TAKE s \in CommandScopes \cup RecoveryScopes \cup MergeScopes
    <3>1. {Fresh} \subseteq Task
      BY DEF Task
    <3>2. \/ s = [scope |-> Task, unowned |-> FALSE] \/ s = [scope |-> Task, unowned |-> TRUE]
          \/ s = [scope |-> {Fresh}, unowned |-> FALSE]
      BY DEF CommandScopes, RecoveryScopes, MergeScopes
    <3>3. s.scope \in {Task, {Fresh}}
      BY <3>2
    <3>4. s.unowned = TRUE \/ s.unowned = FALSE
      BY <3>2
    <3> QED BY <3>1, <3>3, <3>4
  <2>3. CleanupOK'
    <3>1. PICK s \in CommandScopes \cup RecoveryScopes \cup MergeScopes :
             cl' = [NoCleanup EXCEPT !.at = "world", !.scope = s.scope, !.unowned = s.unowned,
                                     !.head = head, !.owner = owner]
      BY <2>1
    <3>2. s.scope \subseteq Task /\ s.unowned \in BOOLEAN
      BY <2>2
    <3>3. head \in [Task -> 0 .. MaxCommits] /\ owner \in [Task -> Ownerships]
      BY <1>0 DEF BranchInv
    <3> QED BY <1>2, <3>1, <3>2, <3>3 DEF CleanupOK
  <2>4. UsersKnown' /\ Planned'
    BY <1>0, <1>1, <2>1 DEF BranchInv, UsersKnown, Planned
  <2> QED BY <1>3, <2>1, <2>3, <2>4
<1>5. CASE ReadWorld
  <2>1. /\ UNCHANGED <<tip, users>>
        /\ cl' = [cl EXCEPT !.at = "evaluate", !.wt = wt, !.lease = lease, !.todo = Task]
    BY <1>5 DEF ReadWorld, branches
  <2>2. CleanupOK' /\ cl'.plan = cl.plan /\ cl'.owner = cl.owner /\ cl'.unowned = cl.unowned
    BY <1>0, <2>1 DEF BranchInv, CleanupOK
  <2>3. UsersKnown' /\ Planned'
    BY <1>0, <1>1, <2>1, <2>2 DEF BranchInv, UsersKnown, Planned
  <2> QED BY <1>3, <2>1, <2>2, <2>3
<1>6. ASSUME NEW t \in Task, Evaluate(t) PROVE IInv'
  <2> DEFINE plan == IF Deletable(t) THEN cl.plan \cup {t} ELSE cl.plan
             at == IF cl.todo = {t} THEN "delete" ELSE cl.at
  <2>1. /\ UNCHANGED <<tip, users>>
        /\ cl' = [cl EXCEPT !.todo = @ \ {t}, !.plan = plan, !.at = at]
    BY <1>6 DEF Evaluate, branches
  <2>2. plan \subseteq Task /\ at \in {"idle", "world", "evaluate", "delete"}
    BY <1>0 DEF CleanupOK
  <2>3. t \in plan => t \in cl.plan \/ cl.owner[t] = "created" \/ (cl.owner[t] = None /\ cl.unowned)
    BY DEF Deletable
  <2>4. \A s \in plan : s \in cl.plan \/ s = t
    OBVIOUS
  <2> HIDE DEF plan, at
  <2>5. CleanupOK' /\ cl'.plan = plan /\ cl'.owner = cl.owner /\ cl'.unowned = cl.unowned
    BY <1>0, <2>1, <2>2 DEF CleanupOK
  <2>6. UsersKnown' /\ Planned'
    BY <1>0, <1>1, <2>1, <2>3, <2>4, <2>5 DEF BranchInv, UsersKnown, Planned
  <2> QED BY <1>3, <2>1, <2>5, <2>6
<1>7. ASSUME cl' = NoCleanup, UNCHANGED <<tip, users>> PROVE IInv'
  <2>1. CleanupOK' /\ cl'.plan = {} /\ \A t \in Task : cl'.owner[t] = None
    BY <1>2, <1>7 DEF CleanupOK
  <2>2. UsersKnown' /\ Planned'
    BY <1>0, <1>1, <1>7, <2>1, TaskBranchAssumption DEF BranchInv, UsersKnown, Planned
  <2> QED BY <1>3, <1>7, <2>1, <2>2
<1>8. ASSUME NEW t \in Task, Delete(t) PROVE IInv'
  <2>1. CASE /\ tip' = [tip EXCEPT ![t] = None] /\ users' = users \ {t}
             /\ cl' = [cl EXCEPT !.plan = @ \ {t}]
    <3>1. CleanupOK' /\ cl'.plan = cl.plan \ {t} /\ cl'.owner = cl.owner /\ cl'.unowned = cl.unowned
      BY <1>0, <2>1 DEF CleanupOK
    <3>2. tip' \in [Task -> {None} \cup 0 .. MaxCommits] /\ users' \subseteq Task
      BY <1>0, <2>1 DEF BranchInv
    <3>3. UsersKnown' /\ Planned'
      BY <1>0, <1>1, <2>1, <3>1 DEF BranchInv, UsersKnown, Planned
    <3>4. BranchInv'
      BY <1>0, <1>1, <3>1, <3>2, <3>3 DEF BranchInv, Aside
    <3> QED BY <1>1, <3>4, AsideKeeps
  <2>2. CASE cl' = NoCleanup /\ UNCHANGED <<tip, users>>
    BY <1>7, <2>2
  <2> QED BY <1>8, <2>1, <2>2 DEF Delete
<1>9. CASE EndCleanup
  BY <1>7, <1>9 DEF EndCleanup, branches
<1> QED BY <1>4, <1>5, <1>6, <1>8, <1>9 DEF Cleanup

-----------------------------------------------------------------------------
(* The theorems *)

\* every step keeps it,
THEOREM NextInv == IInv /\ [Next]_vars => IInv'
<1> SUFFICES ASSUME IInv, [Next]_vars PROVE IInv'
  OBVIOUS
<1>1. CASE RunUnderWay
  BY <1>1, RunningKeeps
<1>2. CASE Adopt
  BY <1>2, AdoptKeeps
<1>3. CASE NotesStep
  BY <1>3, NotesOutside, NotesKeep, OutsideKeeps
<1>4. CASE Outcome \/ Crash
  BY <1>4, OutcomeKeeps, CrashKeeps
<1>5. CASE Requeue \/ Land \/ Project \/ \E t \in Task : UserCommits(t) \/ UserMerges(t)
  BY <1>5, UserKeeps
<1>6. CASE StartCleanup \/ Cleanup
  BY <1>6, CleanupKeeps
<1>7. CASE UNCHANGED vars
  <2>1. /\ UNCHANGED <<scene, branches, cl>> /\ UNCHANGED <<target, head>>
        /\ UNCHANGED notes /\ UNCHANGED adoption
        /\ UNCHANGED <<pc, status, crashes, failures>>
    BY <1>7 DEF vars, branches
  <2>2. BranchInv' /\ TargetsGrow
    BY <2>1, BranchSame, NoneChanged DEF IInv
  <2>3. AdoptionInv' /\ NotesInv'
    BY <2>1, <2>2, AdoptionSame, NotesSame DEF IInv
  <2>4. StepInv'
    BY <2>1 DEF IInv, StepInv
  <2> QED BY <2>2, <2>3, <2>4 DEF IInv
<1> QED BY <1>1, <1>2, <1>3, <1>4, <1>5, <1>6, <1>7
        DEF Next, RunStep, ApplyNotes, RunUnderWay, NotesStep

\* and so it holds in every behaviour.
THEOREM IInvHolds == Spec => []IInv
BY InitInv, NextInv, PTL DEF Spec

\* An adopted merge is in a target, no comment of a block is added twice, a fingerprint has
\* its comments and the notes of an agent reach its task (adoptContainedTask,
\* applyHubTaskNotes).
THEOREM RecordsBacked == Spec => []RecordsAreBacked
BY Enough, IInvHolds, PTL

\* Only a clean-up takes a branch away.
LEMMA OnlyDeletes ==
    ASSUME IInv, [Next]_vars, NEW t \in Task, tip[t] # None, tip'[t] = None
    PROVE  Delete(t)
<1>0. /\ tip \in [Task -> {None} \cup 0 .. MaxCommits]
      /\ \A s \in Task : head[s] # None /\ (tip[s] # None => tip[s] + 1 # None \/ ~(tip[s] < MaxCommits))
  <2>1. tip \in [Task -> {None} \cup 0 .. MaxCommits] /\ head \in [Task -> 0 .. MaxCommits]
    BY DEF IInv, BranchInv
  <2>2. \A s \in Task : head[s] # None
    BY <2>1, TaskBranchAssumption
  <2>3. ASSUME NEW s \in Task, tip[s] # None, tip[s] < MaxCommits PROVE tip[s] + 1 # None
    <3>1. tip[s] + 1 \in 0 .. MaxCommits
      BY <2>1, <2>3, TaskBranchAssumption
    <3> QED BY <3>1, TaskBranchAssumption
  <2> QED BY <2>1, <2>2, <2>3
<1>1. tip' # tip
  OBVIOUS
<1>2. CASE AddWorktree
  BY <1>0, <1>2 DEF AddWorktree, Task
<1>3. ASSUME NEW s \in Task, Commit(s) PROVE FALSE
  BY <1>0, <1>3 DEF Commit
<1>4. ASSUME NEW s \in Task, Delete(s) PROVE Delete(t)
  BY <1>0, <1>1, <1>4 DEF Delete
<1>5. CASE Adopt
  BY <1>1, <1>5
     DEF Adopt, Classify, AppendOpening, Persist, AppendLanded, CloseOld, ReconcileAdopted, branches
<1>6. CASE StartRun \/ Claim \/ RecordOwnership \/ Snapshot \/ TakeLease
           \/ \E o \in {"result", "transient", "fatal", "aborted"} : AgentEnds(o)
  BY <1>1, <1>6 DEF StartRun, Claim, RecordOwnership, Snapshot, TakeLease, AgentEnds, branches
<1>7. CASE NotesStep \/ Outcome \/ Crash \/ AgentNotes
  BY <1>1, <1>7
     DEF NotesStep, LoadNotes, AddComment, MarkApplied, NotesFail, Outcome, Crash, AgentNotes, branches
<1>8. CASE Requeue \/ Land \/ Project \/ \E s \in Task : UserMerges(s)
  BY <1>1, <1>8 DEF Requeue, Land, Project, UserMerges
<1>9. CASE AgentCommits \/ \E s \in Task : UserCommits(s)
  BY <1>3, <1>9 DEF AgentCommits, UserCommits, Task
<1>10. CASE StartCleanup \/ ReadWorld \/ EndCleanup \/ \E s \in Task : Evaluate(s)
  BY <1>1, <1>10 DEF StartCleanup, ReadWorld, EndCleanup, Evaluate, branches
<1>11. CASE UNCHANGED vars
  BY <1>1, <1>11 DEF vars, branches
<1> QED BY <1>2, <1>4, <1>5, <1>6, <1>7, <1>8, <1>9, <1>10, <1>11
        DEF Next, RunStep, ApplyNotes, Cleanup, NotesStep

\* A clean-up deletes no branch that HEAD does not contain or that is checked out, and one
\* of the user only on request and without knowing of a claim (deleteGitBranch,
\* planHubManagedBranchCleanup).
THEOREM BranchesSafe == Spec => BranchesKept
<1>1. IInv /\ [Next]_vars => \A t \in Task : tip[t] # None /\ tip'[t] = None =>
                                 tip[t] <= head[t] /\ t \notin wt
  <2> SUFFICES ASSUME IInv, [Next]_vars, NEW t \in Task, tip[t] # None, tip'[t] = None
               PROVE  tip[t] <= head[t] /\ t \notin wt
    OBVIOUS
  <2>1. Delete(t)
    BY OnlyDeletes
  <2> QED BY <2>1 DEF Delete, GitDeletes
<1>2. IInv /\ [Next]_vars => \A t \in users : tip[t] # None /\ tip'[t] = None =>
                                 cl.unowned /\ cl.owner[t] = None
  <2> SUFFICES ASSUME IInv, [Next]_vars, NEW t \in users, tip[t] # None, tip'[t] = None
               PROVE  cl.unowned /\ cl.owner[t] = None
    OBVIOUS
  <2>1. t \in Task /\ Delete(t)
    BY OnlyDeletes DEF IInv, BranchInv
  <2>2. t \in cl.plan
    BY <2>1 DEF Delete
  <2> QED BY <2>2 DEF IInv, BranchInv, UsersKnown, Planned
<1> QED BY <1>1, <1>2, IInvHolds, PTL DEF Spec, BranchesKept, UnmergedKept, UsersBranchKept

=============================================================================
