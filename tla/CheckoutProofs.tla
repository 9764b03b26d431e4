--------------------------- MODULE CheckoutProofs ---------------------------
(***************************************************************************)
(* Proofs about CheckoutProjection: the outbox is well formed and records  *)
(* as projected what the host branch has contained, and the Hub takes no   *)
(* commit off a branch of the user.                                        *)
(*                                                                         *)
(* The argument: a run works on an item of its listing whose task has      *)
(* landed, and a candidate has its own task, so that the branch contains   *)
(* it only once it was brought there, which is remembered                  *)
(* (ContainedReached).  The tip a run swaps was read from a branch it      *)
(* found behind the candidate (ReadBehind), and the worktree it            *)
(* fast-forwards in has the host branch unless the user switched it        *)
(* (OwnerHasHost).                                                         *)
(***************************************************************************)
EXTENDS CheckoutProjection, FiniteSetTheorems, SequenceTheorems, TLAPS

-----------------------------------------------------------------------------
(* The inductive invariant *)

\* A candidate has its task and is in the publish target.
LandedKnown ==
    \A t \in Task : candidate[t] # None => t \in candidate[t] /\ candidate[t] \subseteq target

\* Only landed tasks are in the publish target and in the branches of the user.
TasksLanded ==
    \A t \in Task : candidate[t] = None => t \notin target /\ \A b \in Branches : t \notin branch[b]

\* What the host branch contains it was seen to contain.
ContainedReached ==
    \A t \in Task : candidate[t] # None /\ candidate[t] \subseteq branch["host"] => t \in reached

\* The items are those of landed tasks.
ItemsLanded ==
    /\ \A i \in DOMAIN outbox : candidate[outbox[i].task] # None
    /\ \A p \in Proc : \A i \in DOMAIN list[p] : candidate[list[p][i].task] # None

\* A run that is at an item has it in its listing.
InList == \A p \in Proc : pc[p] \notin {"idle", "item"} => at[p] \in DOMAIN list[p]

\* The worktree of a run has the host branch unless the user switched it.
OwnerHasHost ==
    \A p \in Proc : /\ pc[p] = "merge" => owner[p] # None
                    /\ owner[p] # None /\ ~switched => head[owner[p]] = "host"

\* The branch a run has advanced contained the candidate.
DoneReached == \A p \in Proc : pc[p] = "done" /\ ~switched => AtHand(p).task \in reached

\* The tip a run has read is behind the candidate.
ReadBehind ==
    \A p \in Proc : pc[p] \in {"inspect", "swap"} => current[p] # None /\ current[p] \subseteq Candidate(p)

RepoInv == LandedKnown /\ TasksLanded /\ ContainedReached
RunInv == ItemsLanded /\ InList /\ OwnerHasHost /\ DoneReached /\ ReadBehind
IInv == TypeOK /\ SucceededWasProjected /\ RepoInv /\ RunInv

-----------------------------------------------------------------------------
(* The operators *)

\* No two items of an outbox are of one task.
OneItemEach == \A i, j \in DOMAIN outbox : outbox[i].task = outbox[j].task => i = j

\* One item for each task, said with the library's injectivity.
LEMMA Injective == OneItemEach <=> IsInjective([i \in DOMAIN outbox |-> outbox[i].task])
BY DEF OneItemEach, IsInjective

\* The same of the next state.
LEMMA InjectiveAfter == OneItemEach' <=> IsInjective([i \in DOMAIN outbox |-> outbox[i].task])'
BY DEF OneItemEach, IsInjective

\* No commit is None.
LEMMA CommitExists == \A c \in Commit : c # None
BY CheckoutAssumption

\* The inspection answers with a reason.
LEMMA UnsafeReason == ASSUME NEW w PROVE Unsafe(w) \in Reasons
<1>1. \A facts : ClassifyPorcelain(facts) \in Reasons
  BY DEF ClassifyPorcelain, Reasons
<1> QED BY <1>1 DEF Unsafe, Reasons

\* The reason of a failed projection is one of the reasons.
LEMMA FailureReason == ASSUME NEW p PROVE PendingReasonAfterFailure(p) \in Reasons
BY UnsafeReason DEF PendingReasonAfterFailure, Reasons

\* The item at hand is one of a landed task.
LEMMA Handled ==
    ASSUME TypeOK, ItemsLanded, NEW p \in Proc, at[p] \in DOMAIN list[p]
    PROVE  /\ AtHand(p) \in Item /\ AtHand(p).task \in Task
           /\ Candidate(p) \in Commit /\ candidate[AtHand(p).task] # None
<1>1. list[p] \in Seq(Item)
  BY DEF TypeOK
<1>2. list[p][at[p]] \in Item
  BY <1>1, ElementOfSeq
<1>3. AtHand(p) \in Item /\ AtHand(p).task \in Task
  BY <1>2 DEF AtHand, Item
<1>4. candidate[AtHand(p).task] # None
  BY DEF ItemsLanded, AtHand
<1> QED BY <1>3, <1>4 DEF TypeOK, Candidate

\* What a run writes keeps the items and their order.
LEMMA Written ==
    ASSUME TypeOK, NEW p \in Proc, AtHand(p) \in Item, NEW status \in {"pending", "succeeded"},
           NEW reason \in Reasons, Write(p, status, reason)
    PROVE  /\ outbox' \in Seq(Item) /\ DOMAIN outbox' = DOMAIN outbox
           /\ OneItemEach'
           /\ \A i \in DOMAIN outbox :
                  /\ outbox'[i].task = outbox[i].task
                  /\ outbox'[i].status = outbox[i].status
                     \/ (outbox'[i].task = AtHand(p).task /\ outbox'[i].status = status)
<1> DEFINE new == [AtHand(p) EXCEPT !.status = status, !.reason = reason]
<1>1. new \in Item /\ new.task = AtHand(p).task /\ new.status = status
  BY DEF Item
<1>2. outbox' = [i \in DOMAIN outbox |-> IF outbox[i].task = AtHand(p).task THEN new ELSE outbox[i]]
  BY DEF Write
<1> HIDE DEF new
<1>3. outbox \in Seq(Item)
  BY DEF TypeOK
<1>4. DOMAIN outbox = 1 .. Len(outbox) /\ Len(outbox) \in Nat
  BY <1>3, LenProperties
<1>5. \A i \in DOMAIN outbox : outbox[i] \in Item
  BY <1>3, ElementOfSeq
<1>6. \A i \in 1 .. Len(outbox) : outbox'[i] \in Item
  BY <1>1, <1>2, <1>4, <1>5
<1>7. outbox' = [i \in 1 .. Len(outbox) |-> outbox'[i]]
  BY <1>2, <1>4
<1>8. outbox' \in Seq(Item)
  BY <1>4, <1>6, <1>7, SeqDef
<1>9. DOMAIN outbox' = DOMAIN outbox
  BY <1>2
<1>10. \A i \in DOMAIN outbox :
           /\ outbox'[i].task = outbox[i].task
           /\ outbox'[i].status = outbox[i].status
              \/ (outbox'[i].task = AtHand(p).task /\ outbox'[i].status = status)
  <2> TAKE i \in DOMAIN outbox
  <2>1. outbox'[i] = IF outbox[i].task = AtHand(p).task THEN new ELSE outbox[i]
    BY <1>2
  <2>2. CASE outbox[i].task = AtHand(p).task
    <3>1. outbox'[i] = new
      BY <2>1, <2>2
    <3> QED BY <1>1, <2>2, <3>1
  <2>3. CASE outbox[i].task # AtHand(p).task
    <3>1. outbox'[i] = outbox[i]
      BY <2>1, <2>3
    <3> QED BY <3>1
  <2> QED BY <2>2, <2>3
<1>11. OneItemEach
  BY Injective DEF TypeOK
<1>12. OneItemEach'
  BY <1>9, <1>10, <1>11 DEF OneItemEach
<1> QED BY <1>8, <1>9, <1>10, <1>12

-----------------------------------------------------------------------------
(* The steps preserve the invariant *)

\* The invariant holds at the start,
THEOREM InitInv == Init => IInv
<1> SUFFICES ASSUME Init PROVE IInv
  OBVIOUS
<1>1. outbox = <<>> /\ <<>> \in Seq(Item) /\ DOMAIN outbox = {}
  BY DEF Init
<1>2. TypeOK
  <2>1. OneItemEach
    BY <1>1 DEF OneItemEach
  <2>2. outbox \in Seq(Item) /\ IsInjective([i \in DOMAIN outbox |-> outbox[i].task])
    BY <1>1, <2>1, Injective
  <2>3. /\ target \in Commit /\ candidate \in [Task -> {None} \cup Commit]
        /\ branch \in [Branches -> Commit] /\ current \in [Proc -> {None} \cup Commit]
    BY DEF Init, Commit
  <2>4. head \in [Worktree -> Branches] /\ condition \in [Worktree -> SUBSET Facts]
    BY DEF Init, Facts
  <2>5. /\ pc \in [Proc -> {"idle", "item", "inspect", "swap", "merge", "failed", "done"}]
        /\ at \in [Proc -> Nat \ {0}] /\ owner \in [Proc -> {None} \cup Worktree]
        /\ reached \subseteq Task /\ switched \in BOOLEAN
    <3>1. pc \in [Proc -> {"idle", "item", "inspect", "swap", "merge", "failed", "done"}]
      BY DEF Init
    <3>2. at \in [Proc -> Nat \ {0}]
      BY DEF Init
    <3>3. owner \in [Proc -> {None} \cup Worktree]
      BY DEF Init
    <3>4. reached \subseteq Task /\ switched \in BOOLEAN
      BY DEF Init
    <3> QED BY <3>1, <3>2, <3>3, <3>4
  <2>6. list \in [Proc -> Seq(Item)]
    <3>1. list = [p \in Proc |-> <<>>]
      BY DEF Init
    <3>2. <<>> \in Seq(Item)
      BY <1>1
    <3> HIDE DEF Item
    <3> QED BY <3>1, <3>2
  <2>7. failures \in 0 .. MaxFailures /\ crashes \in 0 .. MaxCrashes /\ acts \in 0 .. MaxUser
    BY CheckoutAssumption DEF Init
  <2> QED BY <2>2, <2>3, <2>4, <2>5, <2>6, <2>7 DEF TypeOK
<1>3. SucceededWasProjected
  BY <1>1 DEF SucceededWasProjected
<1>4. RepoInv
  BY DEF RepoInv, Init, LandedKnown, TasksLanded, ContainedReached, Branches
<1>5. RunInv
  BY <1>1 DEF RunInv, Init, ItemsLanded, InList, OwnerHasHost, DoneReached, ReadBehind
<1> QED BY <1>2, <1>3, <1>4, <1>5 DEF IInv

\* A run that recorded its item and goes on with the next one.
LEMMA Marked ==
    ASSUME IInv, NEW p \in Proc, at[p] \in DOMAIN list[p],
           NEW status \in {"pending", "succeeded"}, NEW reason \in Reasons,
           Write(p, status, reason), NextItem(p),
           status = "succeeded" /\ ~switched => AtHand(p).task \in reached,
           UNCHANGED <<repo, branch, user, reached, switched, aux, acts>>
    PROVE  IInv'
<1> USE DEF repo, user, aux
<1>1. TypeOK /\ SucceededWasProjected /\ RepoInv /\ RunInv
  BY DEF IInv
<1>2. AtHand(p) \in Item
  BY <1>1, Handled DEF RunInv
<1>3. /\ outbox' \in Seq(Item) /\ DOMAIN outbox' = DOMAIN outbox
      /\ OneItemEach'
      /\ \A i \in DOMAIN outbox :
             /\ outbox'[i].task = outbox[i].task
             /\ outbox'[i].status = outbox[i].status
                \/ (outbox'[i].task = AtHand(p).task /\ outbox'[i].status = status)
  BY <1>1, <1>2, Written
<1>4. /\ at' = [at EXCEPT ![p] = @ + 1] /\ current' = [current EXCEPT ![p] = None]
      /\ owner' = [owner EXCEPT ![p] = None] /\ pc' = [pc EXCEPT ![p] = "item"]
      /\ list' = list
  BY DEF NextItem, Forget, Goto
<1>5. TypeOK'
  <2>1. /\ at' \in [Proc -> Nat \ {0}] /\ current' \in [Proc -> {None} \cup Commit]
        /\ owner' \in [Proc -> {None} \cup Worktree]
        /\ pc' \in [Proc -> {"idle", "item", "inspect", "swap", "merge", "failed", "done"}]
    BY <1>1, <1>4 DEF TypeOK
  <2> QED BY <1>1, <1>3, <1>4, <2>1, InjectiveAfter DEF TypeOK
<1>6. SucceededWasProjected'
  BY <1>1, <1>3 DEF SucceededWasProjected
<1>7. RepoInv'
  BY <1>1 DEF RepoInv, LandedKnown, TasksLanded, ContainedReached
<1>8. ItemsLanded'
  BY <1>1, <1>3, <1>4 DEF RunInv, ItemsLanded
<1>9. ASSUME NEW q \in Proc, q # p
      PROVE  /\ pc'[q] = pc[q] /\ at'[q] = at[q] /\ list'[q] = list[q] /\ current'[q] = current[q]
             /\ owner'[q] = owner[q] /\ AtHand(q)' = AtHand(q) /\ Candidate(q)' = Candidate(q)
  BY <1>1, <1>4, <1>9 DEF TypeOK, AtHand, Candidate
<1>10. pc'[p] = "item" /\ owner'[p] = None
  BY <1>1, <1>4 DEF TypeOK
<1>11. InList' /\ OwnerHasHost' /\ DoneReached' /\ ReadBehind'
  BY <1>1, <1>9, <1>10 DEF RunInv, InList, OwnerHasHost, DoneReached, ReadBehind
<1> QED BY <1>5, <1>6, <1>7, <1>8, <1>11 DEF IInv, RunInv

\* The steps that change neither the outbox nor the repository nor what the user has.
LEMMA Moved ==
    ASSUME IInv, NEW p \in Proc, TypeOK',
           UNCHANGED <<repo, branch, user, outbox, reached, switched>>,
           list'[p] \in {list[p], outbox, <<>>},
           \A q \in Proc \ {p} : /\ pc'[q] = pc[q] /\ at'[q] = at[q] /\ list'[q] = list[q]
                                 /\ current'[q] = current[q] /\ owner'[q] = owner[q],
           pc'[p] \notin {"idle", "item"} => at'[p] \in DOMAIN list'[p],
           pc'[p] = "merge" => owner'[p] # None,
           owner'[p] # None /\ ~switched => head[owner'[p]] = "host",
           pc'[p] = "done" /\ ~switched => AtHand(p)'.task \in reached,
           pc'[p] \in {"inspect", "swap"} => current'[p] # None /\ current'[p] \subseteq Candidate(p)'
    PROVE  IInv'
<1> USE DEF repo, user
<1>1. TypeOK /\ SucceededWasProjected /\ RepoInv /\ RunInv
  BY DEF IInv
<1>2. SucceededWasProjected'
  BY <1>1 DEF SucceededWasProjected
<1>3. RepoInv'
  BY <1>1 DEF RepoInv, LandedKnown, TasksLanded, ContainedReached
<1>4. ASSUME NEW q \in Proc, q # p
      PROVE  AtHand(q)' = AtHand(q) /\ Candidate(q)' = Candidate(q)
  BY <1>4 DEF AtHand, Candidate
<1>5. ItemsLanded'
  <2>1. ItemsLanded
    BY <1>1 DEF RunInv
  <2>2. \A i \in DOMAIN outbox' : candidate'[outbox'[i].task] # None
    BY <2>1 DEF ItemsLanded
  <2>3. ASSUME NEW q \in Proc, NEW i \in DOMAIN list'[q]
        PROVE  candidate'[list'[q][i].task] # None
    <3>1. CASE q # p \/ list'[p] = list[p]
      BY <2>1, <3>1 DEF ItemsLanded
    <3>2. CASE q = p /\ list'[p] = outbox
      BY <2>1, <3>2 DEF ItemsLanded
    <3>3. CASE q = p /\ list'[p] = <<>>
      BY <3>3
    <3> QED BY <3>1, <3>2, <3>3
  <2> QED BY <2>2, <2>3 DEF ItemsLanded
<1>6. InList' /\ OwnerHasHost' /\ DoneReached' /\ ReadBehind'
  BY <1>1, <1>4 DEF RunInv, InList, OwnerHasHost, DoneReached, ReadBehind
<1> QED BY <1>1, <1>2, <1>3, <1>5, <1>6 DEF IInv, RunInv

\* A task lands as a candidate no branch of the user has.
LEMMA LandStep == ASSUME IInv, NEW t \in Task, Land(t) PROVE IInv'
<1>1. TypeOK /\ SucceededWasProjected /\ RepoInv /\ RunInv
  BY DEF IInv
<1>2. /\ candidate[t] = None /\ target' = target \cup {t}
      /\ candidate' = [candidate EXCEPT ![t] = target \cup {t}]
      /\ UNCHANGED <<branch, head, condition, outbox, pc, list, at, current, owner, reached,
                     switched, failures, crashes, acts>>
  BY DEF Land, Landed, user, local, aux
<1>3. target' \in Commit /\ candidate' \in [Task -> {None} \cup Commit] /\ target \cup {t} # None
  BY <1>1, <1>2, CommitExists DEF TypeOK, Commit
<1>4. TypeOK'
  BY <1>1, <1>2, <1>3, Injective, InjectiveAfter DEF TypeOK, OneItemEach
<1>5. SucceededWasProjected'
  BY <1>1, <1>2 DEF SucceededWasProjected
<1>6. candidate'[t] = target \cup {t} /\ \A u \in Task \ {t} : candidate'[u] = candidate[u]
  BY <1>1, <1>2 DEF TypeOK
<1>7. RepoInv'
  <2>1. LandedKnown' /\ TasksLanded'
    BY <1>1, <1>2, <1>3, <1>6 DEF RepoInv, LandedKnown, TasksLanded
  <2>2. t \notin branch["host"]
    BY <1>1, <1>2 DEF RepoInv, TasksLanded, Branches
  <2>3. ContainedReached'
    BY <1>1, <1>2, <1>6, <2>2 DEF RepoInv, ContainedReached
  <2> QED BY <2>1, <2>3 DEF RepoInv
<1>8. \A i \in DOMAIN outbox : outbox[i].task \in Task
  <2>1. outbox \in Seq(Item)
    BY <1>1 DEF TypeOK
  <2>2. \A i \in DOMAIN outbox : outbox[i] \in Item
    BY <2>1, ElementOfSeq
  <2> QED BY <2>2 DEF Item
<1>9. \A p \in Proc : \A i \in DOMAIN list[p] : list[p][i].task \in Task
  <2>1. ASSUME NEW p \in Proc PROVE \A i \in DOMAIN list[p] : list[p][i] \in Item
    <3>1. list[p] \in Seq(Item)
      BY <1>1 DEF TypeOK
    <3> QED BY <3>1, ElementOfSeq
  <2> QED BY <2>1 DEF Item
<1>10. ItemsLanded'
  BY <1>1, <1>2, <1>3, <1>6, <1>8, <1>9 DEF RunInv, ItemsLanded
<1>11. \A p \in Proc : at[p] \in DOMAIN list[p] => Candidate(p)' = Candidate(p)
  <2> SUFFICES ASSUME NEW p \in Proc, at[p] \in DOMAIN list[p] PROVE Candidate(p)' = Candidate(p)
    OBVIOUS
  <2>1. AtHand(p).task \in Task \ {t} /\ AtHand(p)' = AtHand(p)
    BY <1>1, <1>2, Handled DEF RunInv, AtHand
  <2> QED BY <1>6, <2>1 DEF Candidate
<1>12. InList' /\ OwnerHasHost'
  BY <1>1, <1>2 DEF RunInv, InList, OwnerHasHost
<1>13. DoneReached' /\ ReadBehind'
  BY <1>1, <1>2, <1>11 DEF RunInv, InList, DoneReached, ReadBehind, AtHand
<1> QED BY <1>4, <1>5, <1>7, <1>10, <1>12, <1>13 DEF IInv, RunInv

\* The steps that change the repository, a branch or what the user has, the runs looking on.
LEMMA Aside ==
    ASSUME IInv, TypeOK', RepoInv', UNCHANGED <<candidate, outbox, pc, local>>,
           reached \subseteq reached', switched => switched',
           \A p \in Proc : owner[p] # None /\ ~switched' => head'[owner[p]] = head[owner[p]]
    PROVE  IInv'
<1> USE DEF local
<1>1. TypeOK /\ SucceededWasProjected /\ RepoInv /\ RunInv
  BY DEF IInv
<1>2. SucceededWasProjected'
  BY <1>1 DEF SucceededWasProjected
<1>3. ItemsLanded' /\ InList' /\ OwnerHasHost'
  BY <1>1 DEF RunInv, ItemsLanded, InList, OwnerHasHost
<1>4. DoneReached' /\ ReadBehind'
  BY <1>1 DEF RunInv, DoneReached, ReadBehind, AtHand, Candidate
<1> QED BY <1>2, <1>3, <1>4 DEF IInv, RunInv

\* Commits of the user that reach the publish target keep the invariant.
LEMMA ContributeStep == ASSUME IInv, Contribute PROVE IInv'
<1>1. TypeOK /\ RepoInv
  BY DEF IInv
<1>2. /\ target' = target \cup branch["host"]
      /\ UNCHANGED <<candidate, branch, head, condition, outbox, pc, local, reached, switched,
                     failures, crashes, acts>>
  BY DEF Contribute, user, aux
<1>3. TypeOK'
  <2>1. target' \in Commit
    BY <1>1, <1>2 DEF TypeOK, Commit, Branches
  <2> QED BY <1>1, <1>2, <2>1, Injective, InjectiveAfter DEF TypeOK, OneItemEach, local
<1>4. RepoInv'
  BY <1>1, <1>2 DEF RepoInv, LandedKnown, TasksLanded, ContainedReached, Branches
<1> QED BY <1>2, <1>3, <1>4, Aside

\* An enqueue keeps the invariant.
LEMMA EnqueueStep == ASSUME IInv, NEW t \in Task, Enqueue(t) PROVE IInv'
<1>1. TypeOK /\ SucceededWasProjected /\ RepoInv /\ RunInv
  BY DEF IInv
<1> DEFINE item == [task |-> t, status |-> "pending", reason |-> "none"]
<1>2. /\ candidate[t] # None /\ \A i \in DOMAIN outbox : outbox[i].task # t
      /\ outbox' = Append(outbox, item)
      /\ UNCHANGED <<target, candidate, branch, head, condition, pc, list, at, current, owner,
                     reached, switched, failures, crashes, acts>>
  BY DEF Enqueue, Landed, HasItem, repo, user, local, aux
<1>3. item \in Item /\ item.task = t /\ item.status = "pending"
  BY DEF Item, Reasons
<1> HIDE DEF item
<1>4. outbox \in Seq(Item)
  BY <1>1 DEF TypeOK
<1>5. /\ DOMAIN outbox = 1 .. Len(outbox) /\ Len(outbox) \in Nat
      /\ outbox' \in Seq(Item) /\ Len(outbox') = Len(outbox) + 1
      /\ DOMAIN outbox' = 1 .. Len(outbox')
      /\ \A i \in DOMAIN outbox : outbox'[i] = outbox[i]
      /\ outbox'[Len(outbox')] = item
  BY <1>2, <1>3, <1>4, LenProperties, AppendProperties
<1>6. \A i \in DOMAIN outbox' : /\ i \in DOMAIN outbox => outbox'[i] = outbox[i]
                                /\ i \notin DOMAIN outbox => i = Len(outbox') /\ outbox'[i] = item
  BY <1>5
<1>7. OneItemEach'
  BY <1>1, <1>2, <1>3, <1>6, Injective DEF TypeOK, OneItemEach
<1>8. TypeOK'
  BY <1>1, <1>2, <1>5, <1>7, InjectiveAfter DEF TypeOK
<1>9. SucceededWasProjected'
  BY <1>1, <1>2, <1>3, <1>6 DEF SucceededWasProjected
<1>10. RepoInv'
  BY <1>1, <1>2 DEF RepoInv, LandedKnown, TasksLanded, ContainedReached
<1>11. ItemsLanded'
  BY <1>1, <1>2, <1>3, <1>6 DEF RunInv, ItemsLanded
<1>12. InList' /\ OwnerHasHost' /\ DoneReached' /\ ReadBehind'
  BY <1>1, <1>2 DEF RunInv, InList, OwnerHasHost, DoneReached, ReadBehind, AtHand, Candidate
<1> QED BY <1>8, <1>9, <1>10, <1>11, <1>12 DEF IInv, RunInv

\* The user's own change is in no candidate, so the branch contains no more of them.
LEMMA UserCommitStep == ASSUME IInv, NEW u \in UserChange, UserCommit(u) PROVE IInv'
<1>1. TypeOK /\ RepoInv
  BY DEF IInv
<1>2. /\ u \notin target /\ branch' = [branch EXCEPT !["host"] = @ \cup {u}]
      /\ acts < MaxUser /\ acts' = acts + 1
      /\ UNCHANGED <<target, candidate, head, condition, outbox, pc, local, reached, switched,
                     failures, crashes>>
  BY DEF UserCommit, Act, repo, user, aux
<1>3. TypeOK'
  <2>1. branch' \in [Branches -> Commit]
    BY <1>1, <1>2 DEF TypeOK, Commit
  <2>2. acts' \in 0 .. MaxUser
    BY <1>1, <1>2, CheckoutAssumption DEF TypeOK
  <2> QED BY <1>1, <1>2, <2>1, <2>2, Injective, InjectiveAfter DEF TypeOK, OneItemEach, local
<1>4. branch'["host"] = branch["host"] \cup {u} /\ branch'["other"] = branch["other"]
  BY <1>1, <1>2 DEF TypeOK, Branches
<1>5. RepoInv'
  <2>1. u \notin Task
    BY CheckoutAssumption
  <2>2. LandedKnown' /\ TasksLanded'
    BY <1>1, <1>2, <1>4, <2>1 DEF RepoInv, LandedKnown, TasksLanded, Branches
  <2>3. ContainedReached'
    BY <1>1, <1>2, <1>4 DEF RepoInv, LandedKnown, ContainedReached
  <2> QED BY <2>2, <2>3 DEF RepoInv
<1> QED BY <1>2, <1>3, <1>5, Aside

\* A reset by the user keeps the invariant.
LEMMA UserResetStep == ASSUME IInv, UserReset PROVE IInv'
<1>1. TypeOK /\ RepoInv
  BY DEF IInv
<1>2. /\ branch' = [branch EXCEPT !["host"] = {}]
      /\ acts < MaxUser /\ acts' = acts + 1
      /\ UNCHANGED <<target, candidate, head, condition, outbox, pc, local, reached, switched,
                     failures, crashes>>
  BY DEF UserReset, Act, repo, user, aux
<1>3. TypeOK'
  <2>1. branch' \in [Branches -> Commit]
    BY <1>1, <1>2 DEF TypeOK, Commit
  <2>2. acts' \in 0 .. MaxUser
    BY <1>1, <1>2, CheckoutAssumption DEF TypeOK
  <2> QED BY <1>1, <1>2, <2>1, <2>2, Injective, InjectiveAfter DEF TypeOK, OneItemEach, local
<1>4. branch'["host"] = {} /\ branch'["other"] = branch["other"]
  BY <1>1, <1>2 DEF TypeOK, Branches
<1>5. RepoInv'
  <2>1. LandedKnown' /\ TasksLanded'
    BY <1>1, <1>2, <1>4 DEF RepoInv, LandedKnown, TasksLanded, Branches
  <2>2. ContainedReached'
    BY <1>1, <1>2, <1>4 DEF RepoInv, LandedKnown, ContainedReached
  <2> QED BY <2>1, <2>2 DEF RepoInv
<1> QED BY <1>2, <1>3, <1>5, Aside

\* A switch of branches by the user keeps the invariant.
LEMMA UserSwitchStep == ASSUME IInv, NEW w \in Worktree, UserSwitch(w) PROVE IInv'
<1>1. TypeOK /\ RepoInv
  BY DEF IInv
<1>2. /\ head' = [head EXCEPT ![w] = IF @ = "host" THEN "other" ELSE "host"]
      /\ switched' = (switched \/ \E p \in Proc : owner[p] = w)
      /\ acts < MaxUser /\ acts' = acts + 1
      /\ UNCHANGED <<target, candidate, branch, condition, outbox, pc, local, reached,
                     failures, crashes>>
  BY DEF UserSwitch, Act, repo, aux
<1>3. TypeOK'
  <2>1. head' \in [Worktree -> Branches] /\ switched' \in BOOLEAN
    BY <1>1, <1>2 DEF TypeOK, Branches
  <2>2. acts' \in 0 .. MaxUser
    BY <1>1, <1>2, CheckoutAssumption DEF TypeOK
  <2> QED BY <1>1, <1>2, <2>1, <2>2, Injective, InjectiveAfter DEF TypeOK, OneItemEach, local
<1>4. RepoInv'
  BY <1>1, <1>2 DEF RepoInv, LandedKnown, TasksLanded, ContainedReached
<1>5. \A p \in Proc : owner[p] # None /\ ~switched' => head'[owner[p]] = head[owner[p]]
  BY <1>1, <1>2 DEF TypeOK
<1> QED BY <1>2, <1>3, <1>4, <1>5, Aside

\* An edit of the user keeps the invariant.
LEMMA UserEditStep == ASSUME IInv, NEW w \in Worktree, UserEdit(w) PROVE IInv'
<1>1. TypeOK /\ RepoInv
  BY DEF IInv
<1>2. PICK c \in Conditions : condition' = [condition EXCEPT ![w] = c]
  BY DEF UserEdit
<1>3. /\ acts < MaxUser /\ acts' = acts + 1
      /\ UNCHANGED <<target, candidate, branch, head, outbox, pc, local, reached, switched,
                     failures, crashes>>
  BY DEF UserEdit, Act, repo, aux
<1>4. TypeOK'
  <2>1. c \in SUBSET Facts
    BY <1>2 DEF Conditions, Facts
  <2>2. condition' \in [Worktree -> SUBSET Facts]
    BY <1>1, <1>2, <2>1 DEF TypeOK
  <2>3. acts' \in 0 .. MaxUser
    BY <1>1, <1>3, CheckoutAssumption DEF TypeOK
  <2> QED BY <1>1, <1>3, <2>2, <2>3, Injective, InjectiveAfter DEF TypeOK, OneItemEach, local
<1>5. RepoInv'
  BY <1>1, <1>3 DEF RepoInv, LandedKnown, TasksLanded, ContainedReached
<1> QED BY <1>3, <1>4, <1>5, Aside

-----------------------------------------------------------------------------
(* The steps of a run *)

\* Run p comes to l, with the listing s, the n-th item, the tip c and the worktree w.
Comes(p, l, s, n, c, w) ==
    /\ pc' = [pc EXCEPT ![p] = l] /\ list' = [list EXCEPT ![p] = s] /\ at' = [at EXCEPT ![p] = n]
    /\ current' = [current EXCEPT ![p] = c] /\ owner' = [owner EXCEPT ![p] = w]

\* The step changes what run p knows, by values of their types.
LEMMA Local ==
    ASSUME TypeOK, NEW p \in Proc,
           UNCHANGED <<repo, branch, user, outbox, reached, switched, failures, acts>>,
           crashes' \in 0 .. MaxCrashes,
           NEW l, NEW s, NEW n, NEW c, NEW w, Comes(p, l, s, n, c, w),
           l \in {"idle", "item", "inspect", "swap", "merge", "failed", "done"},
           s \in {list[p], outbox, <<>>}, n \in Nat \ {0},
           c \in {None} \cup Commit, w \in {None} \cup Worktree
    PROVE  /\ TypeOK'
           /\ pc'[p] = l /\ list'[p] = s /\ at'[p] = n /\ current'[p] = c /\ owner'[p] = w
           /\ \A q \in Proc \ {p} : /\ pc'[q] = pc[q] /\ at'[q] = at[q] /\ list'[q] = list[q]
                                    /\ current'[q] = current[q] /\ owner'[q] = owner[q]
<1>1. s \in Seq(Item)
  <2>1. list[p] \in Seq(Item) /\ outbox \in Seq(Item)
    BY DEF TypeOK
  <2>2. <<>> \in Seq(Item)
    BY EmptySeq
  <2> HIDE DEF Item
  <2> QED BY <2>1, <2>2
<1>2. list' \in [Proc -> Seq(Item)]
  BY <1>1 DEF TypeOK, Comes
<1>3. /\ pc' \in [Proc -> {"idle", "item", "inspect", "swap", "merge", "failed", "done"}]
      /\ at' \in [Proc -> Nat \ {0}] /\ current' \in [Proc -> {None} \cup Commit]
      /\ owner' \in [Proc -> {None} \cup Worktree]
  BY DEF TypeOK, Comes
<1>4. TypeOK'
  BY <1>2, <1>3, Injective, InjectiveAfter DEF TypeOK, OneItemEach, repo, user
<1>5. /\ pc'[p] = l /\ list'[p] = s /\ at'[p] = n /\ current'[p] = c /\ owner'[p] = w
  BY DEF TypeOK, Comes
<1>6. \A q \in Proc \ {p} : /\ pc'[q] = pc[q] /\ at'[q] = at[q] /\ list'[q] = list[q]
                            /\ current'[q] = current[q] /\ owner'[q] = owner[q]
  BY DEF TypeOK, Comes
<1> QED BY <1>4, <1>5, <1>6

\* A function stays as it is when it keeps its value.
LEMMA Same == ASSUME NEW S, NEW T, NEW f \in [S -> T], NEW x PROVE f = [f EXCEPT ![x] = f[x]]
OBVIOUS

\* The listing of the outbox keeps the invariant.
LEMMA StartPassStep == ASSUME IInv, NEW p \in Proc, StartPass(p) PROVE IInv'
<1>1. TypeOK
  BY DEF IInv
<1>2. /\ list' = [list EXCEPT ![p] = outbox] /\ at' = [at EXCEPT ![p] = 1]
      /\ pc' = [pc EXCEPT ![p] = "item"]
      /\ UNCHANGED <<repo, branch, user, outbox, current, owner, reached, switched,
                     failures, crashes, acts>>
  BY DEF StartPass, Goto, aux
<1>3. current' = [current EXCEPT ![p] = current[p]] /\ owner' = [owner EXCEPT ![p] = owner[p]]
  BY <1>1, <1>2, Same DEF TypeOK
<1>4. Comes(p, "item", outbox, 1, current[p], owner[p])
  BY <1>2, <1>3 DEF Comes
<1>5. /\ current[p] \in {None} \cup Commit /\ owner[p] \in {None} \cup Worktree
      /\ crashes' \in 0 .. MaxCrashes
  BY <1>1, <1>2 DEF TypeOK
<1>6. /\ TypeOK' /\ pc'[p] = "item" /\ list'[p] = outbox /\ owner'[p] = owner[p]
      /\ \A q \in Proc \ {p} : /\ pc'[q] = pc[q] /\ at'[q] = at[q] /\ list'[q] = list[q]
                               /\ current'[q] = current[q] /\ owner'[q] = owner[q]
  BY <1>1, <1>2, <1>4, <1>5, Local
<1>7. owner[p] # None /\ ~switched => head[owner[p]] = "host"
  BY DEF IInv, RunInv, OwnerHasHost
<1> QED BY <1>2, <1>6, <1>7, Moved

\* A run that ends or crashes forgets everything.
LEMMA LeaveStep ==
    ASSUME IInv, NEW p \in Proc, Leave(p), crashes' \in 0 .. MaxCrashes,
           UNCHANGED <<repo, branch, user, outbox, reached, switched, failures, acts>>
    PROVE  IInv'
<1>1. TypeOK
  BY DEF IInv
<1>2. Comes(p, "idle", <<>>, 1, None, None)
  BY DEF Leave, Goto, Comes
<1>3. /\ TypeOK' /\ pc'[p] = "idle" /\ list'[p] = <<>> /\ owner'[p] = None
      /\ \A q \in Proc \ {p} : /\ pc'[q] = pc[q] /\ at'[q] = at[q] /\ list'[q] = list[q]
                               /\ current'[q] = current[q] /\ owner'[q] = owner[q]
  BY <1>1, <1>2, Local
<1> QED BY <1>3, Moved

\* A run that goes on within its item, or to the next one, and writes nothing.
LEMMA GoOn ==
    ASSUME IInv, NEW p \in Proc,
           UNCHANGED <<repo, branch, user, outbox, reached, switched, failures, crashes, acts>>,
           NEW l, NEW n, NEW c, NEW w, Comes(p, l, list[p], n, c, w),
           l \in {"item", "inspect", "swap", "merge", "failed", "done"}, n \in Nat \ {0},
           c \in {None} \cup Commit, w \in {None} \cup Worktree,
           l # "item" => n = at[p] /\ at[p] \in DOMAIN list[p],
           l = "merge" => w # None,
           w # None /\ ~switched => head[w] = "host",
           l = "done" /\ ~switched => AtHand(p).task \in reached,
           l \in {"inspect", "swap"} => c # None /\ c \subseteq Candidate(p)
    PROVE  IInv'
<1>1. TypeOK
  BY DEF IInv
<1>2. crashes' \in 0 .. MaxCrashes
  BY <1>1 DEF TypeOK
<1>3. /\ TypeOK' /\ pc'[p] = l /\ list'[p] = list[p] /\ at'[p] = n
      /\ current'[p] = c /\ owner'[p] = w
      /\ \A q \in Proc \ {p} : /\ pc'[q] = pc[q] /\ at'[q] = at[q] /\ list'[q] = list[q]
                               /\ current'[q] = current[q] /\ owner'[q] = owner[q]
  BY <1>1, <1>2, Local
<1>4. l # "item" => AtHand(p)' = AtHand(p) /\ Candidate(p)' = Candidate(p)
  BY <1>3 DEF AtHand, Candidate, repo
<1> QED BY <1>3, <1>4, Moved

\* A run that brings a branch to its candidate: the host branch, or the one the user
\* has switched to.
LEMMA Advanced ==
    ASSUME IInv, NEW p \in Proc, pc[p] \in {"swap", "merge"}, NEW b \in Branches,
           b = "host" \/ switched,
           branch' = [branch EXCEPT ![b] = Candidate(p)],
           Reach(branch'["host"]), Goto(p, "done"),
           UNCHANGED <<repo, user, outbox, local, switched, aux, acts>>
    PROVE  IInv'
<1> USE DEF repo, user, local, aux
<1>1. TypeOK /\ SucceededWasProjected /\ RepoInv /\ RunInv
  BY DEF IInv
<1>2. at[p] \in DOMAIN list[p]
  BY <1>1 DEF RunInv, InList
<1>3. /\ AtHand(p).task \in Task /\ Candidate(p) \in Commit
      /\ candidate[AtHand(p).task] # None /\ Candidate(p) = candidate[AtHand(p).task]
  BY <1>1, <1>2, Handled DEF RunInv, Candidate
<1>4. reached' = reached \cup {t \in Task : candidate[t] # None /\ candidate[t] \subseteq branch'["host"]}
  BY DEF Reach, Landed
<1>5. /\ branch'[b] = Candidate(p) /\ \A a \in Branches \ {b} : branch'[a] = branch[a]
      /\ branch' \in [Branches -> Commit]
  BY <1>1, <1>3 DEF TypeOK
<1>6. TypeOK'
  <2>1. pc' \in [Proc -> {"idle", "item", "inspect", "swap", "merge", "failed", "done"}]
    BY <1>1 DEF TypeOK, Goto
  <2>2. reached' \subseteq Task
    BY <1>1, <1>4 DEF TypeOK
  <2> QED BY <1>1, <1>5, <2>1, <2>2, Injective, InjectiveAfter DEF TypeOK, OneItemEach
<1>7. SucceededWasProjected'
  BY <1>1, <1>4 DEF SucceededWasProjected
<1>8. RepoInv'
  <2>1. LandedKnown' /\ ContainedReached'
    BY <1>1, <1>4 DEF RepoInv, LandedKnown, ContainedReached
  <2>2. Candidate(p) \subseteq target
    BY <1>1, <1>3 DEF RepoInv, LandedKnown
  <2>3. TasksLanded'
    BY <1>1, <1>5, <2>2 DEF RepoInv, TasksLanded
  <2> QED BY <2>1, <2>3 DEF RepoInv
<1>9. /\ pc'[p] = "done" /\ \A q \in Proc \ {p} : pc'[q] = pc[q]
      /\ \A q \in Proc : AtHand(q)' = AtHand(q) /\ Candidate(q)' = Candidate(q)
  BY <1>1 DEF TypeOK, Goto, AtHand, Candidate
<1>10. ItemsLanded' /\ InList' /\ OwnerHasHost' /\ ReadBehind'
  BY <1>1, <1>2, <1>9 DEF RunInv, ItemsLanded, InList, OwnerHasHost, ReadBehind
<1>11. b = "host" => AtHand(p).task \in reached'
  BY <1>3, <1>4, <1>5
<1>12. DoneReached'
  BY <1>1, <1>4, <1>9, <1>11 DEF RunInv, DoneReached
<1> QED BY <1>6, <1>7, <1>8, <1>10, <1>12 DEF IInv, RunInv

\* The entries of a listing are 1 .. Len.
LEMMA Listed ==
    ASSUME TypeOK, NEW p \in Proc, at[p] <= Len(list[p]) PROVE at[p] \in DOMAIN list[p]
<1>1. list[p] \in Seq(Item) /\ at[p] \in Nat \ {0}
  BY DEF TypeOK
<1>2. DOMAIN list[p] = 1 .. Len(list[p]) /\ Len(list[p]) \in Nat
  BY <1>1, LenProperties
<1> QED BY <1>1, <1>2

\* Passing over an item that succeeded keeps the invariant.
LEMMA SkipSucceededStep == ASSUME IInv, NEW p \in Proc, SkipSucceeded(p) PROVE IInv'
<1>1. TypeOK
  BY DEF IInv
<1>2. at[p] + 1 \in Nat \ {0}
  BY <1>1 DEF TypeOK
<1>3. Comes(p, "item", list[p], at[p] + 1, None, None)
  BY <1>1, Same DEF TypeOK, SkipSucceeded, NextItem, Forget, Goto, Comes
<1>4. UNCHANGED <<repo, branch, user, outbox, reached, switched, failures, crashes, acts>>
  BY DEF SkipSucceeded, aux
<1> QED BY <1>2, <1>3, <1>4, GoOn

\* The reading of the tips keeps the invariant.
LEMMA ObserveStep == ASSUME IInv, NEW p \in Proc, Observe(p) PROVE IInv'
<1> DEFINE tip == branch["host"]
<1>1. TypeOK /\ RepoInv /\ RunInv
  BY DEF IInv
<1>2. /\ at[p] \in DOMAIN list[p]
      /\ UNCHANGED <<repo, branch, user, reached, switched, aux, acts>>
  BY <1>1, Listed DEF Observe
<1>3. tip \in Commit
  BY <1>1 DEF TypeOK, Branches
<1>4. AtHand(p).task \in Task /\ candidate[AtHand(p).task] # None
  BY <1>1, <1>2, Handled DEF RunInv
<1>5. CASE AlreadyContains(p, tip) /\ MarkSucceeded(p)
  <2>1. AtHand(p).task \in reached
    BY <1>1, <1>4, <1>5 DEF RepoInv, ContainedReached, AlreadyContains, Candidate
  <2> QED BY <1>2, <1>5, <2>1, Marked DEF MarkSucceeded, Reasons
<1>6. CASE MarkPending(p, "branch_diverged")
  BY <1>2, <1>6, Marked DEF MarkPending, Reasons
<1>7. CASE /\ IsFastForward(p, tip) /\ current' = [current EXCEPT ![p] = tip]
           /\ Goto(p, "inspect") /\ UNCHANGED <<outbox, list, at, owner>>
  <2>1. Comes(p, "inspect", list[p], at[p], tip, owner[p])
    BY <1>1, <1>7, Same DEF TypeOK, Goto, Comes
  <2>2. owner[p] # None /\ ~switched => head[owner[p]] = "host"
    BY <1>1 DEF RunInv, OwnerHasHost
  <2>3. tip # None /\ tip \subseteq Candidate(p)
    BY <1>3, <1>7, CommitExists DEF IsFastForward
  <2>4. at[p] \in Nat \ {0} /\ owner[p] \in {None} \cup Worktree
    BY <1>1 DEF TypeOK
  <2>5. UNCHANGED <<repo, branch, user, outbox, reached, switched, failures, crashes, acts>>
    BY <1>2, <1>7 DEF aux
  <2> HIDE DEF tip
  <2> QED BY <1>2, <1>3, <2>1, <2>2, <2>3, <2>4, <2>5, GoOn
<1> QED BY <1>5, <1>6, <1>7 DEF Observe

\* The inspection of the worktrees keeps the invariant.
LEMMA InspectStep == ASSUME IInv, NEW p \in Proc, Inspect(p) PROVE IInv'
<1>1. TypeOK /\ RunInv
  BY DEF IInv
<1>2. /\ at[p] \in DOMAIN list[p]
      /\ UNCHANGED <<repo, branch, user, reached, switched, aux, acts>>
  BY <1>1 DEF Inspect, RunInv, InList
<1>3. ASSUME NEW reason \in Reasons, MarkPending(p, reason) PROVE IInv'
  BY <1>2, <1>3, Marked DEF MarkPending
<1>4. CASE MarkPending(p, "multiple_worktrees")
  BY <1>3, <1>4 DEF Reasons
<1>5. current[p] # None /\ current[p] \subseteq Candidate(p)
  BY <1>1 DEF RunInv, ReadBehind, Inspect
<1>6. /\ at[p] \in Nat \ {0} /\ owner[p] \in {None} \cup Worktree
      /\ current[p] \in {None} \cup Commit
      /\ owner[p] # None /\ ~switched => head[owner[p]] = "host"
  BY <1>1 DEF TypeOK, RunInv, OwnerHasHost
<1>7. CASE Goto(p, "swap") /\ UNCHANGED <<outbox, local>>
  <2>1. Comes(p, "swap", list[p], at[p], current[p], owner[p])
    BY <1>1, <1>7, Same DEF TypeOK, Goto, Comes, local
  <2>2. UNCHANGED <<repo, branch, user, outbox, reached, switched, failures, crashes, acts>>
    BY <1>2, <1>7 DEF aux
  <2> QED BY <1>2, <1>5, <1>6, <2>1, <2>2, GoOn
<1>8. ASSUME Cardinality(Owners) = 1, NEW w, w = CHOOSE v \in Owners : TRUE,
             owner' = [owner EXCEPT ![p] = w], Goto(p, "merge"),
             UNCHANGED <<outbox, list, at, current>>
      PROVE  IInv'
  <2>1. Owners # {}
    BY <1>8, FS_EmptySet
  <2>2. w \in Owners
    BY <1>8, <2>1
  <2>3. w \in Worktree /\ w # None /\ head[w] = "host"
    BY <2>2, CheckoutAssumption DEF Owners
  <2>4. Comes(p, "merge", list[p], at[p], current[p], w)
    BY <1>1, <1>8, Same DEF TypeOK, Goto, Comes
  <2>5. UNCHANGED <<repo, branch, user, outbox, reached, switched, failures, crashes, acts>>
    BY <1>2, <1>8 DEF aux
  <2> QED BY <1>2, <1>6, <2>3, <2>4, <2>5, GoOn
<1>9. CASE /\ Cardinality(Owners) = 1
           /\ LET w == CHOOSE v \in Owners : TRUE IN
                \/ Unsafe(w) # "none" /\ MarkPending(p, Unsafe(w))
                \/ /\ Unsafe(w) = "none" /\ owner' = [owner EXCEPT ![p] = w]
                   /\ Goto(p, "merge") /\ UNCHANGED <<outbox, list, at, current>>
  BY <1>3, <1>8, <1>9, UnsafeReason
<1> QED BY <1>4, <1>7, <1>9 DEF Inspect

\* A git command that did not advance the branch, or had nothing to advance.
LEMMA GitStep ==
    ASSUME IInv, NEW p \in Proc, pc[p] \in {"swap", "merge"}, NEW l \in {"failed", "done"},
           l = "done" /\ ~switched => AtHand(p).task \in reached,
           Goto(p, l), failures' \in 0 .. MaxFailures,
           UNCHANGED <<repo, branch, user, outbox, local, reached, switched, crashes, acts>>
    PROVE  IInv'
<1>1. TypeOK /\ RunInv
  BY DEF IInv
<1>2. TypeOK'
  <2>1. pc' \in [Proc -> {"idle", "item", "inspect", "swap", "merge", "failed", "done"}]
    BY <1>1 DEF TypeOK, Goto
  <2> QED BY <1>1, <2>1, Injective, InjectiveAfter DEF TypeOK, OneItemEach, repo, user, local
<1>3. /\ pc'[p] = l /\ \A q \in Proc \ {p} : pc'[q] = pc[q]
      /\ list' = list /\ at' = at /\ current' = current /\ owner' = owner
      /\ AtHand(p)' = AtHand(p)
  BY <1>1 DEF TypeOK, Goto, local, AtHand
<1>4. at[p] \in DOMAIN list[p] /\ (owner[p] # None /\ ~switched => head[owner[p]] = "host")
  BY <1>1 DEF RunInv, InList, OwnerHasHost
<1> QED BY <1>2, <1>3, <1>4, Moved

\* The swap of the host branch keeps the invariant.
LEMMA SwapStep == ASSUME IInv, NEW p \in Proc, Swap(p) PROVE IInv'
<1>1. TypeOK /\ pc[p] = "swap" /\ "host" \in Branches
  BY DEF IInv, Swap, Branches
<1>2. failures \in 0 .. MaxFailures
  BY <1>1 DEF TypeOK
<1>3. CASE /\ branch' = [branch EXCEPT !["host"] = Candidate(p)] /\ Reach(branch'["host"])
           /\ Goto(p, "done") /\ UNCHANGED failures
  BY <1>1, <1>3, Advanced DEF Swap, aux
<1>4. CASE Goto(p, "failed") /\ UNCHANGED <<branch, reached, failures>>
  BY <1>1, <1>2, <1>4, GitStep DEF Swap
<1>5. CASE Fail /\ Goto(p, "failed") /\ UNCHANGED <<branch, reached>>
  <2>1. failures' \in 0 .. MaxFailures
    BY <1>2, <1>5, CheckoutAssumption DEF Fail
  <2> QED BY <1>1, <1>5, <2>1, GitStep DEF Swap
<1> QED BY <1>3, <1>4, <1>5 DEF Swap

\* The fast-forward of a worktree keeps the invariant.
LEMMA MergeStep == ASSUME IInv, NEW p \in Proc, Merge(p) PROVE IInv'
<1> DEFINE b == head[owner[p]]
<1>1. TypeOK /\ pc[p] = "merge" /\ RepoInv /\ RunInv
  BY DEF IInv, Merge
<1>2. failures \in 0 .. MaxFailures
  BY <1>1 DEF TypeOK
<1>3. owner[p] # None /\ (~switched => b = "host")
  BY <1>1 DEF RunInv, OwnerHasHost
<1>4. b \in Branches
  BY <1>1, <1>3 DEF TypeOK
<1>5. CASE Candidate(p) \subseteq branch[b] /\ Goto(p, "done") /\ UNCHANGED <<branch, reached, failures>>
  <2>1. AtHand(p).task \in Task /\ candidate[AtHand(p).task] # None
    BY <1>1, Handled DEF RunInv, InList
  <2>2. ~switched => AtHand(p).task \in reached
    BY <1>1, <1>3, <1>5, <2>1 DEF RepoInv, ContainedReached, Candidate
  <2> QED BY <1>1, <1>2, <1>5, <2>2, GitStep DEF Merge
<1>6. CASE /\ branch' = [branch EXCEPT ![b] = Candidate(p)] /\ Reach(branch'["host"])
           /\ Goto(p, "done") /\ UNCHANGED failures
  <2>1. b = "host" \/ switched
    BY <1>3
  <2> HIDE DEF b
  <2>2. UNCHANGED <<repo, user, outbox, local, switched, aux, acts>>
    BY <1>6 DEF Merge, aux
  <2> QED BY <1>1, <1>4, <1>6, <2>1, <2>2, Advanced
<1>7. CASE Goto(p, "failed") /\ UNCHANGED <<branch, reached, failures>>
  BY <1>1, <1>2, <1>7, GitStep DEF Merge
<1>8. CASE Fail /\ Goto(p, "failed") /\ UNCHANGED <<branch, reached>>
  <2>1. failures' \in 0 .. MaxFailures
    BY <1>2, <1>8, CheckoutAssumption DEF Fail
  <2> QED BY <1>1, <1>8, <2>1, GitStep DEF Merge
<1> QED BY <1>5, <1>6, <1>7, <1>8 DEF Merge

\* The second reading keeps the invariant.
LEMMA RecheckStep == ASSUME IInv, NEW p \in Proc, Recheck(p) PROVE IInv'
<1>1. TypeOK /\ RepoInv /\ RunInv
  BY DEF IInv
<1>2. /\ at[p] \in DOMAIN list[p]
      /\ UNCHANGED <<repo, branch, user, reached, switched, aux, acts>>
  BY <1>1 DEF Recheck, RunInv, InList
<1>3. CASE AlreadyContains(p, branch["host"]) /\ MarkSucceeded(p)
  <2>1. AtHand(p).task \in Task /\ candidate[AtHand(p).task] # None
    BY <1>1, <1>2, Handled DEF RunInv
  <2>2. AtHand(p).task \in reached
    BY <1>1, <1>3, <2>1 DEF RepoInv, ContainedReached, AlreadyContains, Candidate
  <2> QED BY <1>2, <1>3, <2>2, Marked DEF MarkSucceeded, Reasons
<1>4. CASE MarkPending(p, PendingReasonAfterFailure(p))
  BY <1>2, <1>4, FailureReason, Marked DEF MarkPending
<1> QED BY <1>3, <1>4 DEF Recheck

\* The write of an outcome keeps the invariant.
LEMMA RecordStep == ASSUME IInv, NEW p \in Proc, Record(p) PROVE IInv'
<1>1. RunInv
  BY DEF IInv
<1>2. /\ at[p] \in DOMAIN list[p] /\ (~switched => AtHand(p).task \in reached)
      /\ UNCHANGED <<repo, branch, user, reached, switched, aux, acts>>
  BY <1>1 DEF Record, RunInv, InList, DoneReached
<1> QED BY <1>2, Marked DEF Record, MarkSucceeded, Reasons

\* The end of a pass keeps the invariant.
LEMMA EndPassStep == ASSUME IInv, NEW p \in Proc, EndPass(p) PROVE IInv'
<1>1. crashes' \in 0 .. MaxCrashes
  BY DEF EndPass, aux, IInv, TypeOK
<1> QED BY <1>1, LeaveStep DEF EndPass, aux

\* A crash keeps the invariant.
LEMMA CrashStep == ASSUME IInv, NEW p \in Proc, Crash(p) PROVE IInv'
<1>1. crashes' \in 0 .. MaxCrashes
  BY CheckoutAssumption DEF Crash, IInv, TypeOK
<1> QED BY <1>1, LeaveStep DEF Crash

\* every step keeps it,
THEOREM NextInv == IInv /\ [Next]_vars => IInv'
<1> SUFFICES ASSUME IInv, [Next]_vars PROVE IInv'
  OBVIOUS
<1>1. CASE UNCHANGED vars
  <2>1. UNCHANGED <<target, candidate, branch, head, condition, outbox, pc, list, at, current,
                    owner, reached, switched, failures, crashes, acts>>
    BY <1>1 DEF vars, repo, user, local, aux
  <2>2. TypeOK'
    BY <2>1, Injective, InjectiveAfter DEF IInv, TypeOK, OneItemEach
  <2>3. RepoInv'
    BY <2>1 DEF IInv, RepoInv, LandedKnown, TasksLanded, ContainedReached
  <2> QED BY <2>1, <2>2, <2>3, Aside DEF local
<1>2. ASSUME NEW p \in Proc, StartPass(p) \/ Step(p) \/ Crash(p) PROVE IInv'
  BY <1>2, StartPassStep, SkipSucceededStep, ObserveStep, InspectStep, SwapStep, MergeStep,
     RecheckStep, RecordStep, EndPassStep, CrashStep DEF Step
<1>3. ASSUME NEW t \in Task, Land(t) \/ Enqueue(t) PROVE IInv'
  BY <1>3, LandStep, EnqueueStep
<1>4. CASE UserNext
  BY <1>4, UserCommitStep, UserResetStep, UserSwitchStep, UserEditStep DEF UserNext
<1> QED BY <1>1, <1>2, <1>3, <1>4, ContributeStep DEF Next

\* The inductive invariant holds (the checkout outbox, hubCheckoutProjection.ts).
THEOREM IInvHolds == Spec => []IInv
BY InitInv, NextInv, PTL DEF Spec

-----------------------------------------------------------------------------
(* The properties *)

\* The outbox is well formed, and an item is recorded as projected only when the host
\* branch has contained its candidate, unless the user switched the worktree under a run
\* (enqueueHubCheckoutProjection, projectOneItem), for any number of tasks, runs,
\* worktrees, failures and crashes.
THEOREM OutboxTrue == Spec => []OutboxIsTrue
<1>1. IInv => OutboxIsTrue
  BY DEF IInv, OutboxIsTrue
<1> QED BY <1>1, IInvHolds, PTL

\* The Hub only adds to a branch of the user.
LEMMA StepKeeps ==
    ASSUME IInv, [Next]_vars, acts' = acts, NEW b \in Branches
    PROVE  branch[b] \subseteq branch'[b]
<1>1. TypeOK /\ RunInv
  BY DEF IInv
<1>2. acts # acts + 1
  BY <1>1 DEF TypeOK
<1>3. ASSUME NEW p \in Proc, Swap(p) PROVE branch[b] \subseteq branch'[b]
  <2>1. SwapHolds(p) => branch["host"] \subseteq Candidate(p)
    BY <1>1, <1>3 DEF Swap, SwapHolds, RunInv, ReadBehind
  <2>2. \/ SwapHolds(p) /\ branch' = [branch EXCEPT !["host"] = Candidate(p)]
        \/ branch' = branch
    BY <1>3 DEF Swap
  <2> QED BY <1>1, <2>1, <2>2 DEF TypeOK
<1>4. ASSUME NEW p \in Proc, Merge(p) PROVE branch[b] \subseteq branch'[b]
  <2>1. \/ /\ branch[head[owner[p]]] \subseteq Candidate(p)
           /\ branch' = [branch EXCEPT ![head[owner[p]]] = Candidate(p)]
        \/ branch' = branch
    BY <1>4 DEF Merge, MergeAdvances
  <2>2. PICK a : a = head[owner[p]]
    OBVIOUS
  <2>3. CASE branch[a] \subseteq Candidate(p) /\ branch' = [branch EXCEPT ![a] = Candidate(p)]
    <3>1. branch \in [Branches -> Commit]
      BY <1>1 DEF TypeOK
    <3>2. branch'[b] = IF b = a THEN Candidate(p) ELSE branch[b]
      BY <2>3, <3>1
    <3> QED BY <2>3, <3>2
  <2> QED BY <2>1, <2>2, <2>3
<1>5. ASSUME NEW p \in Proc,
             \/ StartPass(p) \/ Crash(p) \/ SkipSucceeded(p) \/ Observe(p) \/ Inspect(p)
             \/ Recheck(p) \/ Record(p) \/ EndPass(p)
      PROVE  branch' = branch
  BY <1>5 DEF StartPass, Crash, SkipSucceeded, Observe, Inspect, Recheck, Record, EndPass
<1>6. ASSUME NEW t \in Task, Land(t) \/ Enqueue(t) PROVE branch' = branch
  BY <1>6 DEF Land, Enqueue
<1>7. ~UserNext
  BY <1>2 DEF UserNext, UserCommit, UserReset, UserSwitch, UserEdit, Act
<1>8. CASE UNCHANGED vars
  BY <1>8 DEF vars
<1> QED BY <1>3, <1>4, <1>5, <1>6, <1>7, <1>8 DEF Next, Step, Contribute

\* No step of the Hub takes a commit off a branch of the user (attemptCas,
\* attemptFastForward), however the steps of runs, failures and users interleave.
THEOREM CommitsKept == Spec => UserCommitsKept
<1>1. IInv /\ [Next]_vars => [acts' = acts => \A b \in Branches : branch[b] \subseteq branch'[b]]_vars
  BY StepKeeps
<1> QED BY <1>1, IInvHolds, PTL DEF Spec, UserCommitsKept
=============================================================================
