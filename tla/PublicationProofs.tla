-------------------------- MODULE PublicationProofs --------------------------
(***************************************************************************)
(* Proofs about Publication: what the outbox and the report of a delivery  *)
(* say has been on the remote, and a push takes something off the remote   *)
(* only when the remote is what the item's enqueue observed.               *)
(*                                                                         *)
(* The argument: a listing is older than the outbox, but the outbox only   *)
(* grows and the items keep their keys, so that what a run writes back     *)
(* replaces an item of the same task (Listing).  A candidate has its own   *)
(* task, which is nowhere before it landed, and others push only changes   *)
(* nobody had before: when a tip contains a candidate, a push of the Hub   *)
(* brought it to the remote (SeenPublished).                               *)
(***************************************************************************)
EXTENDS Publication, FiniteSetTheorems, SequenceTheorems, TLAPS

-----------------------------------------------------------------------------
(* The inductive invariant *)

\* The parts of TypeOK.
OneItemEach ==
    \A i, j \in DOMAIN outbox :
        outbox[i].task = outbox[j].task /\ (outbox[i].reason = "unset") = (outbox[j].reason = "unset")
        => i = j

OutboxType == outbox \in Seq(Item) /\ OneItemEach

RepoType ==
    /\ remoteTarget \in {"set", "unset", "malformed"}
    /\ target \in Commit /\ candidate \in [Task -> {None} \cup Commit]
    /\ known \subseteq Commit /\ remote \in {Absent} \cup Commit
    /\ published \subseteq Task /\ spare \subseteq Foreign

RunType ==
    /\ pc \in [Proc -> {"idle", "landed", "item", "fetch", "push", "recheck", "ack", "confirm"}]
    /\ stage \in [Proc -> Stages] /\ job \in [Proc -> Task \cup {None}]
    /\ list \in [Proc -> Seq(Item)] /\ at \in [Proc -> Nat \ {0}]
    /\ tip \in [Proc -> {Absent} \cup Commit]

CountType ==
    failures \in 0 .. MaxFailures /\ rewinds \in 0 .. MaxRewinds /\ crashes \in 0 .. MaxCrashes

\* What others will push is new.
SpareNew == spare \cap target = {} /\ (remote # Absent => spare \cap remote = {})

\* A candidate has its task and is in the publish target.
LandedKnown ==
    \A t \in Task : candidate[t] # None => t \in candidate[t] /\ candidate[t] \subseteq target

\* Only landed tasks are in the publish target, on the remote and in the tips observed.
TasksLanded ==
    \A t \in Task : candidate[t] = None =>
        /\ t \notin target
        /\ remote # Absent => t \notin remote
        /\ \A p \in Proc : tip[p] # Absent => t \notin tip[p]

\* The candidates that the tip r contains have been on the remote.
Seen(r) ==
    r # Absent => \A t \in Task : candidate[t] # None /\ candidate[t] \subseteq r => t \in published

SeenPublished == Seen(remote) /\ \A p \in Proc : Seen(tip[p])

\* The items are those of landed tasks.
ItemsLanded == \A i \in DOMAIN outbox : candidate[outbox[i].task] # None

\* The parts of an item that no write changes.
SameKey(a, b) ==
    a.task = b.task /\ a.expected = b.expected /\ ((a.reason = "unset") <=> (b.reason = "unset"))

\* A run has listed the items of the outbox, at their places.
Listing(p) ==
    \A i \in DOMAIN list[p] :
        /\ i \in DOMAIN outbox /\ SameKey(list[p][i], outbox[i])
        /\ list[p][i].status = "succeeded" => list[p][i].task \in published

\* A run is at an item it listed, has pushed what it confirms, and pushes with the lease
\* of the enqueue or on top of the observed tip.
Handling(p) ==
    /\ pc[p] \in {"fetch", "push", "recheck", "ack", "confirm"} =>
           at[p] \in DOMAIN list[p] /\ Current(p).reason \notin {"unset", "integrity"}
    /\ pc[p] \in {"ack", "confirm"} => Current(p).task \in published
    /\ pc[p] = "push" => \/ tip[p] \in {Absent, Current(p).expected}
                         \/ tip[p] \subseteq candidate[Current(p).task]

\* A run that delivers a job has its item, and has published it when it reports so.
Delivering(p) ==
    /\ pc[p] \in {"idle", "landed"} => stage[p] = "sync"
    /\ pc[p] = "landed" => job[p] \in Task /\ candidate[job[p]] # None
    /\ stage[p] # "sync" => job[p] \in Task
    /\ stage[p] # "sync" /\ remoteTarget # "malformed" =>
           \E i \in DOMAIN list[p] : list[p][i].task = job[p]
    /\ stage[p] = "delivered" /\ remoteTarget # "malformed" => job[p] \in published

RepoInv == RepoType /\ SpareNew /\ LandedKnown /\ TasksLanded /\ SeenPublished
OutboxInv == OutboxType /\ ItemsLanded /\ SucceededWasPublished
RunOK(p) == Listing(p) /\ Handling(p) /\ Delivering(p)
Reported == delivered \subseteq Task /\ DeliveredWasPublished
IInv == RepoInv /\ OutboxInv /\ RunType /\ (\A p \in Proc : RunOK(p)) /\ Reported /\ CountType

-----------------------------------------------------------------------------
(* The operators *)

\* A set of indices has a least one.
LEMMA Least ==
    ASSUME NEW n \in Nat, NEW S \in SUBSET (1 .. n), S # {}
    PROVE  \E j \in S : \A k \in S : j <= k
<1> DEFINE below(j) == {k \in S : k <= j}
           F == {below(j) : j \in S}
<1>1. IsFiniteSet(1 .. n)
  BY FS_Interval
<1>2. IsFiniteSet(S)
  BY <1>1, FS_Subset
<1>3. IsWellFoundedOn(StrictSubsetOrdering(S), SUBSET S)
  BY <1>2, FS_StrictSubsetOrderingWellFounded, FS_FiniteSubsetsOfFinite
<1>4. F \subseteq SUBSET S /\ F # {}
  OBVIOUS
<1>5. PICK x \in F : \A y \in F : ~(<<y, x>> \in StrictSubsetOrdering(S))
  <2> HIDE DEF F
  <2> QED BY <1>3, <1>4, WFMin
<1>6. PICK j \in S : x = below(j)
  OBVIOUS
<1>7. ASSUME NEW k \in S PROVE j <= k
  <2>1. j \in Nat /\ k \in Nat /\ \A i \in S : i \in Nat
    OBVIOUS
  <2> SUFFICES ASSUME k < j PROVE FALSE
    BY <2>1
  <2>2. ASSUME NEW i \in below(k) PROVE i \in below(j)
    <3>1. i \in S /\ i \in Nat /\ i <= k
      BY <2>1
    <3>2. i <= j
      BY <2>1, <3>1
    <3> QED BY <3>1, <3>2
  <2>3. j \in below(j)
    BY <2>1
  <2>4. ~(j <= k)
    BY <2>1
  <2>5. j \notin below(k)
    BY <2>4
  <2>6. below(k) \in F /\ below(k) \in SUBSET S /\ below(j) \in SUBSET S
    OBVIOUS
  <2>7. <<below(k), x>> \in StrictSubsetOrdering(S)
    <3> HIDE DEF below
    <3> QED BY <1>6, <2>2, <2>3, <2>5, <2>6 DEF StrictSubsetOrdering
  <2> QED BY <1>5, <2>6, <2>7
<1> QED BY <1>7

\* The next pending item is an index, or the one after the last.
LEMMA NextIndex ==
    ASSUME NEW items \in Seq(Item), NEW i PROVE NextPending(items, i) \in Nat \ {0}
<1> DEFINE rest == {j \in DOMAIN items : j > i /\ items[j].status = "pending"}
<1>1. Len(items) \in Nat /\ DOMAIN items = 1 .. Len(items)
  BY LenProperties
<1>2. CASE rest = {}
  BY <1>1, <1>2 DEF NextPending
<1>3. CASE rest # {}
  <2>1. rest \in SUBSET (1 .. Len(items))
    BY <1>1
  <2> HIDE DEF rest
  <2>2. \E j \in rest : \A k \in rest : j <= k
    BY <1>1, <1>3, <2>1, Least
  <2>3. (CHOOSE j \in rest : \A k \in rest : j <= k) \in rest
    BY <2>2
  <2>4. NextPending(items, i) = CHOOSE j \in rest : \A k \in rest : j <= k
    BY <1>3 DEF NextPending, rest
  <2>5. NextPending(items, i) \in 1 .. Len(items)
    BY <2>1, <2>3, <2>4
  <2> QED BY <1>1, <2>5
<1> QED BY <1>2, <1>3

\* No commit is Absent or None.
LEMMA CommitExists == \A c \in Commit : c # Absent /\ c # None
BY PublicationAssumption

\* The outbox grows, and its items keep their keys.
Kept ==
    /\ DOMAIN outbox \subseteq DOMAIN outbox'
    /\ \A i \in DOMAIN outbox : SameKey(outbox[i], outbox'[i])

\* A function stays as it is when it keeps its value.
LEMMA Same == ASSUME NEW S, NEW T, NEW f \in [S -> T], NEW x PROVE f = [f EXCEPT ![x] = f[x]]
OBVIOUS

\* The parts make up the type invariant.
LEMMA TypeParts == RepoType /\ OutboxType /\ RunType /\ CountType /\ delivered \subseteq Task => TypeOK
BY DEF RepoType, OutboxType, OneItemEach, RunType, CountType, TypeOK

\* Run p comes to l at the n-th item of the listing s, at stage g with job j and the tip r.
Comes(p, l, g, j, s, n, r) ==
    /\ pc' = [pc EXCEPT ![p] = l] /\ stage' = [stage EXCEPT ![p] = g]
    /\ job' = [job EXCEPT ![p] = j] /\ list' = [list EXCEPT ![p] = s]
    /\ at' = [at EXCEPT ![p] = n] /\ tip' = [tip EXCEPT ![p] = r]

\* The other runs stay where they are.
OthersStay(p) ==
    \A q \in Proc \ {p} : /\ pc'[q] = pc[q] /\ stage'[q] = stage[q] /\ job'[q] = job[q]
                          /\ list'[q] = list[q] /\ at'[q] = at[q] /\ tip'[q] = tip[q]

\* What a step of a run leaves of its own state and of that of the others.
LEMMA Local ==
    ASSUME RunType, NEW p \in Proc, NEW l, NEW g, NEW j, NEW s, NEW n, NEW r,
           Comes(p, l, g, j, s, n, r),
           l \in {"idle", "landed", "item", "fetch", "push", "recheck", "ack", "confirm"},
           g \in Stages, j \in Task \cup {None}, s \in Seq(Item), n \in Nat \ {0},
           r \in {Absent} \cup Commit
    PROVE  /\ RunType' /\ OthersStay(p)
           /\ pc'[p] = l /\ stage'[p] = g /\ job'[p] = j /\ list'[p] = s /\ at'[p] = n /\ tip'[p] = r
<1>1. /\ pc' \in [Proc -> {"idle", "landed", "item", "fetch", "push", "recheck", "ack", "confirm"}]
      /\ at' \in [Proc -> Nat \ {0}]
  BY DEF RunType, Comes
<1>2. stage' \in [Proc -> Stages]
  BY DEF RunType, Comes
<1>3. job' \in [Proc -> Task \cup {None}]
  BY DEF RunType, Comes
<1>4. list' \in [Proc -> Seq(Item)]
  BY DEF RunType, Comes
<1>5. tip' \in [Proc -> {Absent} \cup Commit]
  BY DEF RunType, Comes
<1>6. OthersStay(p)
  BY DEF RunType, Comes, OthersStay
<1>7. /\ pc'[p] = l /\ stage'[p] = g /\ job'[p] = j /\ list'[p] = s /\ at'[p] = n /\ tip'[p] = r
  BY DEF RunType, Comes
<1> QED BY <1>1, <1>2, <1>3, <1>4, <1>5, <1>6, <1>7 DEF RunType

\* The items of the outbox and of the listings are items, and so their tasks are tasks.
LEMMA Items ==
    /\ OutboxType => \A i \in DOMAIN outbox : outbox[i] \in Item /\ outbox[i].task \in Task
    /\ RunType => \A p \in Proc : \A i \in DOMAIN list[p] :
                      list[p][i] \in Item /\ list[p][i].task \in Task
<1>1. \A x \in Item : x.task \in Task
  BY DEF Item
<1>2. ASSUME OutboxType, NEW i \in DOMAIN outbox PROVE outbox[i] \in Item
  BY <1>2, ElementOfSeq DEF OutboxType
<1>3. ASSUME RunType, NEW p \in Proc, NEW i \in DOMAIN list[p] PROVE list[p][i] \in Item
  <2>1. list[p] \in Seq(Item)
    BY <1>3 DEF RunType
  <2> QED BY <2>1, ElementOfSeq
<1> QED BY <1>1, <1>2, <1>3

\* What is in the listing of a run is of a landed task.
LEMMA ListLanded ==
    ASSUME RunType, OutboxInv, NEW p \in Proc, Listing(p), NEW i \in DOMAIN list[p]
    PROVE  /\ list[p][i] \in Item /\ list[p][i].task \in Task /\ i \in DOMAIN outbox
           /\ candidate[list[p][i].task] # None
BY Items DEF OutboxInv, ItemsLanded, Listing, SameKey

\* A run is as well as it was when its own state stays, the candidates of landed tasks stay,
\* and the outbox and what was published only grow.
LEMMA StillOK ==
    ASSUME RunType, OutboxInv, NEW q \in Proc, RunOK(q), Kept,
           pc'[q] = pc[q], stage'[q] = stage[q], job'[q] = job[q], list'[q] = list[q],
           at'[q] = at[q], tip'[q] = tip[q],
           \A t \in Task : candidate[t] # None => candidate'[t] = candidate[t],
           published \subseteq published', (remoteTarget' = "malformed") = (remoteTarget = "malformed")
    PROVE  RunOK(q)'
<1>1. Listing(q)'
  BY DEF RunOK, Listing, Kept, SameKey
<1>2. Handling(q)'
  <2>1. at[q] \in DOMAIN list[q] =>
            Current(q)' = Current(q) /\ candidate'[Current(q).task] = candidate[Current(q).task]
    <3> SUFFICES ASSUME at[q] \in DOMAIN list[q]
                 PROVE  Current(q)' = Current(q)
                        /\ candidate'[Current(q).task] = candidate[Current(q).task]
      OBVIOUS
    <3>1. Current(q).task \in Task /\ candidate[Current(q).task] # None
      BY ListLanded DEF RunOK, Current
    <3> QED BY <3>1 DEF Current
  <2> QED BY <2>1 DEF RunOK, Handling
<1>3. Delivering(q)'
  BY DEF RunOK, Delivering
<1> QED BY <1>1, <1>2, <1>3 DEF RunOK

\* Nothing happens to the outbox when it stays.
LEMMA KeptSame == ASSUME outbox' = outbox PROVE Kept
BY DEF Kept, SameKey

\* An item of a new key is appended.
LEMMA Appended ==
    ASSUME OutboxInv, NEW t \in Task, candidate[t] # None, NEW e \in {Absent} \cup Commit,
           NEW reason \in {"none", "unset"}, ~HasItem(t, reason = "unset"),
           outbox' = Append(outbox, NewItem(t, e, reason)),
           candidate' = candidate, published' = published
    PROVE  OutboxInv' /\ Kept /\ \E i \in DOMAIN outbox' : outbox'[i].task = t
<1> DEFINE item == NewItem(t, e, reason)
<1>1. /\ item \in Item /\ item.task = t /\ item.status = "pending"
      /\ item.reason = reason
  BY DEF NewItem, Item
<1> HIDE DEF item
<1>2. outbox \in Seq(Item) /\ OneItemEach
  BY DEF OutboxInv, OutboxType
<1>3. /\ DOMAIN outbox = 1 .. Len(outbox) /\ Len(outbox) \in Nat
      /\ outbox' \in Seq(Item) /\ Len(outbox') = Len(outbox) + 1
      /\ DOMAIN outbox' = 1 .. Len(outbox')
      /\ \A i \in 1 .. Len(outbox) : outbox'[i] = outbox[i]
      /\ outbox'[Len(outbox) + 1] = item
  BY <1>1, <1>2, LenProperties, AppendProperties DEF item
<1>4. /\ \A i \in DOMAIN outbox : i \in DOMAIN outbox' /\ outbox'[i] = outbox[i]
      /\ Len(outbox') \in DOMAIN outbox' /\ outbox'[Len(outbox')] = item
      /\ \A i \in DOMAIN outbox' : i \in DOMAIN outbox \/ i = Len(outbox')
  BY <1>3
<1>5. Kept
  BY <1>4 DEF Kept, SameKey
<1>6. \A i \in DOMAIN outbox :
          ~(outbox[i].task = t /\ (outbox[i].reason = "unset") = (reason = "unset"))
  BY DEF HasItem
<1>7. OneItemEach'
  BY <1>1, <1>2, <1>4, <1>6 DEF OneItemEach
<1>8. ItemsLanded' /\ SucceededWasPublished'
  BY <1>1, <1>4 DEF OutboxInv, ItemsLanded, SucceededWasPublished
<1>9. \E i \in DOMAIN outbox' : outbox'[i].task = t
  BY <1>1, <1>4
<1> QED BY <1>3, <1>5, <1>7, <1>8, <1>9 DEF OutboxInv, OutboxType

\* After an enqueue the outbox has an item of the task, if the remote target can be parsed.
LEMMA Enqueued ==
    ASSUME OutboxInv, RepoType, NEW t \in Task, candidate[t] # None,
           NEW e \in {Absent} \cup Commit, Enqueue(t, e),
           candidate' = candidate, published' = published
    PROVE  /\ OutboxInv' /\ Kept
           /\ remoteTarget # "malformed" => \E i \in DOMAIN outbox' : outbox'[i].task = t
<1>1. CASE remoteTarget = "unset" /\ ~HasItem(t, TRUE)
  <2>1. outbox' = Append(outbox, NewItem(t, Absent, "unset")) /\ ~HasItem(t, "unset" = "unset")
    BY <1>1 DEF Enqueue
  <2> QED BY <2>1, Appended
<1>2. CASE remoteTarget = "set" /\ ~HasItem(t, FALSE)
  <2>1. outbox' = Append(outbox, NewItem(t, e, "none")) /\ ~HasItem(t, "none" = "unset")
    BY <1>2 DEF Enqueue
  <2> QED BY <2>1, Appended
<1>3. CASE /\ ~(remoteTarget = "unset" /\ ~HasItem(t, TRUE))
           /\ ~(remoteTarget = "set" /\ ~HasItem(t, FALSE))
  <2>1. outbox' = outbox
    BY <1>3 DEF Enqueue
  <2>2. OutboxInv'
    BY <2>1 DEF OutboxInv, OutboxType, OneItemEach, ItemsLanded, SucceededWasPublished
  <2>3. remoteTarget # "malformed" => \E i \in DOMAIN outbox : outbox[i].task = t
    BY <1>3 DEF RepoType, HasItem
  <2> QED BY <2>1, <2>2, <2>3, KeptSame
<1> QED BY <1>1, <1>2, <1>3

\* A run writes back the item at hand with its key.
LEMMA Written ==
    ASSUME OutboxInv, RunType, NEW p \in Proc, Listing(p), at[p] \in DOMAIN list[p],
           NEW item \in Item, SameKey(item, Current(p)),
           item.status = "succeeded" => item.task \in published,
           Write(p, item), candidate' = candidate, published' = published
    PROVE  /\ OutboxInv' /\ Kept /\ Listing(p)'
           /\ list'[p] \in Seq(Item) /\ list'[p] = [list[p] EXCEPT ![at[p]] = item]
           /\ list' = [list EXCEPT ![p] = [list[p] EXCEPT ![at[p]] = item]]
           /\ DOMAIN list'[p] = DOMAIN list[p] /\ list'[p][at[p]] = item
           /\ \A i \in DOMAIN list[p] : list'[p][i].task = list[p][i].task
<1> DEFINE n == at[p]
<1>1. /\ outbox' = [outbox EXCEPT ![n] = item]
      /\ list' = [list EXCEPT ![p] = [list[p] EXCEPT ![n] = item]]
  BY DEF Write, RunType
<1>2. outbox \in Seq(Item) /\ OneItemEach /\ list[p] \in Seq(Item)
  BY DEF OutboxInv, OutboxType, RunType
<1>3. n \in DOMAIN outbox /\ SameKey(list[p][n], outbox[n])
  BY DEF Listing
<1>4. SameKey(item, outbox[n])
  BY <1>3 DEF SameKey, Current
<1>5. /\ outbox' \in Seq(Item) /\ DOMAIN outbox' = DOMAIN outbox
      /\ outbox'[n] = item /\ \A i \in DOMAIN outbox \ {n} : outbox'[i] = outbox[i]
  <2>1. n \in 1 .. Len(outbox)
    BY <1>2, <1>3, LenProperties
  <2>2. outbox' \in Seq(Item)
    BY <1>1, <1>2, <2>1, ExceptSeq
  <2> QED BY <1>1, <1>3, <2>2
<1>6. /\ list'[p] \in Seq(Item) /\ list'[p] = [list[p] EXCEPT ![n] = item]
      /\ DOMAIN list'[p] = DOMAIN list[p]
      /\ list'[p][n] = item /\ \A i \in DOMAIN list[p] \ {n} : list'[p][i] = list[p][i]
  <2>1. n \in 1 .. Len(list[p])
    BY <1>2, LenProperties
  <2>2. [list[p] EXCEPT ![n] = item] \in Seq(Item)
    BY <1>2, <2>1, ExceptSeq
  <2>3. list'[p] = [list[p] EXCEPT ![n] = item]
    BY <1>1 DEF RunType
  <2> QED BY <2>2, <2>3
<1>7. \A i \in DOMAIN outbox : SameKey(outbox[i], outbox'[i])
  BY <1>4, <1>5 DEF SameKey
<1>8. Kept
  BY <1>5, <1>7 DEF Kept
<1>9. OneItemEach'
  BY <1>2, <1>5, <1>7 DEF OneItemEach, SameKey
<1>10. ItemsLanded' /\ SucceededWasPublished'
  BY <1>5, <1>7 DEF OutboxInv, ItemsLanded, SucceededWasPublished, SameKey
<1>11. Listing(p)'
  BY <1>4, <1>5, <1>6 DEF Listing, SameKey
<1>12. \A i \in DOMAIN list[p] : list'[p][i].task = list[p][i].task
  BY <1>6 DEF SameKey, Current
<1> QED BY <1>1, <1>5, <1>6, <1>8, <1>9, <1>10, <1>11, <1>12 DEF OutboxInv, OutboxType

-----------------------------------------------------------------------------
(* The steps preserve the invariant *)

\* The invariant holds at the start,
THEOREM InitInv == Init => IInv
<1> SUFFICES ASSUME Init PROVE IInv
  OBVIOUS
<1>1. <<>> \in Seq(Item) /\ outbox = <<>> /\ DOMAIN outbox = {}
  BY DEF Init
<1>2. {} \in Commit
  BY DEF Commit
<1>3. RepoInv
  <2>1. candidate \in [Task -> {None} \cup Commit]
    BY DEF Init
  <2>2. RepoType
    BY <1>2, <2>1 DEF Init, RepoType
  <2>3. SpareNew /\ LandedKnown /\ TasksLanded
    BY DEF Init, SpareNew, LandedKnown, TasksLanded
  <2>4. SeenPublished
    BY DEF Init, SeenPublished, Seen
  <2> QED BY <2>2, <2>3, <2>4 DEF RepoInv
<1>4. OutboxInv
  BY <1>1 DEF OutboxInv, OutboxType, OneItemEach, ItemsLanded, SucceededWasPublished
<1>5. RunType
  <2>1. list \in [Proc -> Seq(Item)]
    <3>1. list = [p \in Proc |-> <<>>]
      BY DEF Init
    <3> HIDE DEF Item
    <3> QED BY <1>1, <3>1
  <2>2. pc \in [Proc -> {"idle", "landed", "item", "fetch", "push", "recheck", "ack", "confirm"}]
    BY DEF Init
  <2>3. stage \in [Proc -> Stages] /\ job \in [Proc -> Task \cup {None}]
    BY DEF Init, Stages
  <2>4. at \in [Proc -> Nat \ {0}] /\ tip \in [Proc -> {Absent} \cup Commit]
    BY DEF Init
  <2> QED BY <2>1, <2>2, <2>3, <2>4 DEF RunType
<1>6. \A p \in Proc : RunOK(p)
  <2>1. ASSUME NEW p \in Proc
        PROVE  pc[p] = "idle" /\ stage[p] = "sync" /\ DOMAIN list[p] = {}
    BY DEF Init
  <2> QED BY <2>1 DEF RunOK, Listing, Handling, Delivering
<1>7. Reported
  BY DEF Init, Reported, DeliveredWasPublished
<1>8. CountType
  BY PublicationAssumption DEF Init, CountType
<1> QED BY <1>3, <1>4, <1>5, <1>6, <1>7, <1>8 DEF IInv

\* The repository and the remote stay; what a run remembers of the remote is what it is, or was.
LEMMA RepoStays ==
    ASSUME RepoInv, UNCHANGED <<repo, remote, published, spare>>, known' \subseteq Commit,
           \A q \in Proc : tip'[q] \in {tip[q], remote, Absent}
    PROVE  RepoInv'
<1> USE DEF repo
<1>1. RepoType' /\ SpareNew' /\ LandedKnown'
  BY DEF RepoInv, RepoType, SpareNew, LandedKnown
<1>2. TasksLanded'
  BY DEF RepoInv, TasksLanded
<1>3. SeenPublished'
  BY DEF RepoInv, SeenPublished, Seen
<1> QED BY <1>1, <1>2, <1>3 DEF RepoInv

\* A step of run p: what it leaves to the other runs, and what has to be shown of its own state.
LEMMA RunStep ==
    ASSUME IInv, NEW p \in Proc, OthersStay(p), RunType', Kept, OutboxInv', RunOK(p)',
           UNCHANGED <<repo, published, spare>>, RepoInv',
           Reported', CountType'
    PROVE  IInv'
<1>1. ASSUME NEW q \in Proc, q # p PROVE RunOK(q)'
  BY <1>1, StillOK DEF IInv, OthersStay, repo
<1> QED BY <1>1 DEF IInv

\* A run that writes its item and goes on with the next one.
LEMMA Recorded ==
    ASSUME IInv, NEW p \in Proc, at[p] \in DOMAIN list[p],
           NEW item \in Item, SameKey(item, Current(p)),
           item.status = "succeeded" => item.task \in published,
           Record(p, item), CountType', known' \subseteq Commit,
           UNCHANGED <<repo, remote, stage, job, delivered, published, spare>>
    PROVE  IInv'
<1>1. RepoInv /\ OutboxInv /\ RunType /\ RunOK(p) /\ Listing(p) /\ Reported
  BY DEF IInv, RunOK
<1>2. Write(p, item)
  BY DEF Record
<1>3. /\ OutboxInv' /\ Kept /\ Listing(p)'
      /\ list'[p] \in Seq(Item)
      /\ list' = [list EXCEPT ![p] = list'[p]]
      /\ DOMAIN list'[p] = DOMAIN list[p]
      /\ \A i \in DOMAIN list[p] : list'[p][i].task = list[p][i].task
  BY <1>1, <1>2, Written DEF repo
<1> DEFINE n == NextPending(list[p], at[p])
<1>4. n \in Nat \ {0}
  BY <1>1, NextIndex DEF RunType
<1>5. /\ at' = [at EXCEPT ![p] = n] /\ tip' = [tip EXCEPT ![p] = Absent]
      /\ pc' = [pc EXCEPT ![p] = "item"]
  BY <1>1 DEF Record, Goto, RunType
<1> HIDE DEF n
<1>6. stage[p] \in Stages /\ job[p] \in Task \cup {None}
  BY <1>1 DEF RunType
<1>7. stage' = [stage EXCEPT ![p] = stage[p]] /\ job' = [job EXCEPT ![p] = job[p]]
  BY <1>1, Same DEF RunType
<1>8. Comes(p, "item", stage[p], job[p], list'[p], n, Absent)
  BY <1>3, <1>5, <1>7 DEF Comes
<1>9. RunType' /\ OthersStay(p) /\ pc'[p] = "item" /\ tip'[p] = Absent
  BY <1>1, <1>3, <1>4, <1>6, <1>8, Local
<1>10. RunOK(p)'
  <2>1. Handling(p)'
    BY <1>9 DEF Handling
  <2>2. Delivering(p)'
    BY <1>1, <1>3, <1>9 DEF RunOK, Delivering, repo
  <2> QED BY <1>3, <2>1, <2>2 DEF RunOK
<1>11. RepoInv'
  BY <1>1, <1>9, RepoStays DEF OthersStay
<1>12. Reported'
  BY <1>1 DEF Reported, DeliveredWasPublished, repo
<1> QED BY <1>3, <1>9, <1>10, <1>11, <1>12, RunStep

\* A run that goes on with its item and writes nothing.
LEMMA Moved ==
    ASSUME IInv, NEW p \in Proc, at[p] \in DOMAIN list[p],
           Current(p).reason \notin {"unset", "integrity"},
           NEW l, l \in {"fetch", "push", "recheck", "confirm"}, NEW r, r \in {tip[p], remote},
           Goto(p, l), tip' = [tip EXCEPT ![p] = r],
           l = "confirm" => Current(p).task \in published,
           l = "push" => r \in {Absent, Current(p).expected} \/ r \subseteq candidate[Current(p).task],
           CountType', known' \subseteq Commit,
           UNCHANGED <<repo, remote, outbox, stage, job, list, at, delivered, published, spare>>
    PROVE  IInv'
<1>1. RepoInv /\ OutboxInv /\ RunType /\ RunOK(p) /\ Reported
  BY DEF IInv
<1>2. /\ stage[p] \in Stages /\ job[p] \in Task \cup {None} /\ list[p] \in Seq(Item)
      /\ at[p] \in Nat \ {0} /\ r \in {Absent} \cup Commit
  BY <1>1 DEF RunType, RepoInv, RepoType
<1>3. Comes(p, l, stage[p], job[p], list[p], at[p], r)
  BY <1>1, Same DEF Comes, Goto, RunType
<1>4. /\ RunType' /\ OthersStay(p) /\ pc'[p] = l /\ tip'[p] = r
      /\ list'[p] = list[p] /\ at'[p] = at[p] /\ stage'[p] = stage[p] /\ job'[p] = job[p]
  BY <1>1, <1>2, <1>3, Local
<1>5. Current(p)' = Current(p)
  BY DEF Current
<1>6. RunOK(p)'
  <2>1. Listing(p)'
    BY <1>1 DEF RunOK, Listing
  <2>2. Handling(p)'
    BY <1>4, <1>5 DEF Handling, repo
  <2>3. Delivering(p)'
    BY <1>1, <1>4 DEF RunOK, Delivering, repo
  <2> QED BY <2>1, <2>2, <2>3 DEF RunOK
<1>7. RepoInv'
  BY <1>1, <1>4, RepoStays DEF OthersStay
<1>8. OutboxInv'
  BY <1>1 DEF OutboxInv, OutboxType, OneItemEach, ItemsLanded, SucceededWasPublished, repo
<1>9. Reported'
  BY <1>1 DEF Reported, DeliveredWasPublished, repo
<1> QED BY <1>4, <1>6, <1>7, <1>8, <1>9, KeptSame, RunStep

\* Listed places are items.
LEMMA AtListed ==
    ASSUME RunType, NEW p \in Proc, at[p] <= Len(list[p]) PROVE at[p] \in DOMAIN list[p]
<1>1. list[p] \in Seq(Item) /\ at[p] \in Nat \ {0}
  BY DEF RunType
<1>2. DOMAIN list[p] = 1 .. Len(list[p]) /\ Len(list[p]) \in Nat
  BY <1>1, LenProperties
<1> QED BY <1>1, <1>2

\* A run that writes an item back as pending keeps the invariant.
LEMMA PendingStep ==
    ASSUME IInv, NEW p \in Proc, at[p] \in DOMAIN list[p],
           NEW reason \in {"error", "diverged", "integrity", "unset"},
           (reason = "unset") <=> (Current(p).reason = "unset"),
           MarkPending(p, reason), CountType', known' \subseteq Commit,
           UNCHANGED <<repo, remote, stage, job, delivered, published, spare>>
    PROVE  IInv'
<1> DEFINE item == [Current(p) EXCEPT !.status = "pending", !.reason = reason]
<1>1. Current(p) \in Item
  BY ListLanded DEF IInv, RunOK, Current
<1>2. item \in Item /\ SameKey(item, Current(p)) /\ item.status = "pending"
  BY <1>1 DEF Item, SameKey
<1>3. Record(p, item)
  BY DEF MarkPending
<1> HIDE DEF item
<1> QED BY <1>2, <1>3, Recorded

\* A run that writes an item back as succeeded keeps the invariant if the task was on the remote.
LEMMA SucceededStep ==
    ASSUME IInv, NEW p \in Proc, at[p] \in DOMAIN list[p],
           Current(p).reason # "unset", Current(p).task \in published,
           MarkSucceeded(p), CountType', known' \subseteq Commit,
           UNCHANGED <<repo, remote, stage, job, delivered, published, spare>>
    PROVE  IInv'
<1> DEFINE item == [Current(p) EXCEPT !.status = "succeeded", !.reason = "none", !.acked = FALSE]
<1>1. Current(p) \in Item
  BY ListLanded DEF IInv, RunOK, Current
<1>2. item \in Item /\ SameKey(item, Current(p)) /\ item.task \in published
  BY <1>1 DEF Item, SameKey
<1>3. Record(p, item)
  BY DEF MarkSucceeded
<1> HIDE DEF item
<1> QED BY <1>2, <1>3, Recorded

\* A tip that contains the candidate at hand was brought by a push.
LEMMA ContainsSeen ==
    ASSUME IInv, NEW p \in Proc, at[p] \in DOMAIN list[p], NEW r, Seen(r), NEW k,
           Contains(candidate[Current(p).task], r, k)
    PROVE  Current(p).task \in published
<1>1. Current(p).task \in Task /\ candidate[Current(p).task] # None
  BY ListLanded DEF IInv, RunOK, Current
<1> QED BY <1>1 DEF Contains, IsAncestor, Seen

\* A run that decides on an item by a tip of the remote keeps the invariant.
LEMMA DecideStep ==
    ASSUME IInv, NEW p \in Proc, at[p] \in DOMAIN list[p],
           Current(p).reason \notin {"unset", "integrity"},
           NEW r, r \in {tip[p], remote}, NEW k, Decide(p, r, k),
           CountType', known' \subseteq Commit,
           UNCHANGED <<repo, remote, stage, job, delivered, published, spare>>
    PROVE  IInv'
<1> DEFINE c == candidate[Current(p).task]
<1>1. Seen(r)
  BY DEF IInv, RepoInv, SeenPublished
<1>2. CASE Contains(c, r, k) /\ MarkSucceeded(p)
  BY <1>1, <1>2, ContainsSeen, SucceededStep
<1>3. CASE MarkPending(p, "integrity")
  BY <1>3, PendingStep
<1>4. CASE MarkPending(p, "diverged")
  BY <1>4, PendingStep
<1>5. CASE /\ ~Diverged(Current(p), r, k) /\ Goto(p, "push")
           /\ tip' = [tip EXCEPT ![p] = r] /\ UNCHANGED <<outbox, list, at>>
  <2>1. r \in {Absent, Current(p).expected} \/ r \subseteq c
    BY <1>5 DEF Diverged, IsAncestor
  <2> QED BY <1>5, <2>1, Moved
<1> QED BY <1>2, <1>3, <1>4, <1>5 DEF Decide

\* What a run does not count stays, and what it counts stays within its bound.
LEMMA Counted ==
    ASSUME IInv, UNCHANGED <<rewinds, crashes>>, UNCHANGED failures \/ Fail PROVE CountType'
BY PublicationAssumption DEF IInv, CountType, Fail

\* An item held back keeps the invariant.
LEMMA HoldStep == ASSUME IInv, NEW p \in Proc, Hold(p) PROVE IInv'
<1>1. RunType /\ known \subseteq Commit
  BY DEF IInv, RepoInv, RepoType
<1>2. at[p] \in DOMAIN list[p]
  BY <1>1, AtListed DEF Hold
<1>3. CountType'
  BY DEF Hold, aux, IInv, CountType
<1> QED BY <1>1, <1>2, <1>3, PendingStep DEF Hold

\* The reading of the tips keeps the invariant.
LEMMA ObserveStep == ASSUME IInv, NEW p \in Proc, Observe(p) PROVE IInv'
<1>1. RunType /\ known \subseteq Commit
  BY DEF IInv, RepoInv, RepoType
<1>2. /\ at[p] \in DOMAIN list[p] /\ Current(p).reason \notin {"unset", "integrity"}
      /\ UNCHANGED <<repo, remote, stage, job, delivered, published, spare>>
      /\ known' \subseteq Commit
  BY <1>1, AtListed DEF Observe
<1>3. CountType'
  BY Counted DEF Observe
<1>4. CASE Decide(p, remote, known)
  BY <1>2, <1>3, <1>4, DecideStep
<1>5. CASE tip' = [tip EXCEPT ![p] = remote] /\ Goto(p, "fetch") /\ UNCHANGED <<outbox, list, at, failures>>
  BY <1>2, <1>3, <1>5, Moved
<1>6. CASE MarkPending(p, "error")
  BY <1>2, <1>3, <1>6, PendingStep
<1> QED BY <1>4, <1>5, <1>6 DEF Observe

\* A fetch keeps the invariant.
LEMMA FetchStep == ASSUME IInv, NEW p \in Proc, Fetch(p) PROVE IInv'
<1>1. RepoType /\ RunOK(p)
  BY DEF IInv, RepoInv
<1>2. /\ at[p] \in DOMAIN list[p] /\ Current(p).reason \notin {"unset", "integrity"}
      /\ UNCHANGED <<repo, remote, stage, job, delivered, published, spare>>
  BY <1>1 DEF Fetch, RunOK, Handling
<1>3. known' \subseteq Commit
  BY <1>1 DEF Fetch, RepoType
<1>4. CountType'
  BY Counted DEF Fetch
<1>5. Decide(p, tip[p], known')
  BY DEF Fetch
<1> QED BY <1>2, <1>3, <1>4, <1>5, DecideStep

\* The second reading keeps the invariant.
LEMMA RecheckStep == ASSUME IInv, NEW p \in Proc, Recheck(p) PROVE IInv'
<1>1. RepoType /\ RunOK(p) /\ Seen(remote)
  BY DEF IInv, RepoInv, SeenPublished
<1>2. /\ at[p] \in DOMAIN list[p] /\ Current(p).reason \notin {"unset", "integrity"}
      /\ UNCHANGED <<repo, remote, stage, job, delivered, published, spare>>
      /\ known' \subseteq Commit
  BY <1>1 DEF Recheck, RunOK, Handling, RepoType
<1>3. CountType'
  BY Counted DEF Recheck
<1>4. CASE Contains(candidate[Current(p).task], remote, known) /\ MarkSucceeded(p)
  BY <1>1, <1>2, <1>3, <1>4, ContainsSeen, SucceededStep
<1>5. CASE MarkPending(p, "error")
  BY <1>2, <1>3, <1>5, PendingStep
<1> QED BY <1>4, <1>5 DEF Recheck

\* A confirmation keeps the invariant.
LEMMA ConfirmStep == ASSUME IInv, NEW p \in Proc, Confirm(p) PROVE IInv'
<1>1. RepoType /\ RunOK(p)
  BY DEF IInv, RepoInv
<1>2. /\ at[p] \in DOMAIN list[p] /\ Current(p).reason # "unset" /\ Current(p).task \in published
      /\ UNCHANGED <<repo, remote, stage, job, delivered, published, spare>>
      /\ known' \subseteq Commit
  BY <1>1 DEF Confirm, RunOK, Handling, RepoType
<1>3. CountType'
  BY DEF Confirm, aux, IInv, CountType
<1> QED BY <1>2, <1>3, SucceededStep DEF Confirm

\* The acknowledged item is written, and stays at hand.
LEMMA AckStep == ASSUME IInv, NEW p \in Proc, Ack(p) PROVE IInv'
<1> DEFINE item == [Current(p) EXCEPT !.status = "pending", !.acked = TRUE]
<1>1. RepoInv /\ OutboxInv /\ RunType /\ RunOK(p) /\ Listing(p) /\ Reported
  BY DEF IInv, RunOK
<1>2. /\ at[p] \in DOMAIN list[p] /\ Current(p).reason \notin {"unset", "integrity"}
      /\ Current(p).task \in published
      /\ Write(p, item) /\ Goto(p, "confirm")
      /\ UNCHANGED <<repo, known, remote, stage, job, at, tip, delivered, published, spare, aux>>
  BY <1>1 DEF Ack, RunOK, Handling
<1>3. Current(p) \in Item
  BY <1>1, <1>2, ListLanded DEF Current
<1>4. /\ item \in Item /\ SameKey(item, Current(p)) /\ item.status = "pending"
      /\ item.reason = Current(p).reason
  BY <1>3 DEF Item, SameKey
<1> HIDE DEF item
<1>5. /\ OutboxInv' /\ Kept /\ Listing(p)'
      /\ list'[p] \in Seq(Item) /\ list' = [list EXCEPT ![p] = list'[p]]
      /\ DOMAIN list'[p] = DOMAIN list[p] /\ list'[p][at[p]] = item
      /\ \A i \in DOMAIN list[p] : list'[p][i].task = list[p][i].task
  BY <1>1, <1>2, <1>4, Written DEF repo
<1>6. /\ stage[p] \in Stages /\ job[p] \in Task \cup {None} /\ at[p] \in Nat \ {0}
      /\ tip[p] \in {Absent} \cup Commit
  BY <1>1 DEF RunType
<1>7. Comes(p, "confirm", stage[p], job[p], list'[p], at[p], tip[p])
  BY <1>1, <1>2, <1>5, Same DEF Comes, Goto, RunType
<1>8. RunType' /\ OthersStay(p) /\ pc'[p] = "confirm"
  BY <1>5, <1>6, <1>7, <1>1, Local
<1>9. RunOK(p)'
  <2>1. Current(p)' = item
    BY <1>2, <1>5 DEF Current
  <2>2. Handling(p)'
    BY <1>2, <1>4, <1>5, <1>8, <2>1 DEF Handling, SameKey
  <2>3. Delivering(p)'
    BY <1>1, <1>2, <1>5, <1>8 DEF RunOK, Delivering, repo
  <2> QED BY <1>5, <2>2, <2>3 DEF RunOK
<1>10. RepoInv'
  <2>1. known' \subseteq Commit /\ \A q \in Proc : tip'[q] = tip[q]
    BY <1>1, <1>2 DEF RepoInv, RepoType
  <2> QED BY <1>1, <1>2, <2>1, RepoStays
<1>11. Reported' /\ CountType'
  BY <1>1, <1>2 DEF Reported, DeliveredWasPublished, repo, aux, IInv, CountType
<1> QED BY <1>2, <1>5, <1>8, <1>9, <1>10, <1>11, RunStep

\* What the outbox says stays true while the outbox stays and more is published.
LEMMA OutboxStays ==
    ASSUME OutboxInv, UNCHANGED <<outbox, candidate>>, published \subseteq published'
    PROVE  OutboxInv'
BY DEF OutboxInv, OutboxType, OneItemEach, ItemsLanded, SucceededWasPublished

\* A push: the remote becomes the candidate, and what it contains has been on the remote.
LEMMA PushStep == ASSUME IInv, NEW p \in Proc, Push(p) PROVE IInv'
<1> DEFINE c == candidate[Current(p).task]
<1>1. RepoInv /\ OutboxInv /\ RunType /\ RunOK(p) /\ Reported
  BY DEF IInv
<1>2. /\ at[p] \in DOMAIN list[p] /\ Current(p).reason \notin {"unset", "integrity"}
      /\ UNCHANGED <<repo, known, outbox, stage, job, list, at, tip, delivered, spare, rewinds, crashes>>
  BY <1>1 DEF Push, RunOK, Handling, local
<1>3. CountType'
  BY <1>2, Counted DEF Push
<1>4. known' \subseteq Commit /\ tip' = [tip EXCEPT ![p] = tip[p]]
  BY <1>1, <1>2, Same DEF RepoInv, RepoType, RunType
<1>5. CASE Goto(p, "recheck") /\ UNCHANGED <<remote, published>>
  BY <1>2, <1>3, <1>4, <1>5, Moved
<1>6. ASSUME Pushed(p), NEW l, l \in {"ack", "recheck"}, Goto(p, l) PROVE IInv'
  <2>1. Current(p).task \in Task /\ c \in Commit /\ c # None
    <3>1. Current(p).task \in Task /\ candidate[Current(p).task] # None
      BY <1>1, <1>2, ListLanded DEF RunOK, Current
    <3> QED BY <1>1, <3>1 DEF RepoInv, RepoType
  <2>2. /\ remote' = c
        /\ published' = published \cup {t \in Task : candidate[t] # None /\ candidate[t] \subseteq c}
    BY <1>6 DEF Pushed, Landed
  <2>3. Current(p).task \in published'
    BY <2>1, <2>2
  <2>4. /\ stage[p] \in Stages /\ job[p] \in Task \cup {None} /\ list[p] \in Seq(Item)
        /\ at[p] \in Nat \ {0} /\ tip[p] \in {Absent} \cup Commit
    BY <1>1 DEF RunType
  <2>5. Comes(p, l, stage[p], job[p], list[p], at[p], tip[p])
    BY <1>1, <1>2, <1>6, Same DEF Comes, Goto, RunType
  <2>6. RunType' /\ OthersStay(p) /\ pc'[p] = l
    BY <1>1, <1>6, <2>4, <2>5, Local
  <2>7. RunOK(p)'
    <3>1. Current(p)' = Current(p)
      BY <1>2 DEF Current
    <3>2. Listing(p)'
      BY <1>1, <1>2, <2>2 DEF RunOK, Listing
    <3>3. Handling(p)'
      BY <1>2, <1>6, <2>3, <2>6, <3>1 DEF Handling
    <3>4. Delivering(p)'
      BY <1>1, <1>2, <1>6, <2>2, <2>6 DEF RunOK, Delivering, repo
    <3> QED BY <3>2, <3>3, <3>4 DEF RunOK
  <2>8. c \subseteq target
    BY <1>1, <2>1 DEF RepoInv, LandedKnown
  <2>9. RepoInv'
    <3>1. RepoType'
      BY <1>1, <1>2, <2>1, <2>2 DEF RepoInv, RepoType, repo
    <3>2. SpareNew'
      BY <1>1, <1>2, <2>2, <2>8 DEF RepoInv, SpareNew, repo
    <3>3. LandedKnown'
      BY <1>1, <1>2 DEF RepoInv, LandedKnown, repo
    <3>4. TasksLanded'
      BY <1>1, <1>2, <2>2, <2>8 DEF RepoInv, TasksLanded, repo
    <3>5. SeenPublished'
      BY <1>1, <1>2, <2>2 DEF RepoInv, SeenPublished, Seen, repo
    <3> QED BY <3>1, <3>2, <3>3, <3>4, <3>5 DEF RepoInv
  <2>10. OutboxInv' /\ Kept
    BY <1>1, <1>2, <2>2, OutboxStays, KeptSame DEF repo
  <2>11. Reported'
    BY <1>1, <1>2, <2>2 DEF Reported, DeliveredWasPublished, repo
  <2>12. \A q \in Proc : q # p => RunOK(q)'
    BY <1>2, <2>2, <2>6, <2>10, StillOK DEF IInv, OthersStay, repo
  <2> QED BY <1>3, <2>6, <2>7, <2>9, <2>10, <2>11, <2>12 DEF IInv
<1> QED BY <1>5, <1>6 DEF Push

\* A run that lists the outbox as it now is, for a pass at stage s.
LEMMA ListedStep ==
    ASSUME IInv, NEW p \in Proc, NEW s \in Stages, Listed(p, s), OutboxInv', Kept,
           s # "sync" => job[p] \in Task,
           s # "sync" /\ remoteTarget # "malformed" => \E i \in DOMAIN outbox' : outbox'[i].task = job[p],
           s = "delivered" /\ remoteTarget # "malformed" => job[p] \in published,
           UNCHANGED <<repo, known, remote, job, tip, published, delivered, spare>>, CountType'
    PROVE  IInv'
<1>1. RepoInv /\ OutboxInv /\ RunType /\ Reported
  BY DEF IInv
<1>2. outbox' \in Seq(Item)
  BY DEF OutboxInv, OutboxType
<1> DEFINE n == NextPending(outbox', 0)
<1>3. n \in Nat \ {0}
  BY <1>2, NextIndex
<1>4. /\ list' = [list EXCEPT ![p] = outbox'] /\ at' = [at EXCEPT ![p] = n]
      /\ stage' = [stage EXCEPT ![p] = s] /\ pc' = [pc EXCEPT ![p] = "item"]
  BY DEF Listed, Goto
<1> HIDE DEF n
<1>5. job[p] \in Task \cup {None} /\ tip[p] \in {Absent} \cup Commit
  BY <1>1 DEF RunType
<1>6. Comes(p, "item", s, job[p], outbox', n, tip[p])
  BY <1>1, <1>4, Same DEF Comes, RunType
<1>7. RunType' /\ OthersStay(p) /\ pc'[p] = "item" /\ stage'[p] = s /\ list'[p] = outbox'
  BY <1>1, <1>2, <1>3, <1>5, <1>6, Local
<1>8. RunOK(p)'
  <2>1. Listing(p)'
    BY <1>7 DEF Listing, SameKey, OutboxInv, SucceededWasPublished
  <2>2. Handling(p)'
    BY <1>7 DEF Handling
  <2>3. Delivering(p)'
    BY <1>7 DEF Delivering, repo
  <2> QED BY <2>1, <2>2, <2>3 DEF RunOK
<1>9. RepoInv'
  <2>1. known' \subseteq Commit /\ \A q \in Proc : tip'[q] = tip[q]
    BY <1>1 DEF RepoInv, RepoType
  <2> QED BY <1>1, <2>1, RepoStays
<1>10. Reported'
  BY <1>1 DEF Reported, DeliveredWasPublished, repo
<1> QED BY <1>7, <1>8, <1>9, <1>10, RunStep

\* The failures of an observation are counted; what it expects is a tip.
LEMMA ObservedTip ==
    ASSUME IInv, NEW e \in {remote, Absent} PROVE e \in {Absent} \cup Commit
BY DEF IInv, RepoInv, RepoType

\* The enqueue after a landing keeps the invariant.
LEMMA EnqueueLandedStep == ASSUME IInv, NEW p \in Proc, EnqueueLanded(p) PROVE IInv'
<1> DEFINE s == IF Required THEN "before" ELSE "sync"
<1>1. RepoType /\ OutboxInv /\ RunOK(p)
  BY DEF IInv, RepoInv
<1>2. job[p] \in Task /\ candidate[job[p]] # None
  BY <1>1 DEF EnqueueLanded, RunOK, Delivering
<1>3. PICK e \in {remote, Absent} : Observed(e) /\ Enqueue(job[p], e)
  BY DEF EnqueueLanded
<1>4. /\ Listed(p, s) /\ s \in Stages /\ s # "delivered"
      /\ UNCHANGED <<repo, known, remote, job, tip, delivered, published, spare, rewinds, crashes>>
  BY DEF EnqueueLanded, Stages
<1> HIDE DEF s
<1>5. CountType'
  BY <1>3, <1>4, Counted DEF Observed
<1>6. candidate' = candidate /\ published' = published
  BY <1>4 DEF repo
<1>7. e \in {Absent} \cup Commit
  BY <1>3, ObservedTip
<1>8. /\ OutboxInv' /\ Kept
      /\ remoteTarget # "malformed" => \E i \in DOMAIN outbox' : outbox'[i].task = job[p]
  BY <1>1, <1>2, <1>3, <1>6, <1>7, Enqueued
<1> QED BY <1>2, <1>4, <1>5, <1>8, ListedStep

\* The enqueue of a reconciliation keeps the invariant.
LEMMA EnqueueReconciledStep ==
    ASSUME IInv, NEW p \in Proc, NEW t \in Task, EnqueueReconciled(p, t) PROVE IInv'
<1>1. RepoInv /\ OutboxInv /\ RunType /\ Reported
  BY DEF IInv
<1>2. PICK e \in {remote, Absent} : Observed(e) /\ Enqueue(t, e)
  BY DEF EnqueueReconciled
<1>3. /\ candidate[t] # None
      /\ UNCHANGED <<repo, known, remote, pc, stage, job, list, at, tip, delivered, published, spare,
                     rewinds, crashes>>
  BY DEF EnqueueReconciled, Landed, local
<1>4. CountType'
  BY <1>2, <1>3, Counted DEF Observed
<1>5. candidate' = candidate /\ published' = published
  BY <1>3 DEF repo
<1>6. e \in {Absent} \cup Commit
  BY <1>2, ObservedTip
<1>7. OutboxInv' /\ Kept
  BY <1>1, <1>2, <1>3, <1>5, <1>6, Enqueued DEF RepoInv
<1>8. RunType'
  BY <1>1, <1>3 DEF RunType
<1>9. RepoInv'
  <2>1. known' \subseteq Commit /\ \A q \in Proc : tip'[q] = tip[q]
    BY <1>1, <1>3 DEF RepoInv, RepoType
  <2> QED BY <1>1, <1>3, <2>1, RepoStays
<1>10. \A q \in Proc : RunOK(q)'
  BY <1>3, <1>7, StillOK DEF IInv, repo
<1>11. Reported'
  BY <1>1, <1>3 DEF Reported, DeliveredWasPublished, repo
<1> QED BY <1>4, <1>7, <1>8, <1>9, <1>10, <1>11 DEF IInv

\* The listing of the outbox keeps the invariant.
LEMMA StartSyncStep == ASSUME IInv, NEW p \in Proc, StartSync(p) PROVE IInv'
<1>1. /\ Listed(p, "sync") /\ outbox' = outbox /\ "sync" \in Stages
      /\ UNCHANGED <<repo, known, remote, job, tip, delivered, published, spare>>
  BY DEF StartSync, Stages
<1>2. OutboxInv' /\ Kept /\ CountType'
  BY <1>1, OutboxStays, KeptSame DEF IInv, repo, StartSync, aux, CountType
<1> QED BY <1>1, <1>2, ListedStep

\* A run that ends or crashes forgets everything.
LEMMA LeaveStep ==
    ASSUME IInv, NEW p \in Proc, Leave(p), CountType', Reported',
           UNCHANGED <<repo, known, remote, published, spare>>
    PROVE  IInv'
<1>1. RepoInv /\ OutboxInv /\ RunType
  BY DEF IInv
<1>2. Comes(p, "idle", "sync", None, <<>>, 1, Absent) /\ outbox' = outbox
  BY DEF Leave, Goto, Comes
<1>3. "sync" \in Stages /\ None \in Task \cup {None} /\ 1 \in Nat \ {0} /\ Absent \in {Absent} \cup Commit
  BY DEF Stages
<1>4. /\ RunType' /\ OthersStay(p) /\ pc'[p] = "idle" /\ stage'[p] = "sync"
      /\ list'[p] = <<>> /\ tip'[p] = Absent
  <2>1. PICK s : s = <<>>
    OBVIOUS
  <2>2. s \in Seq(Item) /\ Comes(p, "idle", "sync", None, s, 1, Absent)
    BY <1>2, <2>1, EmptySeq
  <2>3. /\ RunType' /\ OthersStay(p) /\ pc'[p] = "idle" /\ stage'[p] = "sync"
        /\ list'[p] = s /\ tip'[p] = Absent
    BY <1>1, <1>3, <2>2, Local
  <2> QED BY <2>1, <2>3
<1>5. RunOK(p)'
  BY <1>4 DEF RunOK, Listing, Handling, Delivering
<1>6. RepoInv'
  <2>1. known' \subseteq Commit
    BY <1>1 DEF RepoInv, RepoType
  <2> QED BY <1>1, <1>4, <2>1, RepoStays DEF OthersStay
<1>7. OutboxInv' /\ Kept
  BY <1>1, <1>2, OutboxStays, KeptSame DEF repo
<1> QED BY <1>4, <1>5, <1>6, <1>7, RunStep

\* The end of a pass keeps the invariant.
LEMMA EndPassStep == ASSUME IInv, NEW p \in Proc, EndPass(p) PROVE IInv'
<1>1. OutboxInv /\ RunOK(p) /\ Reported
  BY DEF IInv
<1>2. UNCHANGED <<repo, known, remote, published, spare>> /\ CountType'
  BY DEF EndPass, aux, IInv, CountType
<1>3. stage[p] # "sync" => job[p] \in Task
  BY <1>1 DEF RunOK, Delivering
<1>4. stage[p] # "sync" /\ remoteTarget # "malformed" =>
          \E i \in DOMAIN outbox : outbox[i].task = job[p]
  BY <1>1 DEF RunOK, Delivering, Listing, SameKey
<1>5. CASE stage[p] = "sync" /\ Leave(p) /\ UNCHANGED delivered
  <2>1. Reported'
    BY <1>1, <1>2, <1>5 DEF Reported, DeliveredWasPublished, repo
  <2> QED BY <1>2, <1>5, <2>1, LeaveStep
<1>6. CASE stage[p] = "delivered" /\ Leave(p) /\ delivered' = delivered \cup {job[p]}
  <2>1. remoteTarget # "malformed" => job[p] \in published
    BY <1>1, <1>6 DEF RunOK, Delivering
  <2>2. Reported'
    BY <1>1, <1>2, <1>3, <1>6, <2>1 DEF Reported, DeliveredWasPublished, repo
  <2> QED BY <1>2, <1>6, <2>2, LeaveStep
<1>7. ASSUME NEW s \in Stages, NextPass(p, s), stage[p] # "sync",
             s = "delivered" => stage[p] = "drive" /\ NothingPending(p)
      PROVE  IInv'
  <2>1. /\ outbox' = outbox /\ Listed(p, s)
        /\ UNCHANGED <<repo, known, remote, job, tip, published, delivered, spare>>
    BY <1>2, <1>7 DEF NextPass
  <2>2. OutboxInv' /\ Kept
    BY <1>1, <2>1, OutboxStays, KeptSame DEF repo
  <2>3. s = "delivered" /\ remoteTarget # "malformed" => job[p] \in published
    BY <1>1, <1>7 DEF RunOK, Delivering, Listing, NothingPending
  <2> QED BY <1>2, <1>3, <1>4, <1>7, <2>1, <2>2, <2>3, ListedStep
<1>8. "drive" \in Stages /\ "delivered" \in Stages /\ "sync" \in Stages
  BY DEF Stages
<1> QED BY <1>5, <1>6, <1>7, <1>8 DEF EndPass

\* A crash keeps the invariant.
LEMMA CrashStep == ASSUME IInv, NEW p \in Proc, Crash(p) PROVE IInv'
<1>1. CountType' /\ Reported'
  BY PublicationAssumption DEF Crash, IInv, CountType, Reported, DeliveredWasPublished, repo
<1> QED BY <1>1, LeaveStep DEF Crash

\* A task lands as a candidate that is nowhere yet.
LEMMA LandStep == ASSUME IInv, NEW p \in Proc, NEW t \in Task, Land(p, t) PROVE IInv'
<1> DEFINE c == target \cup {t}
<1>1. RepoInv /\ OutboxInv /\ RunType /\ RunOK(p) /\ Reported
  BY DEF IInv
<1>2. /\ pc[p] = "idle" /\ candidate[t] = None /\ target' = c
      /\ candidate' = [candidate EXCEPT ![t] = c] /\ known' = known \cup {c}
      /\ job' = [job EXCEPT ![p] = t] /\ pc' = [pc EXCEPT ![p] = "landed"]
      /\ UNCHANGED <<remoteTarget, remote, outbox, stage, list, at, tip, delivered, published, spare,
                     failures, rewinds, crashes>>
  BY DEF Land, Landed, Goto, aux
<1>3. c \in Commit /\ c # None
  BY <1>1, CommitExists DEF RepoInv, RepoType, Commit
<1>4. candidate'[t] = c /\ \A u \in Task \ {t} : candidate'[u] = candidate[u]
  BY <1>1, <1>2 DEF RepoInv, RepoType
<1>5. stage[p] = "sync" /\ list[p] \in Seq(Item) /\ at[p] \in Nat \ {0} /\ tip[p] \in {Absent} \cup Commit
  BY <1>1, <1>2 DEF RunOK, Delivering, RunType
<1>6. Comes(p, "landed", "sync", t, list[p], at[p], tip[p])
  BY <1>1, <1>2, <1>5, Same DEF Comes, RunType
<1>7. "sync" \in Stages
  BY DEF Stages
<1>8. /\ RunType' /\ OthersStay(p) /\ pc'[p] = "landed" /\ stage'[p] = "sync" /\ job'[p] = t
      /\ list'[p] = list[p]
  BY <1>1, <1>5, <1>6, <1>7, Local
<1>9. RunOK(p)'
  <2>1. Listing(p)'
    BY <1>1, <1>2 DEF RunOK, Listing
  <2>2. Handling(p)'
    BY <1>8 DEF Handling
  <2>3. Delivering(p)'
    BY <1>3, <1>4, <1>8 DEF Delivering
  <2> QED BY <2>1, <2>2, <2>3 DEF RunOK
<1>10. \A u \in Task : candidate[u] # None => candidate'[u] = candidate[u]
  BY <1>2, <1>4
<1>11. \A q \in Proc : q # p => RunOK(q)'
  BY <1>2, <1>8, <1>10, KeptSame, StillOK DEF IInv, OthersStay
<1>12. t \notin Foreign
  BY PublicationAssumption
<1>13. RepoInv'
  <2>1. RepoType'
    BY <1>1, <1>2, <1>3 DEF RepoInv, RepoType
  <2>2. SpareNew'
    BY <1>1, <1>2, <1>12 DEF RepoInv, SpareNew, RepoType
  <2>3. LandedKnown'
    BY <1>1, <1>2, <1>4 DEF RepoInv, LandedKnown
  <2>4. TasksLanded'
    BY <1>1, <1>2, <1>3, <1>4 DEF RepoInv, TasksLanded
  <2>5. remote # Absent => t \notin remote
    BY <1>1, <1>2 DEF RepoInv, TasksLanded
  <2>6. \A q \in Proc : tip[q] # Absent => t \notin tip[q]
    BY <1>1, <1>2 DEF RepoInv, TasksLanded
  <2>7. SeenPublished'
    BY <1>1, <1>2, <1>4, <2>5, <2>6 DEF RepoInv, SeenPublished, Seen
  <2> QED BY <2>1, <2>2, <2>3, <2>4, <2>7 DEF RepoInv
<1>14. OutboxInv'
  <2>1. OutboxType' /\ SucceededWasPublished'
    BY <1>1, <1>2 DEF OutboxInv, OutboxType, OneItemEach, SucceededWasPublished
  <2>2. ItemsLanded'
    BY <1>1, <1>2, <1>10, Items DEF OutboxInv, ItemsLanded
  <2> QED BY <2>1, <2>2 DEF OutboxInv
<1>15. Reported' /\ CountType'
  BY <1>1, <1>2 DEF Reported, DeliveredWasPublished, IInv, CountType
<1> QED BY <1>8, <1>9, <1>11, <1>13, <1>14, <1>15 DEF IInv

\* The steps of others leave the runs and what they wrote alone.
LEMMA Aside ==
    ASSUME IInv, RepoInv', CountType', UNCHANGED <<candidate, outbox, pc, local, delivered, published>>,
           (remoteTarget' = "malformed") = (remoteTarget = "malformed")
    PROVE  IInv'
<1>1. OutboxInv' /\ Kept
  BY OutboxStays, KeptSame DEF IInv
<1>2. RunType'
  BY DEF IInv, RunType, local
<1>3. \A q \in Proc : RunOK(q)'
  BY <1>1, StillOK DEF IInv, local
<1>4. Reported'
  BY DEF IInv, Reported, DeliveredWasPublished
<1> QED BY <1>1, <1>2, <1>3, <1>4 DEF IInv

\* A pull into the publish target keeps the invariant.
LEMMA PullStep == ASSUME IInv, Pull PROVE IInv'
<1>1. RepoInv
  BY DEF IInv
<1>2. /\ remote # Absent /\ target' = target \cup remote /\ known' = known \cup {target \cup remote}
      /\ UNCHANGED <<remoteTarget, candidate, remote, outbox, pc, local, delivered, published, spare,
                     failures, rewinds, crashes>>
  BY DEF Pull, aux
<1>3. target \cup remote \in Commit
  BY <1>1, <1>2 DEF RepoInv, RepoType, Commit
<1>4. RepoInv'
  <2>1. RepoType'
    BY <1>1, <1>2, <1>3 DEF RepoInv, RepoType
  <2>2. SpareNew' /\ LandedKnown'
    BY <1>1, <1>2 DEF RepoInv, SpareNew, LandedKnown
  <2>3. TasksLanded' /\ SeenPublished'
    BY <1>1, <1>2 DEF RepoInv, TasksLanded, SeenPublished, Seen, local
  <2> QED BY <2>1, <2>2, <2>3 DEF RepoInv
<1>5. CountType'
  BY <1>2 DEF IInv, CountType
<1> QED BY <1>2, <1>4, <1>5, Aside

\* A change of the configured remote keeps the invariant.
LEMMA ConfigureStep == ASSUME IInv, Configure PROVE IInv'
<1>1. /\ remoteTarget = "unset" /\ remoteTarget' = "set"
      /\ UNCHANGED <<target, candidate, known, remote, outbox, pc, local, delivered, published, spare,
                     failures, rewinds, crashes>>
  BY DEF Configure, aux
<1>2. RepoInv' /\ CountType'
  BY <1>1 DEF IInv, RepoInv, RepoType, SpareNew, LandedKnown, TasksLanded, SeenPublished, Seen, local,
              CountType
<1> QED BY <1>1, <1>2, Aside

\* What others push is in no candidate.
LEMMA ForeignPushStep == ASSUME IInv, NEW f \in Foreign, ForeignPush(f) PROVE IInv'
<1>1. RepoInv
  BY DEF IInv
<1>2. /\ f \in spare /\ spare' = spare \ {f}
      /\ remote' = IF remote = Absent THEN {f} ELSE remote \cup {f}
      /\ UNCHANGED <<remoteTarget, target, candidate, known, outbox, pc, local, delivered, published,
                     failures, rewinds, crashes>>
  BY DEF ForeignPush, repo, aux
<1>3. f \notin Task /\ f \notin target
  BY <1>1, <1>2, PublicationAssumption DEF RepoInv, SpareNew
<1>4. remote' \in Commit /\ remote' # Absent
  BY <1>1, <1>2, CommitExists DEF RepoInv, RepoType, Commit
<1>5. RepoInv'
  <2>1. RepoType'
    BY <1>1, <1>2, <1>4 DEF RepoInv, RepoType
  <2>2. SpareNew' /\ LandedKnown'
    BY <1>1, <1>2 DEF RepoInv, SpareNew, LandedKnown
  <2>3. TasksLanded'
    BY <1>1, <1>2, <1>3 DEF RepoInv, TasksLanded, local
  <2>4. ASSUME NEW t \in Task, candidate[t] # None, candidate[t] \subseteq remote' PROVE t \in published
    <3>1. t \in candidate[t] /\ f \notin candidate[t]
      BY <1>1, <1>3, <2>4 DEF RepoInv, LandedKnown
    <3>2. remote # Absent /\ candidate[t] \subseteq remote
      BY <1>2, <1>3, <2>4, <3>1
    <3> QED BY <1>1, <2>4, <3>2 DEF RepoInv, SeenPublished, Seen
  <2>5. SeenPublished'
    BY <1>1, <1>2, <2>4 DEF RepoInv, SeenPublished, Seen, local
  <2> QED BY <2>1, <2>2, <2>3, <2>5 DEF RepoInv
<1>6. CountType'
  BY <1>2 DEF IInv, CountType
<1> QED BY <1>2, <1>5, <1>6, Aside

\* A reset of the remote by others keeps the invariant.
LEMMA RewindStep == ASSUME IInv, Rewind PROVE IInv'
<1>1. RepoInv
  BY DEF IInv
<1>2. /\ remote' = {} /\ rewinds < MaxRewinds /\ rewinds' = rewinds + 1
      /\ UNCHANGED <<remoteTarget, target, candidate, known, outbox, pc, local, delivered, published,
                     spare, failures, crashes>>
  BY DEF Rewind, repo
<1>3. RepoInv'
  <2>1. RepoType'
    BY <1>1, <1>2 DEF RepoInv, RepoType, Commit
  <2>2. SpareNew' /\ LandedKnown' /\ TasksLanded'
    BY <1>1, <1>2 DEF RepoInv, SpareNew, LandedKnown, TasksLanded, local
  <2>3. SeenPublished'
    BY <1>1, <1>2 DEF RepoInv, LandedKnown, SeenPublished, Seen, local
  <2> QED BY <2>1, <2>2, <2>3 DEF RepoInv
<1>4. CountType'
  BY <1>2, PublicationAssumption DEF IInv, CountType
<1> QED BY <1>2, <1>3, <1>4, Aside

\* every step keeps it,
THEOREM NextInv == IInv /\ [Next]_vars => IInv'
<1> SUFFICES ASSUME IInv, [Next]_vars PROVE IInv'
  OBVIOUS
<1>1. CASE UNCHANGED vars
  <2>1. RepoInv' /\ CountType'
    BY <1>1 DEF vars, repo, local, aux, IInv, RepoInv, RepoType, SpareNew, LandedKnown, TasksLanded,
                SeenPublished, Seen, CountType
  <2> QED BY <1>1, <2>1, Aside DEF vars, repo
<1>2. ASSUME NEW p \in Proc, Step(p) \/ StartSync(p) \/ Crash(p) PROVE IInv'
  BY <1>2, EnqueueLandedStep, HoldStep, ObserveStep, FetchStep, PushStep, RecheckStep, AckStep,
     ConfirmStep, EndPassStep, StartSyncStep, CrashStep DEF Step
<1>3. ASSUME NEW p \in Proc, NEW t \in Task, Land(p, t) \/ EnqueueReconciled(p, t) PROVE IInv'
  BY <1>3, LandStep, EnqueueReconciledStep
<1> QED BY <1>1, <1>2, <1>3, ForeignPushStep, PullStep, ConfigureStep, RewindStep DEF Next

\* The inductive invariant holds (the publication outbox, hubPublication.ts).
THEOREM IInvHolds == Spec => []IInv
BY InitInv, NextInv, PTL DEF Spec

-----------------------------------------------------------------------------
(* The properties *)

\* Whatever is lost, retried, crashed or written back from a stale listing, an item succeeds
\* only when its candidate has been on the remote, and required delivery is reported only for
\* what has been there (projectOneItem, driveHubRequiredPublication): for any number of tasks,
\* runs, failures, resets and crashes.
THEOREM DeliveryTrue == Spec => []DeliveryIsTrue
<1>1. IInv => DeliveryIsTrue
  BY TypeParts DEF IInv, RepoInv, OutboxInv, Reported, DeliveryIsTrue
<1> QED BY <1>1, IInvHolds, PTL

\* What a push takes off the remote, the enqueue of an item had observed there.
LEMMA PushOverwrites ==
    ASSUME IInv, NEW p \in Proc, Push(p), remote # Absent, ~(remote \subseteq remote')
    PROVE  \E i \in DOMAIN outbox : outbox[i].expected = remote /\ candidate[outbox[i].task] = remote'
<1>1. RunOK(p) /\ at[p] \in DOMAIN list[p] /\ pc[p] = "push"
  BY DEF IInv, RunOK, Handling, Push
<1>2. /\ Accepts(candidate[Current(p).task], tip[p]) /\ remote' = candidate[Current(p).task]
  BY DEF Push, Pushed
<1>3. tip[p] # Absent /\ remote = tip[p]
  BY <1>2 DEF Accepts
<1>4. remote = Current(p).expected
  BY <1>1, <1>2, <1>3 DEF RunOK, Handling
<1>5. /\ at[p] \in DOMAIN outbox /\ outbox[at[p]].expected = Current(p).expected
      /\ outbox[at[p]].task = Current(p).task
  BY <1>1 DEF RunOK, Listing, SameKey, Current
<1> QED BY <1>2, <1>4, <1>5

\* The divergence check and the lease together: only the tip that the item's enqueue
\* observed is ever overwritten (projectOneItem, buildPushArgs).
THEOREM OverwritesExpected == Spec => OnlyExpectedOverwritten
<1>1. ASSUME IInv, [Next]_vars, OwnStep, remote # Absent, ~(remote \subseteq remote')
      PROVE  \E i \in DOMAIN outbox : outbox[i].expected = remote /\ candidate[outbox[i].task] = remote'
  <2>1. remote' # remote
    BY <1>1
  <2>2. ASSUME NEW p \in Proc,
               \/ EnqueueLanded(p) \/ Hold(p) \/ Observe(p) \/ Fetch(p) \/ Recheck(p) \/ Ack(p)
               \/ Confirm(p) \/ EndPass(p) \/ StartSync(p) \/ Crash(p)
        PROVE  remote' = remote
    BY <2>2 DEF EnqueueLanded, Hold, Observe, Fetch, Recheck, Ack, Confirm, EndPass, StartSync, Crash
  <2>3. ASSUME NEW p \in Proc, NEW t \in Task, Land(p, t) \/ EnqueueReconciled(p, t)
        PROVE  remote' = remote
    BY <2>3 DEF Land, EnqueueReconciled
  <2>4. Pull \/ Configure \/ UNCHANGED vars => remote' = remote
    BY DEF Pull, Configure, vars
  <2>5. ASSUME NEW f \in Foreign, ForeignPush(f) PROVE FALSE
    BY <1>1, <2>5 DEF ForeignPush
  <2>6. ~Rewind
    BY <1>1 DEF OwnStep, Rewind, IInv, CountType
  <2>7. ASSUME NEW p \in Proc, Push(p)
        PROVE  \E i \in DOMAIN outbox : outbox[i].expected = remote /\ candidate[outbox[i].task] = remote'
    BY <1>1, <2>7, PushOverwrites
  <2> QED BY <1>1, <2>1, <2>2, <2>3, <2>4, <2>5, <2>6, <2>7 DEF Next, Step
<1>2. IInv /\ [Next]_vars =>
        [OwnStep /\ remote # Absent /\ ~(remote \subseteq remote') =>
            \E i \in DOMAIN outbox : outbox[i].expected = remote /\ candidate[outbox[i].task] = remote']_vars
  BY <1>1
<1> QED BY <1>2, IInvHolds, PTL DEF Spec, OnlyExpectedOverwritten
=============================================================================
