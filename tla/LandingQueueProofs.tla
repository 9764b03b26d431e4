------------------------- MODULE LandingQueueProofs -------------------------
(***************************************************************************)
(* Proofs about LandingQueue, for any number of tasks, batches, drifts,    *)
(* failures and crashes: the types, with the limit on rebuilds, and that   *)
(* landings keep the order of the queue.                                   *)
(*                                                                         *)
(* The argument: the task at hand is the first of an order without         *)
(* repetitions, of tasks that had not landed when the batch was selected   *)
(* (OrderUnlanded).  A ticket that says landed has landed (TicketIsTrue),  *)
(* and a landing that is not delivered yet is either at hand or holds the  *)
(* queue: as a hold, or as a head that never moves (Undelivered).          *)
(***************************************************************************)
EXTENDS LandingQueue, FiniteSetTheorems, WellFoundedInduction, TLAPS

\* With a task of the batch at hand
AtHand == {"build", "verify", "land", "reverify", "landed", "publish", "driving", "close"}

\* The task at hand has landed.
Landing == {"landed", "publish", "driving", "close"}

\* The batch has no task twice, and there is a task at hand where one is needed.
OrderOK ==
    /\ \A i, j \in 1 .. Len(order) : order[i] = order[j] => i = j
    /\ pc \in AtHand => order # <<>>

WellFormed ==
    /\ TypeOK
    /\ ticket \in [Task -> Ticket \cup {None}]
    /\ crashes \in Nat
    /\ OrderOK

\* Of the tasks still to merge only the one at hand may have landed.
OrderUnlanded ==
    /\ pc \in Landing => landed[Head(order)] # 0
    /\ \A i \in 1 .. Len(order) : landed[order[i]] # 0 => i = 1 /\ pc \in Landing

\* A ticket that is shipped has landed, one that is blocked has blockers.
TicketIsTrue ==
    \A b \in Tickets :
        /\ ticket[b].status \in {"landed", "publishing"} => landed[b] # 0
        /\ ticket[b].status = "blocked_unshipped_prerequisite" => Blockers[b] # {}

\* Admission is asked without shipped tasks: nothing with blockers lands.
LandedUnblocked == \A b \in Task : landed[b] # 0 => Blockers[b] = {}

\* A landing that is to be delivered and is not: it holds the queue, or is at hand.
Undelivered ==
    /\ pc = "driving" => Head(order) \in outbox
    /\ required /\ crashes = 0 =>
         \A b \in Tickets : landed[b] # 0 =>
           \/ b \in remote
           \/ ticket[b].status \in Eligible \cup {"publishing"}
           \/ pc \in {"landed", "publish"} /\ b = Head(order)

QueueInv ==
    /\ WellFormed /\ OrderUnlanded /\ TicketIsTrue /\ LandedUnblocked /\ Undelivered

-----------------------------------------------------------------------------
(* The order of a batch *)

\* A set of natural numbers that is not empty has a least element.
LEMMA LeastNat ==
    ASSUME NEW T, T \subseteq Nat, T # {} PROVE \E x \in T : \A y \in T : x <= y
<1>1. OpToRel(<, Nat) = {ss \in Nat \X Nat : ss[1] < ss[2]}
  BY Zenon DEF OpToRel
<1>2. \E x \in T : \A y \in T : ~ (<<y, x>> \in OpToRel(<, Nat))
  BY NatLessThanWellFounded, WFMin
<1>3. ASSUME NEW x \in T, NEW y \in T, y < x
      PROVE  <<y, x>> \in {ss \in Nat \X Nat : ss[1] < ss[2]}
  <2>1. <<y, x>> \in Nat \X Nat
    OBVIOUS
  <2>2. <<y, x>>[1] < <<y, x>>[2]
    BY <1>3
  <2> QED BY <2>1, <2>2, Zenon
<1>4. \E x \in T : \A y \in T : ~ (y < x)
  BY <1>1, <1>2, <1>3, Zenon
<1> QED BY <1>4

\* Tasks that are not none have a first one on the board.
LEMMA FirstOnBoard ==
    ASSUME NEW S, S \subseteq Task, S # {}
    PROVE  \E a \in S : \A b \in S : Board[a] <= Board[b]
<1>1. {Board[a] : a \in S} \subseteq Nat /\ {Board[a] : a \in S} # {}
  BY QueueAssumption
<1>2. PICK x \in {Board[a] : a \in S} : \A y \in {Board[a] : a \in S} : x <= y
  BY <1>1, LeastNat
<1> QED BY <1>2

\* The next task is one that was not taken.
LEMMA NextIsFresh ==
    ASSUME NEW S, S \subseteq Task, NEW taken, S \ taken # {}
    PROVE  NextInOrder(S, taken) \in S \ taken
<1> DEFINE ready == {a \in S \ taken : Blockers[a] \cap S \subseteq taken}
           pool == IF ready # {} THEN ready ELSE S \ taken
<1>1. pool \subseteq S \ taken /\ pool # {}
  OBVIOUS
<1> HIDE DEF pool
<1>2. \E a \in pool : \A b \in pool : Board[a] <= Board[b]
  BY <1>1, FirstOnBoard
<1>3. (CHOOSE a \in pool : \A b \in pool : Board[a] <= Board[b]) \in pool
  BY <1>2
<1> QED BY <1>1, <1>3 DEF NextInOrder, pool

\* What an order has taken after k tasks.
Taken(s, k) == {s[j] : j \in 1 .. k}

\* s is the order of S, up to its length.
Ordered(S, s, n) ==
    /\ s \in [1 .. n -> S]
    /\ \A i \in 1 .. n : s[i] = NextInOrder(S, Taken(s, i - 1))

\* What was taken is never all of S before the end.
LEMMA NotAllTaken ==
    ASSUME NEW S, IsFiniteSet(S), NEW n \in Nat, n < Cardinality(S),
           NEW s, \A j \in 1 .. n : s[j] \in S
    PROVE  S \ Taken(s, n) # {}
<1> DEFINE T == Taken(s, n)
           f == [j \in 1 .. n |-> s[j]]
<1>1. f \in Surjection(1 .. n, T)
  BY DEF Surjection, Taken
<1>2. IsFiniteSet(1 .. n) /\ Cardinality(1 .. n) = n
  BY FS_Interval
<1> HIDE DEF T, f
<1>3. IsFiniteSet(T) /\ Cardinality(T) <= n
  BY <1>1, <1>2, FS_Surjection
<1>4. Cardinality(T) # Cardinality(S)
  BY <1>3, FS_CardinalityType
<1>5. T # S /\ T \subseteq S
  BY <1>4 DEF T, Taken
<1> QED BY <1>5 DEF T

\* An order can be continued.
LEMMA OrderExtends ==
    ASSUME NEW S, S \subseteq Task, IsFiniteSet(S), NEW n \in Nat, n < Cardinality(S),
           \E s : Ordered(S, s, n)
    PROVE  \E s : Ordered(S, s, n + 1)
<1>1. PICK s : Ordered(S, s, n)
  OBVIOUS
<1> DEFINE next == NextInOrder(S, Taken(s, n))
           r == [i \in 1 .. n + 1 |-> IF i = n + 1 THEN next ELSE s[i]]
<1>2. S \ Taken(s, n) # {}
  BY <1>1, NotAllTaken DEF Ordered
<1>3. next \in S
  BY <1>2, NextIsFresh
<1> HIDE DEF next
<1>4. r \in [1 .. n + 1 -> S]
  BY <1>1, <1>3 DEF Ordered
<1>5. ASSUME NEW i \in 1 .. n + 1 PROVE Taken(r, i - 1) = Taken(s, i - 1)
  <2>1. \A j \in 1 .. i - 1 : r[j] = s[j]
    OBVIOUS
  <2> HIDE DEF r
  <2> QED BY <2>1 DEF Taken
<1>6. ASSUME NEW i \in 1 .. n + 1
      PROVE  r[i] = NextInOrder(S, Taken(s, i - 1))
  <2>1. CASE i = n + 1
    <3>1. i - 1 = n /\ r[i] = next
      BY <2>1
    <3> QED BY <3>1 DEF next
  <2>2. CASE i # n + 1
    BY <2>2, <1>1 DEF Ordered
  <2> QED BY <2>1, <2>2
<1> HIDE DEF r
<1>7. Ordered(S, r, n + 1)
  BY <1>4, <1>5, <1>6 DEF Ordered
<1> QED BY <1>7

\* A selection has an order of every length up to its own.
LEMMA OrderExists ==
    ASSUME NEW S, S \subseteq Task, IsFiniteSet(S)
    PROVE  \E s : Ordered(S, s, Cardinality(S))
<1> DEFINE Short == {n \in 0 .. Cardinality(S) : ~ \E s : Ordered(S, s, n)}
<1>1. Cardinality(S) \in Nat
  BY FS_CardinalityType
<1>2. 0 \notin Short
  <2>1. Ordered(S, <<>>, 0)
    BY DEF Ordered
  <2> QED BY <2>1
<1>3. ASSUME Short # {} PROVE FALSE
  <2>1. Short \subseteq Nat
    BY <1>1
  <2>2. PICK n \in Short : \A m \in Short : n <= m
    <3> HIDE DEF Short
    <3> QED BY <2>1, <1>3, LeastNat
  <2>3. n # 0 /\ n - 1 \in 0 .. Cardinality(S) /\ n - 1 < Cardinality(S) /\ n - 1 \notin Short
    BY <1>1, <1>2, <2>2
  <2>4. \E s : Ordered(S, s, n - 1)
    BY <2>3
  <2>5. \E s : Ordered(S, s, (n - 1) + 1)
    BY <2>3, <2>4, <1>1, OrderExtends
  <2> QED BY <2>5
<1> QED BY <1>1, <1>3

\* orderTasksByDependencies gives every task of the selection a place, and one only.
LEMMA OrderHasAll ==
    ASSUME NEW S, S \subseteq Task, IsFiniteSet(S), NEW s, s = OrderTasksByDependencies(S)
    PROVE  /\ s \in [1 .. Cardinality(S) -> S]
           /\ \A i, j \in 1 .. Cardinality(S) : s[i] = s[j] => i = j
<1> DEFINE n == Cardinality(S)
           Right(r) == \A i \in 1 .. n : r[i] = NextInOrder(S, {r[j] : j \in 1 .. i - 1})
<1>1. n \in Nat
  BY FS_CardinalityType
<1>2. \E r \in [1 .. n -> S] : Right(r)
  BY OrderExists DEF Ordered, Taken
<1>3. s \in [1 .. n -> S] /\ Right(s)
  BY <1>2 DEF OrderTasksByDependencies
<1>4. Ordered(S, s, n)
  BY <1>3 DEF Ordered, Taken
<1> HIDE DEF n
<1>5. ASSUME NEW i \in 1 .. n PROVE s[i] \notin Taken(s, i - 1)
  <2>1. i - 1 \in Nat /\ i - 1 < n /\ \A j \in 1 .. i - 1 : s[j] \in S
    BY <1>1, <1>3
  <2>2. S \ Taken(s, i - 1) # {}
    BY <2>1, NotAllTaken DEF n
  <2> QED BY <1>4, <2>2, NextIsFresh DEF Ordered
<1>6. ASSUME NEW i \in 1 .. n, NEW j \in 1 .. n, j < i PROVE s[j] # s[i]
  BY <1>1, <1>5, <1>6 DEF Taken
<1> QED BY <1>1, <1>3, <1>6 DEF n

-----------------------------------------------------------------------------
(* The queue *)

Queue == [Task -> Ticket \cup {None}]

\* updateTicket changes the status of one ticket, if there is one.
LEMMA StatusSet ==
    ASSUME NEW q \in Queue, NEW a \in Task, NEW st \in Statuses
    PROVE  /\ SetStatus(q, a, st) \in Queue
           /\ \A b \in Task : SetStatus(q, a, st)[b] = None <=> q[b] = None
           /\ \A b \in Task : q[b] # None =>
                /\ SetStatus(q, a, st)[b].seq = q[b].seq
                /\ SetStatus(q, a, st)[b].rebuilds = q[b].rebuilds
                /\ SetStatus(q, a, st)[b].seen = q[b].seen
                /\ SetStatus(q, a, st)[b].status = IF b = a THEN st ELSE q[b].status
<1>1. CASE q[a] = None
  BY <1>1, QueueAssumption DEF SetStatus, Queue
<1>2. CASE q[a] # None
  <2>1. q[a] \in Ticket /\ [q[a] EXCEPT !.status = st] \in Ticket
    BY <1>2 DEF Queue, Ticket
  <2> QED BY <1>2, <2>1, QueueAssumption DEF SetStatus, Queue, Ticket
<1> QED BY <1>1, <1>2

\* Invalidation leaves what has landed, failed or is blocked, and what is before the ticket.
LEMMA SuffixInvalidated ==
    ASSUME NEW q \in Queue, NEW a \in Task
    PROVE  /\ InvalidateSuffix(q, a) \in Queue
           /\ \A b \in Task : InvalidateSuffix(q, a)[b] = None <=> q[b] = None
           /\ InvalidateSuffix(q, a)[a] = q[a]
           /\ \A b \in Task : q[b] # None =>
                /\ InvalidateSuffix(q, a)[b].seq = q[b].seq
                /\ InvalidateSuffix(q, a)[b].rebuilds = q[b].rebuilds
                /\ InvalidateSuffix(q, a)[b].seen = q[b].seen
                /\ \/ InvalidateSuffix(q, a)[b].status = q[b].status
                   \/ /\ InvalidateSuffix(q, a)[b].status = "invalidated"
                      /\ q[b].status \notin {"landed", "failed", "blocked_unshipped_prerequisite"}
<1>1. ASSUME NEW b \in Task, q[b] # None
      PROVE  q[b] \in Ticket /\ [q[b] EXCEPT !.status = "invalidated"] \in Ticket
  BY <1>1 DEF Queue, Ticket, Statuses, Eligible
<1>2. ASSUME NEW b \in Task
      PROVE  \/ InvalidateSuffix(q, a)[b] = q[b]
             \/ /\ b # a /\ q[b] # None
                /\ q[b].status \notin {"landed", "failed", "blocked_unshipped_prerequisite"}
                /\ InvalidateSuffix(q, a)[b] = [q[b] EXCEPT !.status = "invalidated"]
  <2>1. CASE q[b] = None \/ q[a] = None
    BY <2>1 DEF InvalidateSuffix
  <2>2. CASE q[b] # None /\ q[a] # None
    <3>1. q[b].seq \in Nat /\ q[a].seq \in Nat
      BY <2>2, <1>1 DEF Ticket
    <3> QED BY <2>2, <3>1 DEF InvalidateSuffix
  <2> QED BY <2>1, <2>2
<1>3. InvalidateSuffix(q, a) \in Queue
  BY <1>1, <1>2 DEF Queue, InvalidateSuffix
<1>4. ASSUME NEW b \in Task, q[b] # None
      PROVE  /\ [q[b] EXCEPT !.status = "invalidated"].seq = q[b].seq
             /\ [q[b] EXCEPT !.status = "invalidated"].rebuilds = q[b].rebuilds
             /\ [q[b] EXCEPT !.status = "invalidated"].seen = q[b].seen
             /\ [q[b] EXCEPT !.status = "invalidated"].status = "invalidated"
             /\ [q[b] EXCEPT !.status = "invalidated"] # None
  BY <1>4, <1>1, QueueAssumption DEF Ticket
<1> QED BY <1>2, <1>3, <1>4

\* A ticket that is shipped starts its count again.
LEMMA ShippedMarked ==
    ASSUME NEW q \in Queue, NEW a \in Task, NEW st \in Statuses
    PROVE  /\ MarkShipped(q, a, st) \in Queue
           /\ \A b \in Task : MarkShipped(q, a, st)[b] = None <=> q[b] = None
           /\ \A b \in Task : q[b] # None =>
                /\ MarkShipped(q, a, st)[b].seq = q[b].seq
                /\ MarkShipped(q, a, st)[b].rebuilds \in {0, q[b].rebuilds}
                /\ MarkShipped(q, a, st)[b].seen = q[b].seen
                /\ MarkShipped(q, a, st)[b].status = IF b = a THEN st ELSE q[b].status
<1>1. CASE q[a] = None
  BY <1>1, QueueAssumption DEF MarkShipped, Queue
<1>2. CASE q[a] # None
  <2> DEFINE r == [q[a] EXCEPT !.status = st, !.rebuilds = 0]
  <2>1. q[a] \in Ticket /\ r \in Ticket
    <3>1. q[a] \in Ticket
      BY <1>2 DEF Queue
    <3>2. 0 \in 0 .. RebuildLimit
      BY QueueAssumption
    <3> QED BY <3>1, <3>2 DEF Ticket
  <2>2. MarkShipped(q, a, st) = [q EXCEPT ![a] = r]
    BY <1>2, <2>1 DEF MarkShipped, Queue, Ticket
  <2>3. r.seq = q[a].seq /\ r.rebuilds = 0 /\ r.seen = q[a].seen /\ r.status = st /\ r # None
    BY <2>1, QueueAssumption DEF Ticket
  <2> HIDE DEF r
  <2> QED BY <2>1, <2>2, <2>3, <1>2 DEF Queue
<1> QED BY <1>1, <1>2

\* The k-th of the new tickets
LEMMA FreshCounted ==
    ASSUME NEW n \in Nat, NEW fresh, fresh \subseteq 1 .. n, NEW i \in fresh
    PROVE  /\ Cardinality(fresh) \in Nat
           /\ Cardinality({j \in fresh : j <= i}) \in 1 .. Cardinality(fresh)
<1>1. IsFiniteSet(1 .. n)
  BY FS_Interval
<1>2. IsFiniteSet(fresh)
  BY <1>1, FS_Subset
<1> DEFINE below == {j \in fresh : j <= i}
<1>3. below \in SUBSET fresh /\ i \in below
  OBVIOUS
<1> HIDE DEF below
<1>4. IsFiniteSet(below) /\ Cardinality(below) <= Cardinality(fresh)
  BY <1>2, <1>3, FS_Subset
<1>5. Cardinality(below) \in Nat /\ Cardinality(fresh) \in Nat /\ Cardinality(below) # 0
  BY <1>2, <1>3, <1>4, FS_CardinalityType, FS_EmptySet
<1> QED BY <1>4, <1>5 DEF below

\* A task has a ticket from its first batch on, and keeps its place.
LEMMA TicketsAssigned ==
    ASSUME WellFormed, NEW n \in Nat, NEW s \in [1 .. n -> Task], AssignTickets(s)
    PROVE  /\ ticket' \in Queue
           /\ nextSeq' \in Nat /\ nextSeq <= nextSeq'
           /\ \A b \in Tickets' :
                \/ b \in Tickets /\ ticket'[b] = ticket[b]
                \/ /\ b \in Tickets /\ ticket[b].status = "invalidated"
                   /\ ticket'[b] = [ticket[b] EXCEPT !.status = "queued"]
                \/ /\ b \notin Tickets
                   /\ ticket'[b] \in [seq : 1 .. nextSeq' - 1, status : {"queued"},
                                      rebuilds : {0}, seen : {0}]
                   /\ \E i \in 1 .. n : s[i] = b
<1> DEFINE fresh == {i \in 1 .. Len(s) : ticket[s[i]] = None}
           kth(i) == Cardinality({j \in fresh : j <= i})
           new(b) == kth(CHOOSE i \in fresh : s[i] = b)
<1>1. Len(s) = n /\ \A i \in 1 .. n : s[i] \in Task
  <2>1. s \in Seq(Task)
    OBVIOUS
  <2> QED BY <2>1
<1>2. fresh \subseteq 1 .. n
  BY <1>1
<1>3. /\ nextSeq' = nextSeq + Cardinality(fresh)
      /\ ticket' = [a \in Task |->
             IF \E i \in 1 .. Len(s) : s[i] = a
             THEN IF ticket[a] = None THEN NewTicket(new(a))
                  ELSE [ticket[a] EXCEPT !.status = IF @ = "invalidated" THEN "queued" ELSE @]
             ELSE ticket[a]]
  BY DEF AssignTickets
<1>4. ASSUME NEW b \in Task, ticket[b] = None, NEW i \in 1 .. n, s[i] = b
      PROVE  new(b) \in 1 .. Cardinality(fresh) /\ Cardinality(fresh) \in Nat
  <2>1. (CHOOSE j \in fresh : s[j] = b) \in fresh
    BY <1>1, <1>4
  <2> HIDE DEF fresh
  <2> QED BY <1>2, <2>1, FreshCounted
<1>5. Cardinality(fresh) \in Nat /\ nextSeq \in Nat \ {0}
  <2>1. IsFiniteSet(fresh)
    BY <1>2, FS_Interval, FS_Subset
  <2> QED BY <2>1, FS_CardinalityType DEF WellFormed, TypeOK
<1> HIDE DEF fresh, new
<1>6. ASSUME NEW b \in Task, ticket[b] = None, \E i \in 1 .. n : s[i] = b
      PROVE  /\ ticket'[b] \in [seq : 1 .. nextSeq' - 1, status : {"queued"}, rebuilds : {0}, seen : {0}]
             /\ ticket'[b] \in Ticket
  <2>1. ticket'[b] = NewTicket(new(b))
    BY <1>1, <1>3, <1>6
  <2>2. new(b) \in 1 .. Cardinality(fresh)
    BY <1>4, <1>6
  <2>3. nextSeq + new(b) - 1 \in 1 .. nextSeq' - 1
    BY <1>3, <1>5, <2>2
  <2> QED BY <2>1, <2>3, <1>3, <1>5, QueueAssumption DEF NewTicket, Ticket, Statuses, Eligible
<1>7. ASSUME NEW b \in Task, ticket[b] # None
      PROVE  /\ ticket'[b] \in Ticket
             /\ \/ ticket'[b] = ticket[b]
                \/ /\ ticket[b].status = "invalidated"
                   /\ ticket'[b] = [ticket[b] EXCEPT !.status = "queued"]
  <2>1. ticket[b] \in Ticket
    BY <1>7 DEF WellFormed
  <2>2. \/ ticket'[b] = ticket[b]
        \/ ticket'[b] = [ticket[b] EXCEPT !.status = IF @ = "invalidated" THEN "queued" ELSE @]
    BY <1>3, <1>7
  <2> QED BY <2>1, <2>2 DEF Ticket, Statuses, Eligible
<1>8. ASSUME NEW b \in Task, ticket[b] = None, ~ \E i \in 1 .. n : s[i] = b
      PROVE  ticket'[b] = None
  BY <1>1, <1>3, <1>8
<1>9. ticket' \in Queue
  BY <1>3, <1>6, <1>7, <1>8 DEF Queue
<1>10. nextSeq' \in Nat /\ nextSeq <= nextSeq'
  BY <1>3, <1>5
<1>11. ASSUME NEW b \in Tickets'
       PROVE  \/ b \in Tickets /\ ticket'[b] = ticket[b]
              \/ /\ b \in Tickets /\ ticket[b].status = "invalidated"
                 /\ ticket'[b] = [ticket[b] EXCEPT !.status = "queued"]
              \/ /\ b \notin Tickets
                 /\ ticket'[b] \in [seq : 1 .. nextSeq' - 1, status : {"queued"},
                                    rebuilds : {0}, seen : {0}]
                 /\ \E i \in 1 .. n : s[i] = b
  BY <1>6, <1>7, <1>8 DEF Tickets
<1> QED BY <1>9, <1>10, <1>11

-----------------------------------------------------------------------------
(* What the steps have in common *)

\* The types of the tickets, as TypeOK has them
TicketTypes ==
    \A a \in Tickets : ticket[a] \in [seq : 1 .. nextSeq - 1, status : Statuses,
                                      rebuilds : 0 .. RebuildLimit, seen : 0 .. tip]

\* No ticket is added or lost or moved; a target it has seen is the present one.
TicketsKept ==
    /\ ticket' \in Queue
    /\ \A b \in Task : ticket'[b] = None <=> ticket[b] = None
    /\ \A b \in Tickets :
         ticket'[b].seq = ticket[b].seq /\ ticket'[b].seen \in {ticket[b].seen, tip}

\* Tickets that are kept keep their types, whatever their status and count.
LEMMA KeptTypes ==
    ASSUME WellFormed, TicketsKept, nextSeq' = nextSeq, tip' \in Nat, tip <= tip'
    PROVE  Tickets' = Tickets /\ TicketTypes'
<1>1. Tickets' = Tickets
  BY DEF TicketsKept, Tickets
<1>2. ASSUME NEW b \in Tickets
      PROVE  ticket'[b] \in [seq : 1 .. nextSeq' - 1, status : Statuses,
                             rebuilds : 0 .. RebuildLimit, seen : 0 .. tip']
  <2>1. b \in Task /\ ticket'[b] # None
    BY <1>2 DEF TicketsKept, Tickets
  <2>2. ticket'[b] \in Ticket
    BY <2>1 DEF TicketsKept, Queue
  <2>3. ticket[b] \in [seq : 1 .. nextSeq - 1, status : Statuses,
                       rebuilds : 0 .. RebuildLimit, seen : 0 .. tip]
    BY <1>2 DEF WellFormed, TypeOK
  <2>4. ticket[b].seq \in 1 .. nextSeq' - 1 /\ ticket[b].seen \in 0 .. tip' /\ tip \in 0 .. tip'
    BY <2>3 DEF WellFormed, TypeOK
  <2>5. ticket'[b].seq \in 1 .. nextSeq' - 1 /\ ticket'[b].seen \in 0 .. tip'
    BY <2>4, <1>2 DEF TicketsKept
  <2> QED BY <2>2, <2>5 DEF Ticket
<1> QED BY <1>1, <1>2 DEF TicketTypes

\* A queue that did not change is kept.
LEMMA SameTickets ==
    ASSUME WellFormed, ticket' = ticket PROVE TicketsKept
BY DEF WellFormed, TicketsKept, Queue

\* The task at hand is one of the batch, and has no landing before it lands.
LEMMA TaskAtHand ==
    ASSUME WellFormed, OrderUnlanded, order # <<>>
    PROVE  /\ Head(order) \in Task /\ Head(order) = order[1] /\ Len(order) \in Nat \ {0}
           /\ pc \notin Landing => landed[Head(order)] = 0
<1>1. order \in Seq(Task)
  BY DEF WellFormed, TypeOK
<1>2. Head(order) \in Task /\ Head(order) = order[1] /\ Len(order) \in Nat \ {0}
  BY <1>1
<1> QED BY <1>2 DEF OrderUnlanded

\* The loop goes on: the rest of the order has nothing landed and nothing twice.
LEMMA OrderPops ==
    ASSUME WellFormed, OrderUnlanded, order # <<>>, order' = Tail(order), pc' = "next",
           landed' = landed
    PROVE  order' \in Seq(Task) /\ OrderOK' /\ OrderUnlanded'
<1>1. order \in Seq(Task)
  BY DEF WellFormed, TypeOK
<1>2. /\ Tail(order) \in Seq(Task) /\ Len(Tail(order)) = Len(order) - 1 /\ Len(order) \in Nat
      /\ \A i \in 1 .. Len(Tail(order)) : Tail(order)[i] = order[i + 1]
  BY <1>1
<1>3. ASSUME NEW i \in 1 .. Len(order')
      PROVE  order'[i] = order[i + 1] /\ i + 1 \in 1 .. Len(order) /\ landed[order'[i]] = 0
  <2>1. order'[i] = order[i + 1] /\ i + 1 \in 1 .. Len(order) /\ i + 1 # 1
    BY <1>2
  <2> QED BY <2>1 DEF OrderUnlanded
<1>4. ASSUME NEW i \in 1 .. Len(order'), NEW j \in 1 .. Len(order'), order'[i] = order'[j]
      PROVE  i = j
  BY <1>3, <1>4, <1>2 DEF WellFormed, OrderOK
<1>5. OrderOK'
  BY <1>4 DEF OrderOK, AtHand
<1>6. OrderUnlanded'
  BY <1>3 DEF OrderUnlanded, Landing
<1> QED BY <1>2, <1>5, <1>6

\* An order that is not changed stays as it should be while the run only goes on.
LEMMA OrderStays ==
    ASSUME WellFormed, OrderUnlanded, order' = order, landed' = landed,
           pc' \in AtHand => order # <<>>,
           pc \in Landing <=> pc' \in Landing
    PROVE  order' \in Seq(Task) /\ OrderOK' /\ OrderUnlanded'
BY DEF WellFormed, TypeOK, OrderOK, OrderUnlanded

\* An order without tasks is as it should be.
LEMMA OrderEmpty ==
    ASSUME order' = <<>>, pc' \notin AtHand
    PROVE  order' \in Seq(Task) /\ OrderOK' /\ OrderUnlanded'
<1>1. order' \in Seq(Task) /\ Len(order') = 0
  OBVIOUS
<1> QED BY <1>1 DEF OrderOK, OrderUnlanded, Landing, AtHand

\* A status that is kept, or is one before the landing, says nothing wrong.
LEMMA StatusStaysTrue ==
    ASSUME TicketIsTrue, Tickets' = Tickets, landed' = landed,
           \A b \in Tickets : \/ ticket'[b].status = ticket[b].status
                              \/ ticket'[b].status \in Eligible \cup {"failed"}
    PROVE  TicketIsTrue'
BY DEF TicketIsTrue, Eligible

\* What is not delivered stays undelivered, or at hand, while the run goes on.
LEMMA StaysUndelivered ==
    ASSUME Undelivered, Tickets' = Tickets, UNCHANGED <<required, landed>>, remote \subseteq remote',
           crashes' = crashes,
           pc \notin {"landed", "publish"}, pc' # "driving",
           \A b \in Tickets :
              landed[b] # 0 => \/ ticket'[b].status = ticket[b].status
                               \/ ticket'[b].status \in Eligible
    PROVE  Undelivered'
BY DEF Undelivered

\* With the same tickets and landings everything they say stays true.
LEMMA QuietKept ==
    ASSUME QueueInv, UNCHANGED <<ticket, nextSeq, landed>>, tip' \in Nat, tip <= tip'
    PROVE  /\ ticket' \in Queue /\ TicketTypes' /\ Tickets' = Tickets
           /\ landed' \in [Task -> 0 .. tip']
           /\ TicketIsTrue' /\ LandedUnblocked'
<1> USE DEF QueueInv
<1>1. TicketsKept
  BY SameTickets
<1>2. TicketTypes' /\ Tickets' = Tickets
  BY <1>1, KeptTypes
<1>3. 0 .. tip \subseteq 0 .. tip'
  BY DEF WellFormed, TypeOK
<1>4. landed' \in [Task -> 0 .. tip']
  <2>1. landed \in [Task -> 0 .. tip]
    BY DEF WellFormed, TypeOK
  <2> QED BY <1>3, <2>1
<1>5. TicketIsTrue' /\ LandedUnblocked'
  BY <1>2 DEF TicketIsTrue, LandedUnblocked
<1> QED BY <1>1, <1>2, <1>4, <1>5 DEF TicketsKept

-----------------------------------------------------------------------------
(* The steps of a run that change no ticket *)

\* A run is launched, or ends, or its batch ends.
LEMMA TurnsKeep ==
    ASSUME QueueInv, Launch \/ EndBatch \/ Finish PROVE QueueInv'
<1> USE DEF Launch, EndBatch, Finish, store, run, aux
<1>1. tip' \in Nat /\ tip <= tip'
  BY DEF QueueInv, WellFormed, TypeOK
<1>2. /\ ticket' \in Queue /\ TicketTypes' /\ Tickets' = Tickets
      /\ TicketIsTrue' /\ LandedUnblocked'
  BY <1>1, QuietKept
<1>3. order' \in Seq(Task) /\ OrderOK' /\ OrderUnlanded'
  BY OrderStays DEF QueueInv, AtHand, Landing
<1>4. TypeOK'
  BY <1>2, <1>3 DEF QueueInv, WellFormed, TypeOK, TicketTypes
<1>5. Undelivered'
  BY <1>2, StaysUndelivered DEF QueueInv
<1> QED BY <1>2, <1>3, <1>4, <1>5 DEF QueueInv, WellFormed, Queue

\* Reconciliation closes a task that has landed.
LEMMA ReconcileKeeps ==
    ASSUME QueueInv, Reconcile PROVE QueueInv'
<1> USE DEF Reconcile, run, aux
<1>1. tip' \in Nat /\ tip <= tip'
  BY DEF QueueInv, WellFormed, TypeOK
<1>2. /\ ticket' \in Queue /\ TicketTypes' /\ Tickets' = Tickets
      /\ TicketIsTrue' /\ LandedUnblocked'
  BY <1>1, QuietKept
<1>3. order' \in Seq(Task) /\ OrderOK' /\ OrderUnlanded'
  BY OrderStays DEF QueueInv, AtHand, Landing
<1>4. TypeOK'
  BY <1>2, <1>3 DEF QueueInv, WellFormed, TypeOK, TicketTypes, Settled
<1>5. Undelivered'
  BY <1>2, StaysUndelivered DEF QueueInv
<1> QED BY <1>2, <1>3, <1>4, <1>5 DEF QueueInv, WellFormed, Queue

\* The host branch is landed first, or no task of the batch is merged.
LEMMA ImportHostKeeps ==
    ASSUME QueueInv, ImportHost PROVE QueueInv'
<1> USE DEF ImportHost, HostContained, HostLands, HostPending, RevertOrder, Fail
<1>1. tip' \in Nat /\ tip <= tip' /\ pred' \in 0 .. tip' /\ base' \in 0 .. tip' /\ tip' # 0
  BY DEF QueueInv, WellFormed, TypeOK
<1>2. /\ ticket' \in Queue /\ TicketTypes' /\ Tickets' = Tickets
      /\ landed' \in [Task -> 0 .. tip']
      /\ TicketIsTrue' /\ LandedUnblocked'
  BY <1>1, QuietKept
<1>3. order' \in Seq(Task) /\ OrderOK' /\ OrderUnlanded'
  <2>1. CASE order' = order
    BY <2>1, OrderStays DEF QueueInv, AtHand, Landing
  <2>2. CASE order' = <<>>
    BY <2>2, OrderEmpty DEF AtHand
  <2> QED BY <2>1, <2>2
<1>4. hub' \in [Task -> Settled \cup {"waiting_for_merge", "merging", "publishing"}]
  BY DEF QueueInv, WellFormed, TypeOK
<1>5. TypeOK'
  BY <1>1, <1>2, <1>3, <1>4 DEF QueueInv, WellFormed, TypeOK, TicketTypes
<1>6. Undelivered'
  BY <1>2, StaysUndelivered DEF QueueInv
<1> QED BY <1>2, <1>3, <1>5, <1>6 DEF QueueInv, WellFormed, Queue

\* The loop goes on with a task whose status in Beads is settled.
LEMMA SettleKeeps ==
    ASSUME QueueInv, UNCHANGED <<ticket, nextSeq, landed, required, remote, outbox, tip, base, host>>,
           NEW st \in Settled \cup {"waiting_for_merge", "publishing"}, Settle(st), order # <<>>,
           pc \notin {"landed", "publish"}, shipped' \subseteq Task, pred' \in 0 .. tip,
           UNCHANGED crashes
    PROVE  QueueInv'
<1> USE DEF Settle
<1>1. tip' \in Nat /\ tip <= tip'
  BY DEF QueueInv, WellFormed, TypeOK
<1>2. /\ ticket' \in Queue /\ TicketTypes' /\ Tickets' = Tickets
      /\ TicketIsTrue' /\ LandedUnblocked'
  BY <1>1, QuietKept
<1>3. order' \in Seq(Task) /\ OrderOK' /\ OrderUnlanded'
  BY OrderPops DEF QueueInv
<1>4. hub' \in [Task -> Settled \cup {"waiting_for_merge", "merging", "publishing"}]
  BY DEF QueueInv, WellFormed, TypeOK
<1>5. TypeOK'
  BY <1>2, <1>3, <1>4 DEF QueueInv, WellFormed, TypeOK, TicketTypes
<1>6. Undelivered'
  BY <1>2, StaysUndelivered DEF QueueInv
<1> QED BY <1>2, <1>3, <1>5, <1>6 DEF QueueInv, WellFormed, Queue

\* A task is left pending, or its landing, delivery or closing fails.
LEMMA FailuresKeep ==
    ASSUME QueueInv, RefuseOvertaking \/ LandError \/ DeliveryTimeout \/ CloseFail
    PROVE  QueueInv'
<1> USE DEF RefuseOvertaking, LandError, DeliveryTimeout, CloseFail
<1>1. order # <<>> /\ pc \notin {"landed", "publish"} /\ shipped' \subseteq Task /\ pred' \in 0 .. tip
  BY DEF QueueInv, WellFormed, TypeOK, OrderOK, AtHand
<1>2. \E st \in Settled \cup {"waiting_for_merge", "publishing"} : Settle(st)
  BY DEF Settled
<1> QED BY <1>1, <1>2, SettleKeeps DEF aux

\* A rebuilt candidate is verified, or the task is settled.
LEMMA ReverifyKeeps ==
    ASSUME QueueInv, Reverify PROVE QueueInv'
<1>1. CASE \E st \in {"blocked", "failed", "waiting_for_merge"} : Settle(st)
  <2>1. order # <<>> /\ pc \notin {"landed", "publish"} /\ shipped' \subseteq Task /\ pred' \in 0 .. tip
    BY DEF QueueInv, WellFormed, TypeOK, OrderOK, AtHand, Reverify
  <2>2. \E st \in Settled \cup {"waiting_for_merge", "publishing"} : Settle(st)
    BY <1>1 DEF Settled
  <2> QED BY <2>1, <2>2, SettleKeeps DEF Reverify
<1>2. CASE pc' = "land" /\ UNCHANGED <<hub, order, failures>>
  <2> USE <1>2 DEF Reverify
  <2>1. tip' \in Nat /\ tip <= tip'
    BY DEF QueueInv, WellFormed, TypeOK
  <2>2. /\ ticket' \in Queue /\ TicketTypes' /\ Tickets' = Tickets
        /\ TicketIsTrue' /\ LandedUnblocked'
    BY <2>1, QuietKept
  <2>3. order' \in Seq(Task) /\ OrderOK' /\ OrderUnlanded'
    BY OrderStays DEF QueueInv, AtHand, Landing, WellFormed, OrderOK
  <2>4. TypeOK'
    BY <2>2, <2>3 DEF QueueInv, WellFormed, TypeOK, TicketTypes
  <2>5. Undelivered'
    BY <2>2, StaysUndelivered DEF QueueInv
  <2> QED BY <2>2, <2>3, <2>4, <2>5 DEF QueueInv, WellFormed, Queue
<1> QED BY <1>1, <1>2 DEF Reverify

\* The task is closed, the next one is built on what it landed as.
LEMMA CloseTaskKeeps ==
    ASSUME QueueInv, CloseTask PROVE QueueInv'
<1> USE DEF CloseTask, Settle, aux
<1>1. tip' \in Nat /\ tip <= tip' /\ order # <<>>
  BY DEF QueueInv, WellFormed, TypeOK, OrderOK, AtHand
<1>2. /\ ticket' \in Queue /\ TicketTypes' /\ Tickets' = Tickets
      /\ TicketIsTrue' /\ LandedUnblocked'
  BY <1>1, QuietKept
<1>3. order' \in Seq(Task) /\ OrderOK' /\ OrderUnlanded' /\ Head(order) \in Task
  BY <1>1, OrderPops, TaskAtHand DEF QueueInv
<1>4. /\ hub' \in [Task -> Settled \cup {"waiting_for_merge", "merging", "publishing"}]
      /\ outbox' \subseteq Task /\ shipped' \subseteq Task /\ pred' \in 0 .. tip
  BY <1>3 DEF QueueInv, WellFormed, TypeOK, Settled
<1>5. TypeOK'
  BY <1>2, <1>3, <1>4 DEF QueueInv, WellFormed, TypeOK, TicketTypes
<1>6. Undelivered'
  BY <1>2, StaysUndelivered DEF QueueInv
<1> QED BY <1>2, <1>3, <1>5, <1>6 DEF QueueInv, WellFormed, Queue

\* Others commit on the target or on the host branch.
LEMMA OthersKeep ==
    ASSUME QueueInv, Advance \/ HostCommit PROVE QueueInv'
<1> USE DEF Advance, HostCommit, store, run
<1>1. tip' \in Nat /\ tip <= tip' /\ pred' \in 0 .. tip' /\ base' \in 0 .. tip' /\ tip' # 0
  BY DEF QueueInv, WellFormed, TypeOK
<1>2. /\ ticket' \in Queue /\ TicketTypes' /\ Tickets' = Tickets
      /\ landed' \in [Task -> 0 .. tip']
      /\ TicketIsTrue' /\ LandedUnblocked'
  BY <1>1, QuietKept
<1>3. order' \in Seq(Task) /\ OrderOK' /\ OrderUnlanded'
  BY OrderStays DEF QueueInv, WellFormed, OrderOK
<1>4. TypeOK'
  BY <1>1, <1>2, <1>3 DEF QueueInv, WellFormed, TypeOK, TicketTypes
<1>5. Undelivered'
  BY <1>2 DEF QueueInv, Undelivered
<1> QED BY <1>2, <1>3, <1>4, <1>5 DEF QueueInv, WellFormed, Queue

\* A run that dies leaves the queue, the landings and the outbox.
LEMMA CrashKeeps ==
    ASSUME QueueInv, Crash PROVE QueueInv'
<1> USE DEF Crash, store
<1>1. tip' \in Nat /\ tip <= tip'
  BY DEF QueueInv, WellFormed, TypeOK
<1>2. /\ ticket' \in Queue /\ TicketTypes' /\ Tickets' = Tickets
      /\ TicketIsTrue' /\ LandedUnblocked'
  BY <1>1, QuietKept
<1>3. order' \in Seq(Task) /\ OrderOK' /\ OrderUnlanded'
  BY OrderEmpty DEF AtHand
<1>4. TypeOK'
  BY <1>2, <1>3 DEF QueueInv, WellFormed, TypeOK, TicketTypes
<1>5. crashes' \in Nat /\ crashes' # 0
  BY DEF QueueInv, WellFormed
<1>6. Undelivered'
  BY <1>5 DEF Undelivered
<1> QED BY <1>2, <1>3, <1>4, <1>5, <1>6 DEF QueueInv, WellFormed, Queue

-----------------------------------------------------------------------------
(* The steps that change tickets *)

\* The finite set of tasks to merge is ordered: a batch of unlanded tasks.
LEMMA SelectBatchKeeps ==
    ASSUME QueueInv, SelectBatch PROVE QueueInv'
<1> USE DEF aux
<1> DEFINE waiting == {a \in Task : Recovered(a) = "waiting_for_merge"}
           batch == {a \in waiting : \A b \in waiting : BatchOf[a] <= BatchOf[b]}
           s == OrderTasksByDependencies(batch)
<1>1. /\ pc = "start" /\ Reconciled
      /\ hub' = [a \in Task |-> IF a \in batch THEN "merging" ELSE Recovered(a)]
      /\ AssignTickets(s)
      /\ order' = s
      /\ shipped' = {a \in Task : hub[a] = "closed"}
      /\ pred' = 0 /\ base' = 0
      /\ pc' = IF batch = {} THEN "end" ELSE "host"
      /\ UNCHANGED <<required, tip, landed, outbox, remote, aux, host>>
  BY DEF SelectBatch
<1>2. batch \subseteq Task /\ IsFiniteSet(batch) /\ \A a \in batch : landed[a] = 0
  <2>1. batch \subseteq Task
    OBVIOUS
  <2>2. IsFiniteSet(batch)
    BY <2>1, QueueAssumption, FS_Subset
  <2>3. ASSUME NEW a \in batch PROVE landed[a] = 0
    BY <1>1, <2>3 DEF Reconciled, Recovered
  <2> QED BY <2>1, <2>2, <2>3
<1> HIDE DEF batch
<1>3. /\ Cardinality(batch) \in Nat
      /\ s \in [1 .. Cardinality(batch) -> batch]
      /\ \A i, j \in 1 .. Cardinality(batch) : s[i] = s[j] => i = j
  BY <1>2, OrderHasAll, FS_CardinalityType
<1> HIDE DEF s
<1>4. s \in [1 .. Cardinality(batch) -> Task]
  BY <1>2, <1>3
<1>5. s \in Seq(Task) /\ Len(s) = Cardinality(batch)
  BY <1>3, <1>4
<1>6. OrderOK' /\ OrderUnlanded'
  BY <1>1, <1>2, <1>3, <1>5 DEF OrderOK, OrderUnlanded, AtHand, Landing
<1>7. /\ ticket' \in Queue
      /\ nextSeq' \in Nat /\ nextSeq <= nextSeq'
      /\ \A b \in Tickets' :
           \/ b \in Tickets /\ ticket'[b] = ticket[b]
           \/ /\ b \in Tickets /\ ticket[b].status = "invalidated"
              /\ ticket'[b] = [ticket[b] EXCEPT !.status = "queued"]
           \/ /\ b \notin Tickets
              /\ ticket'[b] \in [seq : 1 .. nextSeq' - 1, status : {"queued"},
                                 rebuilds : {0}, seen : {0}]
              /\ \E i \in 1 .. Cardinality(batch) : s[i] = b
  BY <1>1, <1>3, <1>4, TicketsAssigned DEF QueueInv
<1>8. ASSUME NEW b \in Tickets'
      PROVE  /\ ticket'[b] \in [seq : 1 .. nextSeq' - 1, status : Statuses,
                                rebuilds : 0 .. RebuildLimit, seen : 0 .. tip']
             /\ \/ b \in Tickets /\ ticket'[b].status = ticket[b].status
                \/ ticket'[b].status = "queued"
  <2>1. 1 .. nextSeq - 1 \subseteq 1 .. nextSeq' - 1
    BY <1>7 DEF QueueInv, WellFormed, TypeOK
  <2>2. CASE b \in Tickets
    <3>1. ticket[b] \in [seq : 1 .. nextSeq - 1, status : Statuses,
                         rebuilds : 0 .. RebuildLimit, seen : 0 .. tip]
      BY <2>2 DEF QueueInv, WellFormed, TypeOK
    <3>2. \/ ticket'[b] = ticket[b]
          \/ ticket'[b] = [ticket[b] EXCEPT !.status = "queued"]
      BY <1>7, <2>2, <1>8
    <3> QED BY <2>1, <2>2, <3>1, <3>2, <1>1 DEF Statuses, Eligible
  <2>3. CASE b \notin Tickets
    <3>1. ticket'[b] \in [seq : 1 .. nextSeq' - 1, status : {"queued"}, rebuilds : {0}, seen : {0}]
      BY <1>7, <2>3, <1>8
    <3>2. 0 \in 0 .. RebuildLimit /\ 0 \in 0 .. tip'
      BY <1>1, QueueAssumption DEF QueueInv, WellFormed, TypeOK
    <3> QED BY <3>1, <3>2 DEF Statuses, Eligible
  <2> QED BY <2>2, <2>3
<1>9. TypeOK'
  <2>1. hub' \in [Task -> Settled \cup {"waiting_for_merge", "merging", "publishing"}]
    BY <1>1 DEF QueueInv, WellFormed, TypeOK, Recovered
  <2>2. nextSeq' \in Nat \ {0} /\ order' \in Seq(Task) /\ shipped' \subseteq Task
        /\ pred' \in 0 .. tip' /\ base' \in 0 .. tip'
    BY <1>1, <1>5, <1>7 DEF QueueInv, WellFormed, TypeOK
  <2>3. pc' \in {"host", "end"}
    BY <1>1
  <2> QED BY <1>1, <1>8, <2>1, <2>2, <2>3 DEF QueueInv, WellFormed, TypeOK
<1>10. TicketIsTrue'
  BY <1>1, <1>8 DEF QueueInv, TicketIsTrue
<1>11. LandedUnblocked'
  BY <1>1 DEF QueueInv, LandedUnblocked
<1>12. Undelivered'
  BY <1>1, <1>8 DEF QueueInv, Undelivered, Eligible
<1> QED BY <1>1, <1>6, <1>7, <1>9, <1>10, <1>11, <1>12 DEF QueueInv, WellFormed, Queue

\* A task whose blockers are not shipped is left out, with a ticket that says so.
LEMMA SkipBlockedKeeps ==
    ASSUME QueueInv, SkipBlocked PROVE QueueInv'
<1> USE DEF SkipBlocked, Settle, aux
<1> DEFINE a == Head(order)
<1>1. a \in Task /\ landed[a] = 0
  BY TaskAtHand DEF QueueInv, Landing
<1>2. TicketsKept /\ \A b \in Tickets :
        ticket'[b].status = IF b = a THEN "blocked_unshipped_prerequisite" ELSE ticket[b].status
  BY <1>1, StatusSet DEF QueueInv, WellFormed, Queue, TicketsKept, Tickets, Statuses
<1>3. tip' \in Nat /\ tip <= tip'
  BY DEF QueueInv, WellFormed, TypeOK
<1>4. Tickets' = Tickets /\ TicketTypes'
  BY <1>2, <1>3, KeptTypes DEF QueueInv
<1>5. order' \in Seq(Task) /\ OrderOK' /\ OrderUnlanded'
  BY OrderPops DEF QueueInv
<1>6. TypeOK'
  BY <1>1, <1>4, <1>5 DEF QueueInv, WellFormed, TypeOK, TicketTypes, Settled
<1>7. Blockers[a] # {}
  OBVIOUS
<1> HIDE DEF a
<1>8. TicketIsTrue'
  BY <1>2, <1>4, <1>7 DEF QueueInv, TicketIsTrue
<1>9. LandedUnblocked'
  BY DEF QueueInv, LandedUnblocked
<1>10. Undelivered'
  BY <1>1, <1>2, <1>4, StaysUndelivered DEF QueueInv
<1> QED BY <1>2, <1>5, <1>6, <1>8, <1>9, <1>10 DEF QueueInv, WellFormed, TicketsKept, Queue

\* A task is taken, or the target is noted for which a ticket waits.
LEMMA TakeTaskKeeps ==
    ASSUME QueueInv, TakeTask PROVE QueueInv'
<1> USE DEF TakeTask, Settle, aux, Unblocked
<1>1. TicketsKept /\ \A b \in Tickets :
        \/ ticket'[b].status = ticket[b].status
        \/ ticket'[b].status = "queued"
  <2>1. CASE ticket' = ticket
    BY <2>1, SameTickets DEF QueueInv
  <2>2. ASSUME NEW b \in Tickets, ticket' = NoteTarget(b) \/ ticket' = Resume(b)
        PROVE  TicketsKept /\ \A c \in Tickets : \/ ticket'[c].status = ticket[c].status
                                                 \/ ticket'[c].status = "queued"
    <3> DEFINE r == [ticket[b] EXCEPT !.seen = tip]
               u == [ticket[b] EXCEPT !.status = "queued", !.rebuilds = 0, !.seen = tip]
    <3>1. b \in Task /\ ticket[b] \in Ticket /\ ticket[b] # None /\ tip \in Nat
      BY <2>2 DEF Tickets, QueueInv, WellFormed, TypeOK
    <3>2. 0 \in 0 .. RebuildLimit
      BY QueueAssumption
    <3>3. r \in Ticket /\ r.seq = ticket[b].seq /\ r.seen = tip /\ r.status = ticket[b].status
      BY <3>1 DEF Ticket
    <3>4. u \in Ticket /\ u.seq = ticket[b].seq /\ u.seen = tip /\ u.status = "queued"
      BY <3>1, <3>2 DEF Ticket, Statuses, Eligible
    <3>5. r # None /\ u # None
      BY <3>3, <3>4, QueueAssumption
    <3>6. ticket' = [ticket EXCEPT ![b] = r] \/ ticket' = [ticket EXCEPT ![b] = u]
      BY <2>2, <3>1 DEF NoteTarget, Resume, QueueInv, WellFormed
    <3> HIDE DEF r, u
    <3> QED BY <3>1, <3>3, <3>4, <3>5, <3>6 DEF QueueInv, WellFormed, TicketsKept, Queue, Tickets
  <2> QED BY <2>1, <2>2 DEF Front, QuietTickets
<1>2. tip' \in Nat /\ tip <= tip'
  BY DEF QueueInv, WellFormed, TypeOK
<1>3. Tickets' = Tickets /\ TicketTypes'
  BY <1>1, <1>2, KeptTypes DEF QueueInv
<1>4. order' \in Seq(Task) /\ OrderOK' /\ OrderUnlanded'
  <2>1. CASE order' = order /\ pc' = "build"
    BY <2>1, OrderStays DEF QueueInv, Landing
  <2>2. CASE order' = Tail(order) /\ pc' = "next"
    BY <2>2, OrderPops DEF QueueInv
  <2> QED BY <2>1, <2>2
<1>5. TypeOK'
  BY <1>3, <1>4 DEF QueueInv, WellFormed, TypeOK, TicketTypes, Settled
<1>6. TicketIsTrue'
  BY <1>1, <1>3, StatusStaysTrue DEF QueueInv, Eligible
<1>7. LandedUnblocked'
  BY DEF QueueInv, LandedUnblocked
<1>8. Undelivered'
  BY <1>1, <1>3, StaysUndelivered DEF QueueInv, Eligible
<1> QED BY <1>1, <1>4, <1>5, <1>6, <1>7, <1>8 DEF QueueInv, WellFormed, TicketsKept, Queue

\* The status of the ticket at hand follows the candidate.
LEMMA CandidateKeeps ==
    ASSUME QueueInv, BuildCandidate \/ VerifyTask PROVE QueueInv'
<1> USE DEF BuildCandidate, VerifyTask, run, aux, CreateCandidate, PinnedBase
<1> DEFINE a == Head(order)
<1>1. a \in Task /\ order # <<>>
  BY TaskAtHand DEF QueueInv, WellFormed, OrderOK, AtHand
<1>2. TicketsKept /\ \A b \in Tickets :
        \/ ticket'[b].status = ticket[b].status
        \/ ticket'[b].status \in Eligible
  BY <1>1, StatusSet DEF QueueInv, WellFormed, Queue, TicketsKept, Tickets, Statuses, Eligible
<1>3. tip' \in Nat /\ tip <= tip'
  BY DEF QueueInv, WellFormed, TypeOK
<1>4. Tickets' = Tickets /\ TicketTypes'
  BY <1>2, <1>3, KeptTypes DEF QueueInv
<1>5. order' \in Seq(Task) /\ OrderOK' /\ OrderUnlanded'
  BY <1>1, OrderStays DEF QueueInv, Landing
<1>6. base' \in 0 .. tip'
  BY DEF QueueInv, WellFormed, TypeOK
<1>7. TypeOK'
  BY <1>4, <1>5, <1>6 DEF QueueInv, WellFormed, TypeOK, TicketTypes
<1>8. TicketIsTrue'
  BY <1>2, <1>4, StatusStaysTrue DEF QueueInv
<1>9. LandedUnblocked'
  BY DEF QueueInv, LandedUnblocked
<1>10. Undelivered'
  BY <1>2, <1>4, StaysUndelivered DEF QueueInv
<1> QED BY <1>2, <1>5, <1>7, <1>8, <1>9, <1>10 DEF QueueInv, WellFormed, TicketsKept, Queue

\* A merge or a verification fails before anything has landed.
LEMMA MergeFailureKeeps ==
    ASSUME QueueInv, MergeFails \/ VerifyFails PROVE QueueInv'
<1> USE DEF MergeFails, VerifyFails, FailTicket, Settle, Fail
<1> DEFINE a == Head(order)
           q == SetStatus(ticket, a, "failed")
<1>1. a \in Task /\ order # <<>> /\ landed[a] = 0
  BY TaskAtHand DEF QueueInv, WellFormed, OrderOK, AtHand, Landing
<1>2. /\ q \in Queue
      /\ \A b \in Task : q[b] = None <=> ticket[b] = None
      /\ \A b \in Tickets :
           /\ q[b].seq = ticket[b].seq /\ q[b].seen = ticket[b].seen
           /\ q[b].status = IF b = a THEN "failed" ELSE ticket[b].status
  BY <1>1, StatusSet DEF QueueInv, WellFormed, Queue, Tickets, Statuses
<1> HIDE DEF q
<1>3. TicketsKept /\ \A b \in Tickets :
        \/ ticket'[b].status = ticket[b].status
        \/ ticket'[b].status = "invalidated"
        \/ b = a /\ ticket'[b].status = "failed"
  <2>1. ticket' = InvalidateSuffix(q, a)
    BY DEF q
  <2> HIDE DEF a, MergeFails, VerifyFails
  <2>2. /\ ticket' \in Queue
        /\ \A b \in Task : ticket'[b] = None <=> q[b] = None
        /\ \A b \in Task : q[b] # None =>
             /\ ticket'[b].seq = q[b].seq /\ ticket'[b].seen = q[b].seen
             /\ ticket'[b].status \in {q[b].status, "invalidated"}
    BY <1>1, <1>2, <2>1, SuffixInvalidated
  <2> QED BY <1>2, <2>2 DEF TicketsKept, Tickets
<1>4. tip' \in Nat /\ tip <= tip'
  BY DEF QueueInv, WellFormed, TypeOK
<1>5. Tickets' = Tickets /\ TicketTypes'
  BY <1>3, <1>4, KeptTypes DEF QueueInv
<1>6. order' \in Seq(Task) /\ OrderOK' /\ OrderUnlanded'
  BY <1>1, OrderPops DEF QueueInv
<1>7. hub' \in [Task -> Settled \cup {"waiting_for_merge", "merging", "publishing"}]
  <2>1. ASSUME NEW result \in DOMAIN SettledStatus
        PROVE  SettledStatus[result] \in Settled \cup {"waiting_for_merge"}
    BY DEF SettledStatus, Settled
  <2>2. \E st \in Settled \cup {"waiting_for_merge"} : hub' = [hub EXCEPT ![a] = st]
    BY <2>1 DEF Settled
  <2> QED BY <2>2 DEF QueueInv, WellFormed, TypeOK
<1>8. TypeOK'
  BY <1>5, <1>6, <1>7 DEF QueueInv, WellFormed, TypeOK, TicketTypes
<1> HIDE DEF a
<1>9. TicketIsTrue'
  BY <1>3, <1>5, StatusStaysTrue DEF QueueInv, Eligible
<1>10. LandedUnblocked'
  BY DEF QueueInv, LandedUnblocked
<1>11. Undelivered'
  BY <1>1, <1>3, <1>5, StaysUndelivered DEF QueueInv, Eligible
<1> QED BY <1>3, <1>6, <1>8, <1>9, <1>10, <1>11 DEF QueueInv, WellFormed, TicketsKept, Queue

\* The task at hand lands as the head of the queue: it has no blockers.
LEMMA LandKeeps ==
    ASSUME QueueInv, Land PROVE QueueInv'
<1> USE DEF Land, run, aux
<1> DEFINE a == Head(order)
<1>1. a \in Task /\ order # <<>> /\ a = order[1] /\ Len(order) \in Nat \ {0}
  BY TaskAtHand DEF QueueInv, WellFormed, OrderOK, AtHand
<1>2. Blockers[a] = {}
  BY DEF CanLand, QueueHead, Front
<1>3. TicketsKept
  BY SameTickets DEF QueueInv
<1>4. tip' \in Nat \ {0} /\ tip <= tip' /\ 0 .. tip \subseteq 0 .. tip' /\ tip + 1 \in 0 .. tip' /\ tip + 1 # 0
  BY DEF QueueInv, WellFormed, TypeOK
<1>5. Tickets' = Tickets /\ TicketTypes'
  BY <1>3, <1>4, KeptTypes DEF QueueInv
<1>6. landed \in [Task -> 0 .. tip]
  BY DEF QueueInv, WellFormed, TypeOK
<1>7. /\ landed' \in [Task -> 0 .. tip']
      /\ \A b \in Task : landed'[b] = IF b = a THEN tip + 1 ELSE landed[b]
  BY <1>1, <1>4, <1>6
<1>8. OrderOK'
  BY <1>1 DEF QueueInv, WellFormed, OrderOK
<1>9. OrderUnlanded'
  <2>1. landed'[a] # 0
    BY <1>1, <1>4, <1>7
  <2>2. ASSUME NEW i \in 1 .. Len(order), landed'[order[i]] # 0 PROVE i = 1
    <3>1. order[i] \in Task /\ 1 \in 1 .. Len(order)
      BY <1>1 DEF QueueInv, WellFormed, TypeOK
    <3>2. CASE order[i] = a
      BY <1>1, <3>1, <3>2 DEF QueueInv, WellFormed, OrderOK
    <3>3. CASE order[i] # a
      BY <1>7, <2>2, <3>1, <3>3 DEF QueueInv, OrderUnlanded
    <3> QED BY <3>2, <3>3
  <2> QED BY <2>1, <2>2 DEF OrderUnlanded, Landing
<1>10. TypeOK'
  <2>1. order' \in Seq(Task) /\ pred' \in 0 .. tip' /\ base' \in 0 .. tip'
    BY <1>4 DEF QueueInv, WellFormed, TypeOK
  <2> QED BY <1>4, <1>5, <1>7, <2>1 DEF QueueInv, WellFormed, TypeOK, TicketTypes
<1> HIDE DEF a
<1>11. TicketIsTrue'
  BY <1>1, <1>4, <1>5, <1>7 DEF QueueInv, TicketIsTrue, Tickets
<1>12. LandedUnblocked'
  BY <1>2, <1>7 DEF QueueInv, LandedUnblocked
<1>13. Undelivered'
  BY <1>5, <1>7 DEF QueueInv, Undelivered, Tickets, a
<1> QED BY <1>3, <1>8, <1>9, <1>10, <1>11, <1>12, <1>13 DEF QueueInv, WellFormed, TicketsKept, Queue

\* A ticket is rebuilt within the limit, what was built on it is invalidated.
LEMMA RebuildKeeps ==
    ASSUME QueueInv, RebuildOnDrift PROVE QueueInv'
<1> USE DEF RebuildOnDrift, aux, CreateCandidate, PinnedBase
<1> DEFINE a == Head(order)
           r == [ticket[a] EXCEPT !.status = "queued", !.seen = tip, !.rebuilds = @ + 1]
           q == [ticket EXCEPT ![a] = r]
<1>1. a \in Task /\ order # <<>>
  BY TaskAtHand DEF QueueInv, WellFormed, OrderOK, AtHand
<1>2. a \in Tickets /\ ticket[a] \in Ticket
  BY <1>1 DEF CanLand, QueueHead, Front, QueueInv, WellFormed, Tickets
<1>3. ticket[a].rebuilds + 1 \in 0 .. RebuildLimit /\ tip \in Nat
  <2>1. ticket[a].rebuilds \in 0 .. RebuildLimit
    BY <1>2 DEF Ticket
  <2>2. ~(ticket[a].rebuilds >= RebuildLimit)
    BY DEF RebuildsSpent
  <2>3. tip \in Nat
    BY DEF QueueInv, WellFormed, TypeOK
  <2> HIDE DEF a
  <2> QED BY <2>1, <2>2, <2>3, QueueAssumption
<1>4. r \in Ticket /\ r.seq = ticket[a].seq /\ r.seen = tip /\ r.status = "queued"
  BY <1>2, <1>3 DEF Ticket, Statuses, Eligible
<1>5. r # None
  BY <1>4, QueueAssumption
<1>6. ticket' = InvalidateSuffix(q, a)
  <2>1. [ticket EXCEPT ![a].status = "queued", ![a].seen = tip, ![a].rebuilds = @ + 1] = q
    BY <1>1, <1>2 DEF QueueInv, WellFormed, Ticket
  <2> HIDE DEF q
  <2> QED BY <2>1, Zenon
<1> HIDE DEF r
<1>7. /\ q \in Queue
      /\ \A b \in Task : q[b] = None <=> ticket[b] = None
      /\ \A b \in Tickets :
           /\ q[b].seq = ticket[b].seq /\ q[b].seen \in {ticket[b].seen, tip}
           /\ q[b].status \in {ticket[b].status, "queued"}
  BY <1>1, <1>2, <1>4, <1>5 DEF QueueInv, WellFormed, Queue, Tickets
<1> HIDE DEF q
<1>8. TicketsKept /\ \A b \in Tickets :
        \/ ticket'[b].status = ticket[b].status
        \/ ticket'[b].status \in {"invalidated", "queued"}
  <2> HIDE DEF a
  <2>1. /\ ticket' \in Queue
        /\ \A b \in Task : ticket'[b] = None <=> q[b] = None
        /\ \A b \in Task : q[b] # None =>
             /\ ticket'[b].seq = q[b].seq /\ ticket'[b].seen = q[b].seen
             /\ ticket'[b].status \in {q[b].status, "invalidated"}
    <3> HIDE DEF RebuildOnDrift
    <3> QED BY <1>1, <1>6, <1>7, SuffixInvalidated
  <2> QED BY <1>7, <2>1 DEF TicketsKept, Tickets
<1>9. tip' \in Nat /\ tip <= tip'
  BY DEF QueueInv, WellFormed, TypeOK
<1>10. Tickets' = Tickets /\ TicketTypes'
  BY <1>8, <1>9, KeptTypes DEF QueueInv
<1>11. order' \in Seq(Task) /\ OrderOK' /\ OrderUnlanded'
  BY <1>1, OrderStays DEF QueueInv, Landing
<1>12. base' \in 0 .. tip'
  BY DEF QueueInv, WellFormed, TypeOK
<1>13. TypeOK'
  BY <1>10, <1>11, <1>12 DEF QueueInv, WellFormed, TypeOK, TicketTypes
<1>14. TicketIsTrue'
  BY <1>8, <1>10, StatusStaysTrue DEF QueueInv, Eligible
<1>15. LandedUnblocked'
  BY DEF QueueInv, LandedUnblocked
<1>16. Undelivered'
  BY <1>8, <1>10, StaysUndelivered DEF QueueInv, Eligible
<1> QED BY <1>8, <1>11, <1>13, <1>14, <1>15, <1>16 DEF QueueInv, WellFormed, TicketsKept, Queue

\* A ticket waits for a quiet target, the rest of the batch for merge.
LEMMA QuietWaitKeeps ==
    ASSUME QueueInv, EnterQuietWait PROVE QueueInv'
<1> USE DEF EnterQuietWait, aux, RevertOrder
<1> DEFINE a == Head(order)
           r == [ticket[a] EXCEPT !.status = "target_quiet_wait", !.seen = tip]
<1>1. a \in Task /\ order # <<>>
  BY TaskAtHand DEF QueueInv, WellFormed, OrderOK, AtHand
<1>2. a \in Tickets /\ ticket[a] \in Ticket
  BY <1>1 DEF CanLand, QueueHead, Front, QueueInv, WellFormed, Tickets
<1>3. tip \in Nat
  BY DEF QueueInv, WellFormed, TypeOK
<1>4. r \in Ticket /\ r.seq = ticket[a].seq /\ r.seen = tip /\ r.status = "target_quiet_wait"
  BY <1>2, <1>3 DEF Ticket, Statuses, Eligible
<1>5. r # None
  BY <1>4, QueueAssumption
<1>6. ticket' = [ticket EXCEPT ![a] = r]
  BY <1>2 DEF QueueInv, WellFormed
<1> HIDE DEF r
<1>7. TicketsKept /\ \A b \in Tickets :
        \/ ticket'[b].status = ticket[b].status
        \/ ticket'[b].status = "target_quiet_wait"
  BY <1>1, <1>2, <1>4, <1>5, <1>6 DEF QueueInv, WellFormed, Queue, TicketsKept, Tickets
<1>8. tip' \in Nat /\ tip <= tip'
  BY DEF QueueInv, WellFormed, TypeOK
<1>9. Tickets' = Tickets /\ TicketTypes'
  BY <1>7, <1>8, KeptTypes DEF QueueInv
<1>10. order' \in Seq(Task) /\ OrderOK' /\ OrderUnlanded'
  BY OrderEmpty DEF AtHand
<1>11. hub' \in [Task -> Settled \cup {"waiting_for_merge", "merging", "publishing"}]
  BY DEF QueueInv, WellFormed, TypeOK
<1>12. TypeOK'
  BY <1>9, <1>10, <1>11 DEF QueueInv, WellFormed, TypeOK, TicketTypes
<1>13. TicketIsTrue'
  BY <1>7, <1>9, StatusStaysTrue DEF QueueInv, Eligible
<1>14. LandedUnblocked'
  BY DEF QueueInv, LandedUnblocked
<1>15. Undelivered'
  BY <1>7, <1>9, StaysUndelivered DEF QueueInv, Eligible
<1> QED BY <1>7, <1>10, <1>12, <1>13, <1>14, <1>15 DEF QueueInv, WellFormed, TicketsKept, Queue

\* The ticket of a landing is marked, and delivered where that is required.
LEMMA ShippingKeeps ==
    ASSUME QueueInv, MarkLanded \/ StartPublishing \/ Delivered PROVE QueueInv'
<1> USE DEF MarkLanded, StartPublishing, Delivered, run, aux
<1> DEFINE a == Head(order)
<1>1. a \in Task /\ order # <<>> /\ landed[a] # 0
  BY TaskAtHand DEF QueueInv, WellFormed, OrderOK, AtHand, OrderUnlanded, Landing
<1>2. /\ TicketsKept
      /\ \A b \in Tickets : b # a => ticket'[b].status = ticket[b].status
      /\ StartPublishing => \A b \in Tickets : b = a => ticket'[b].status = "publishing"
      /\ ~StartPublishing => \A b \in Tickets : b = a => ticket'[b].status = "landed"
  BY <1>1, ShippedMarked DEF QueueInv, WellFormed, Queue, TicketsKept, Tickets, Statuses
<1>3. tip' \in Nat /\ tip <= tip'
  BY DEF QueueInv, WellFormed, TypeOK
<1>4. Tickets' = Tickets /\ TicketTypes'
  BY <1>2, <1>3, KeptTypes DEF QueueInv
<1>5. order' \in Seq(Task) /\ OrderOK' /\ OrderUnlanded'
  BY <1>1, OrderStays DEF QueueInv, Landing
<1>6. hub' \in [Task -> Settled \cup {"waiting_for_merge", "merging", "publishing"}]
  BY DEF QueueInv, WellFormed, TypeOK
<1>7. TypeOK'
  BY <1>1, <1>4, <1>5, <1>6 DEF QueueInv, WellFormed, TypeOK, TicketTypes
<1>8. TicketIsTrue'
  BY <1>1, <1>2, <1>4 DEF QueueInv, TicketIsTrue
<1>9. LandedUnblocked'
  BY DEF QueueInv, LandedUnblocked
<1>10. Undelivered'
  <2>1. pc' = "driving" => Head(order') \in outbox'
    OBVIOUS
  <2>2. ASSUME required', crashes' = 0, NEW b \in Tickets', landed'[b] # 0
        PROVE  \/ b \in remote'
               \/ ticket'[b].status \in Eligible \cup {"publishing"}
               \/ pc' \in {"landed", "publish"} /\ b = Head(order')
    <3>1. \/ b \in remote
          \/ ticket[b].status \in Eligible \cup {"publishing"}
          \/ pc \in {"landed", "publish"} /\ b = a
      BY <2>2, <1>4 DEF QueueInv, Undelivered
    <3>2. CASE b = a /\ MarkLanded
      BY <3>2, <2>2
    <3>3. CASE b = a /\ StartPublishing
      BY <3>3, <1>2, <1>4, <2>2
    <3>4. CASE b = a /\ Delivered
      BY <3>4 DEF QueueInv, Undelivered
    <3>5. CASE b # a
      BY <3>1, <3>5, <1>2, <1>4, <2>2
    <3> QED BY <3>2, <3>3, <3>4, <3>5
  <2> QED BY <2>1, <2>2 DEF Undelivered
<1> QED BY <1>2, <1>5, <1>7, <1>8, <1>9, <1>10 DEF QueueInv, WellFormed, TicketsKept, Queue

-----------------------------------------------------------------------------
(* The theorems *)

\* No task has a ticket at first, and no run lives.
LEMMA QueueInit == Init => QueueInv
<1> SUFFICES ASSUME Init PROVE QueueInv
  OBVIOUS
<1> USE DEF Init
<1>1. Tickets = {}
  BY DEF Tickets
<1>2. order \in Seq(Task) /\ Len(order) = 0
  OBVIOUS
<1>3. TypeOK
  <2>1. hub \in [Task -> Settled \cup {"waiting_for_merge", "merging", "publishing"}]
    OBVIOUS
  <2>2. landed \in [Task -> 0 .. tip] /\ pred \in 0 .. tip /\ base \in 0 .. tip
    OBVIOUS
  <2>3. /\ required \in BOOLEAN /\ host \in BOOLEAN /\ nextSeq = 1 /\ tip = 1
        /\ outbox = {} /\ remote = {} /\ shipped = {} /\ pc = "down"
    OBVIOUS
  <2> HIDE DEF Init
  <2> QED BY <1>1, <1>2, <2>1, <2>2, <2>3 DEF TypeOK
<1>4. ticket \in [Task -> Ticket \cup {None}] /\ crashes \in Nat /\ OrderOK
  BY <1>2 DEF OrderOK, AtHand
<1>5. OrderUnlanded
  BY <1>2 DEF OrderUnlanded, Landing
<1> QED BY <1>1, <1>3, <1>4, <1>5
        DEF QueueInv, WellFormed, TicketIsTrue, LandedUnblocked, Undelivered

\* Every step keeps the invariant of the queue.
LEMMA QueueStep == QueueInv /\ [Next]_vars => QueueInv'
<1> SUFFICES ASSUME QueueInv, [Next]_vars PROVE QueueInv'
  OBVIOUS
<1>1. CASE Start
  BY <1>1, TurnsKeep, ReconcileKeeps, SelectBatchKeeps, ImportHostKeeps DEF Start
<1>2. CASE Merge
  BY <1>2, SkipBlockedKeeps, TakeTaskKeeps, CandidateKeeps, MergeFailureKeeps DEF Merge
<1>3. CASE LandTicket
  BY <1>3, FailuresKeep, LandKeeps, RebuildKeeps, ReverifyKeeps, QuietWaitKeeps, ShippingKeeps
  DEF LandTicket
<1>4. CASE Ship
  BY <1>4, ShippingKeeps, FailuresKeep, CloseTaskKeeps DEF Ship
<1>5. CASE Advance \/ HostCommit \/ Crash
  BY <1>5, OthersKeep, CrashKeeps
<1>6. CASE UNCHANGED vars
  <2> USE <1>6 DEF vars, store, run, aux
  <2>1. Tickets' = Tickets
    BY DEF Tickets
  <2>2. TypeOK' /\ OrderOK' /\ ticket' \in [Task -> Ticket \cup {None}] /\ crashes' \in Nat
    BY <2>1 DEF QueueInv, WellFormed, TypeOK, OrderOK
  <2>3. OrderUnlanded' /\ TicketIsTrue' /\ LandedUnblocked' /\ Undelivered'
    BY <2>1 DEF QueueInv, OrderUnlanded, TicketIsTrue, LandedUnblocked, Undelivered
  <2> QED BY <2>2, <2>3 DEF QueueInv, WellFormed
<1> QED BY <1>1, <1>2, <1>3, <1>4, <1>5, <1>6 DEF Next, Step

\* Every variable keeps its type and no activation of a ticket is rebuilt more
\* often than HUB_LANDING_TARGET_DRIFT_REBUILD_LIMIT allows, over any number of
\* batches, runs and crashes.
THEOREM QueueTypes == Spec => []TypeOK
<1>1. QueueInv => TypeOK
  BY DEF QueueInv, WellFormed
<1> QED BY <1>1, QueueInit, QueueStep, PTL DEF Spec

\* What is ahead of a landing: it is shipped or failed, and delivered where
\* delivery is required (canLandHubLandingTicket, findEarlierRequiredDeliveryHold).
LEMMA LandingIsNext ==
    ASSUME QueueInv, Land, NEW b \in Tickets, Earlier(b, Head(order))
    PROVE  /\ Blockers[b] = {} => landed[b] # 0 \/ ticket[b].status = "failed"
           /\ required /\ crashes = 0 /\ landed[b] # 0 => b \in remote
<1> DEFINE a == Head(order)
<1>1. a \in QueueHead /\ ~DeliveryHold(a) /\ a \in Task /\ pc = "land"
  BY TaskAtHand DEF QueueInv, WellFormed, OrderOK, AtHand, Land, CanLand
<1>2. a \in Tickets /\ \A c \in Tickets :
        ticket[c].status \in Eligible /\ Blockers[c] = {} => ticket[a].seq <= ticket[c].seq
  BY <1>1 DEF QueueHead, Front
<1>3. ticket[a] \in Ticket /\ ticket[b] \in Ticket
  BY <1>2 DEF Tickets, QueueInv, WellFormed
<1>4. ~(ticket[a].seq <= ticket[b].seq)
  BY <1>3 DEF Earlier, Ticket
<1>5. Blockers[b] = {} => ticket[b].status \notin Eligible
  BY <1>2, <1>4
<1>6. ticket[b].status # "publishing"
  BY <1>1 DEF DeliveryHold
<1>7. ticket[b].status \in {"landed", "failed", "blocked_unshipped_prerequisite"} \cup Eligible
  BY <1>3, <1>6 DEF Ticket, Statuses
<1>8. Blockers[b] = {} => landed[b] # 0 \/ ticket[b].status = "failed"
  BY <1>5, <1>7 DEF QueueInv, TicketIsTrue
<1>9. ASSUME required, crashes = 0, landed[b] # 0 PROVE b \in remote
  <2>1. b \in Task /\ Blockers[b] = {}
    BY <1>9 DEF Tickets, QueueInv, LandedUnblocked
  <2>2. ticket[b].status \notin Eligible \cup {"publishing"}
    BY <2>1, <1>5, <1>6
  <2> QED BY <1>1, <1>9, <2>2 DEF QueueInv, Undelivered
<1> QED BY <1>8, <1>9

\* Landings keep the order of the queue: every independent task with an earlier
\* ticket has landed or its candidate has failed, and under the required policy
\* every earlier landing is delivered, as long as no run was interrupted.
THEOREM LandsOrdered == Spec => LandsInOrder
<1> DEFINE A == \A a, b \in Task :
         Lands(a) /\ b \in Tickets /\ Earlier(b, a) =>
           /\ Blockers[b] = {} => landed[b] # 0 \/ ticket[b].status = "failed"
           /\ required /\ crashes = 0 /\ landed[b] # 0 => b \in remote
<1>1. ASSUME QueueInv, Next PROVE A
  <2>1. CASE Land
    <3>1. ASSUME NEW a \in Task, Lands(a) PROVE a = Head(order)
      BY <1>1, <2>1, <3>1 DEF Land, Lands, QueueInv, WellFormed, TypeOK
    <3> QED BY <1>1, <2>1, <3>1, LandingIsNext
  <2>2. CASE ~Land
    <3>1. landed' = landed
      BY <1>1, <2>2 DEF Next, Step, Start, Merge, LandTicket, Ship, store, run, aux,
         Launch, Reconcile, SelectBatch, ImportHost, EndBatch, Finish, SkipBlocked, TakeTask,
         BuildCandidate, MergeFails, VerifyFails, VerifyTask, RefuseOvertaking, LandError,
         RebuildOnDrift, Reverify, EnterQuietWait, MarkLanded, StartPublishing, Delivered,
         DeliveryTimeout, CloseTask, CloseFail, Advance, HostCommit, Crash
    <3> QED BY <3>1 DEF Lands
  <2> QED BY <2>1, <2>2
<1>2. QueueInv /\ [Next]_vars => [A]_vars
  BY <1>1
<1>3. LandsInOrder <=> [][A]_vars
  BY DEF LandsInOrder
<1> QED BY <1>2, <1>3, QueueInit, QueueStep, PTL DEF Spec
=============================================================================
