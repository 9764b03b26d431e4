---------------------------- MODULE LandingLedger ----------------------------
(***************************************************************************)
(* What the landing plane promises, without processes, leases, journals or *)
(* crashes: the publish target only grows, a task lands with its source    *)
(* and, unless a restart was blind to earlier landings, at most once, and  *)
(* only a landed task is closed.  LandingRefinement shows that             *)
(* LandingTransaction implements it.                                       *)
(***************************************************************************)
CONSTANTS
    Task,     \* Hub tasks, each with a frozen source
    Oid,      \* object ids of the integration commits
    None,     \* no receipt, not closed
    Start     \* what the publish target contains at first

VARIABLES
    line,     \* the commits and task sources the publish target contains
    receipt,  \* the candidate a transaction landed
    closed,   \* the transaction and candidate a task was closed with
    blind     \* a restart went on without having seen every landing

ledger == <<line, receipt, closed, blind>>

Txn == Task \X Oid

Init ==
    /\ line = Start
    /\ receipt = [t \in Txn |-> None]
    /\ closed = [a \in Task |-> None]
    /\ blind = FALSE

\* The target moves: what it contained stays.
Grow == line' \in SUBSET (Oid \cup Task) /\ line \subseteq line'

\* Somebody else moves the target.
Publish == Grow /\ UNCHANGED <<receipt, closed, blind>>

\* A candidate with the source of its task becomes part of the target.
Land(t) ==
    /\ receipt[t] = None
    /\ ~blind => \A u \in Txn : u[1] = t[1] => receipt[u] = None
    /\ Grow
    /\ \E c \in Oid : /\ {c, t[1]} \subseteq line'
                      /\ receipt' = [receipt EXCEPT ![t] = c]
    /\ UNCHANGED <<closed, blind>>

CloseTask(t) ==
    /\ receipt[t] # None
    /\ closed' = [closed EXCEPT ![t[1]] = [txn |-> t, cand |-> receipt[t]]]
    /\ UNCHANGED <<line, receipt, blind>>

\* A restart overlooks landings.
Overlook == blind' = TRUE /\ UNCHANGED <<line, receipt, closed>>

Next == Publish \/ Overlook \/ \E t \in Txn : Land(t) \/ CloseTask(t)

Spec == Init /\ [][Next]_ledger
=============================================================================
