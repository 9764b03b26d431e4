------------------------ MODULE MCLandingTransaction ------------------------
(***************************************************************************)
(* Instances of LandingTransaction for TLC.                                *)
(***************************************************************************)
EXTENDS LandingTransaction, TLC

CONSTANTS a1, a2, p1, p2

\* Each process has a task of its own: the claims of the batch are disjoint.
DisjointClaims == p1 :> {a1} @@ p2 :> {a2}

\* Every process may merge every task.
AllClaims == [p \in Proc |-> Task]

\* Bound of the concurrent instance: a crash or a failure, not both.
OneMishap == crashes + failures <= 1

\* Processes with the same claims can be exchanged.
Processes == Permutations(Proc)

\* The two processes and their tasks can be exchanged together.
Swap == {a1 :> a2 @@ a2 :> a1 @@ p1 :> p2 @@ p2 :> p1}
=============================================================================
