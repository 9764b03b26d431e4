--------------------------- MODULE MCLandingQueue ---------------------------
(***************************************************************************)
(* Instances of LandingQueue for TLC.                                      *)
(***************************************************************************)
EXTENDS LandingQueue

CONSTANTS a1, a2, a3

\* The last task depends on the first.
LastBlocked == [a \in Task |-> IF a = a3 THEN {a1} ELSE {}]

\* The first two tasks are the claims of a batch, the last is that of a later one,
\* resumed when no task of the first waits for merge.
TwoBatches == [a \in Task |-> IF a \in {a1, a2} THEN 1 ELSE 2]

\* The tasks as the board lists them.
BoardOrder == [a \in Task |-> CASE a = a1 -> 1 [] a = a2 -> 2 [] OTHER -> 3]
=============================================================================
