-------------------------- MODULE LandingRefinement --------------------------
(***************************************************************************)
(* LandingTransaction implements LandingLedger: the line is the history of *)
(* the publish target, a task is closed when Beads says so.                *)
(***************************************************************************)
EXTENDS MCLandingTransaction

Ledger == INSTANCE LandingLedger
            WITH line <- history[target], closed <- beads, blind <- cutShort,
                 Start <- {Genesis}

\* Every step of the processes, crashes included, is a landing, a close or a
\* publication of the ledger, or changes nothing that the ledger shows: no task
\* lands twice unless a reconciliation was cut short, none lands without its source,
\* none is closed unlanded (reconcileHubLandingTransactions, commitHubLandingTarget).
ImplementsLedger == Ledger!Spec
=============================================================================
