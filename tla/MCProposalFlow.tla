--------------------------- MODULE MCProposalFlow ---------------------------
(* A small instance of ProposalFlow: two tasks on the board, and the answers *)
(* of the agent that validation, confirmation and the writes tell apart.     *)
EXTENDS ProposalFlow

CONSTANTS a, b, x, y, s1, s2

Decision(t, to, confidence, deps) ==
  [task |-> t, outcome |-> to, confidence |-> confidence, deps |-> deps]

Sure(t) == Decision(t, "ready_for_agent", "high", {})

MCTriageAnswer ==
  { <<Sure(a), Decision(b, "needs_info", "low", {})>>,
    <<Decision(a, "wontfix", "high", {}),
      Decision(b, "ready_for_agent", "high", {<<b, a>>, <<b, Foreign>>})>>,
    <<Decision(a, "ready_for_agent", "high", {<<a, b>>}),
      Decision(b, "ready_for_human", "high", {<<b, a>>, <<b, b>>})>> }

Prd(slices, deps, severe) == [slices |-> slices, deps |-> deps, severe |-> severe]

\* --deps: none, or one that fits the answers with two slices.
MCPrdOverride == {{}, {<<1, 2>>}}

\* The text of b names a as its blocker.
MCDeclared == b :> {a}

MCConfiguredRoles == {{"triage"}, {"triage", "planning"}}

MCTyped ==
  s1 :> {TaskScope({a}), TaskScope({Foreign})}
  @@ s2 :> {QueryScope({"inbox", "needs_info"})}

\* One session in one of four ways, and a triage that asks nobody next to it.
MCStartOf ==
  s1 :> {<<"triage", "yes_tty">>, <<"triage", "batch">>, <<"prd", "interactive">>,
          <<"prd", "yes_tty">>}
  @@ s2 :> {<<"triage", "yes">>}

MCSlices == <<[id |-> x, type |-> "AFK"], [id |-> y, type |-> "HITL"]>>

MCPrdAnswer ==
  { Prd(MCSlices, {<<y, x>>}, {}),
    Prd(MCSlices, {<<x, y>>, <<y, x>>}, {}),
    Prd(<<[id |-> y, type |-> "HITL"]>>, {}, {y}) }
=============================================================================
