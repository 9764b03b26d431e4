----------------------------- MODULE MCAgentRun -----------------------------
(***************************************************************************)
(* The ways to call the agent, for TLC.                                    *)
(***************************************************************************)
EXTENDS AgentRun

Way(k, p, s) == [kind |-> k, provider |-> p, strategy |-> s]

MCModes ==
    {Way("run", "none", "temp"), Way("run", "isolated", "temp"), Way("run", "bind", "head"),
     Way("run", "isolated", "branch"), Way("worktree", "isolated", "branch"),
     Way("sandbox", "isolated", "branch"), Way("interactive", "isolated", "branch"),
     Way("interactive", "none", "temp")}
=============================================================================
