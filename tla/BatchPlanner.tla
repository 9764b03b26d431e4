---------------------------- MODULE BatchPlanner ----------------------------
(***************************************************************************)
(* Which ready tasks a flow run takes next (hubBatchPlanner.ts): the three *)
(* strategies, what the planner agent is told about blockers               *)
(* (hubBatchPlannerCandidates.ts), what is accepted of its answer, and the *)
(* second look at the board before the batch starts.  Pure operators: a    *)
(* board is a function from ids to statuses, "absent" where there is no    *)
(* task; a dependency is a pair <<dependent, blocker>>.                    *)
(***************************************************************************)
EXTENDS Naturals, Sequences, SequencesExt, FiniteSets

CONSTANTS
  HubTask,     \* every id a task may have
  Declared,    \* Declared[t]: the ids a task's metadata or description names
  MaxTasks     \* --max-tasks

HUB_BATCH_STRATEGIES == {"planned", "limited", "conservative"}

isCompletedHubStatus(status) == status \in {"done", "wontfix"}

isHubFlowEligibleTask(board, t) == board[t] = "ready_for_agent"

\* `bd ready`: the tasks that wait for no open one.
loadHubReadyQueue(board, edges) ==
  {t \in HubTask : \A e \in edges :
     e[1] = t => board[e[2]] = "absent" \/ isCompletedHubStatus(board[e[2]])}

Eligible(board, edges) ==
  {t \in loadHubReadyQueue(board, edges) : isHubFlowEligibleTask(board, t)}

(***************************************************************************)
(* What the agent is told of the blockers of a task.  A call of `bd dep`   *)
(* that fails reads as no dependencies; what the text of a task declares   *)
(* counts only when bd knows of none.                                      *)
(***************************************************************************)
tryLoadBeadsDependencyBlockers(listed, edges, t) ==
  IF listed THEN {e[2] : e \in {d \in edges : d[1] = t}} ELSE {}

parseDeclaredHubBlockers(t) == IF t \in DOMAIN Declared THEN Declared[t] ELSE {}

blockersDeclared(listed, edges, t) ==
  LET deps == tryLoadBeadsDependencyBlockers(listed, edges, t)
  IN IF deps # {} THEN deps ELSE parseDeclaredHubBlockers(t)

resolveDeclaredBlockers(board, refs) ==
  LET known == {b \in refs : b \in HubTask /\ board[b] # "absent"}
  IN [resolved |-> known, unknown |-> refs \ known,
      open |-> {b \in known : ~isCompletedHubStatus(board[b])}]

enrichHubBatchPlannerCandidates(board, edges, listed) ==
  [t \in Eligible(board, edges) |->
     resolveDeclaredBlockers(board, blockersDeclared(listed, edges, t))]

(***************************************************************************)
(* The agent's answer: the tasks it selects and those it defers because of *)
(* a blocker; other deferrals have no effect.  An answer that is missing,  *)
(* malformed, or names too many tasks, the same one twice or one that is   *)
(* not eligible, is as good as none.                                       *)
(***************************************************************************)
NoAnswer == [usable |-> FALSE, selected |-> {}, deferred |-> {}]

parseHubBatchPlannerOutput(board, edges) ==
  {[usable |-> TRUE, selected |-> S, deferred |-> D] :
     S \in SUBSET Eligible(board, edges), D \in SUBSET Eligible(board, edges)} \cup {NoAnswer}

validateHubBatchPlannerOutput(answer, eligible) ==
  /\ answer.usable
  /\ answer.selected \subseteq eligible
  /\ Cardinality(answer.selected) <= MaxTasks

\* The first n of the tasks in S, in whatever order the board has them.
FirstOf(S, n) ==
  {P \in SUBSET S : Cardinality(P) = IF Cardinality(S) < n THEN Cardinality(S) ELSE n}

shouldRecoverExplicitBlockerDeferral(candidates, answer, t) ==
  /\ t \in answer.deferred
  /\ candidates[t].open = {} /\ candidates[t].unknown = {}
  /\ \A s \in answer.selected : t \notin candidates[s].resolved

\* A task both selected and deferred may be in the batch twice.
resolvePlannedBatchSelection(candidates, answer) ==
  LET wrong == {t \in DOMAIN candidates :
                  shouldRecoverExplicitBlockerDeferral(candidates, answer, t)}
      room  == MaxTasks - Cardinality(answer.selected)
  IN {SetToSeq(answer.selected) \o SetToSeq(R) : R \in FirstOf(wrong, room)}

\* A plan: the batch, the strategy it comes from and what the agent selected.
Plan(batch, by, asked) == [batch |-> batch, by |-> by, asked |-> asked]

buildConservativeBatchResult(board, edges) ==
  {Plan(SetToSeq(S), "conservative", {}) : S \in FirstOf(Eligible(board, edges), 1)}

partitionEligibleCandidates(board, edges) ==
  {Plan(SetToSeq(S), "limited", {}) : S \in FirstOf(Eligible(board, edges), MaxTasks)}

planPlannedHubFlowBatch(board, edges, listed) ==
  LET candidates == enrichHubBatchPlannerCandidates(board, edges, listed)
      Outcome(answer) ==
        IF ~validateHubBatchPlannerOutput(answer, Eligible(board, edges))
          THEN buildConservativeBatchResult(board, edges)
        ELSE IF answer.selected = {} THEN {Plan(<<>>, "planned", {})}
        ELSE {Plan(batch, "planned", answer.selected) :
                batch \in resolvePlannedBatchSelection(candidates, answer)}
  IN UNION {Outcome(answer) : answer \in parseHubBatchPlannerOutput(board, edges)}

planHubFlowBatch(strategy, board, edges, listed) ==
  CASE strategy = "conservative" -> buildConservativeBatchResult(board, edges)
    [] strategy = "limited"      -> partitionEligibleCandidates(board, edges)
    [] strategy = "planned"      -> planPlannedHubFlowBatch(board, edges, listed)

(***************************************************************************)
(* The board is read again before the batch starts.                        *)
(***************************************************************************)
validateHubBatchSelectionFreshness(board, edges, batch) ==
  /\ IsInjective(batch)
  /\ Len(batch) <= MaxTasks
  /\ Range(batch) \subseteq Eligible(board, edges)

\* Mutant: what was planned is started.
KeepThePlan(board, edges, plan) == {plan}

resolveFreshValidatedHubBatchSelection(board, edges, plan) ==
  IF validateHubBatchSelectionFreshness(board, edges, plan.batch)
    THEN {plan} ELSE buildConservativeBatchResult(board, edges)
=============================================================================
