---------------------------- MODULE ProposalFlow ----------------------------
(***************************************************************************)
(* Proposal sessions (hubProposalSession.ts) and the two flows that apply  *)
(* what they propose: triage of existing tasks (hubTriageProposal.ts) and  *)
(* the decomposition of a PRD into new ones (hubPrdDecomposition.ts).      *)
(*                                                                         *)
(* Every session runs in a process of its own, next to whoever else works  *)
(* on the repository and the board.  One step of a session is one call of  *)
(* the agent, of the user, of git and `bd list`, or one write with bd.     *)
(* What an agent may answer is a constant; text is left out.  A flow run   *)
(* next to them takes tasks as its planner does (BatchPlanner): that is    *)
(* what the statuses and dependencies are written for.                     *)
(***************************************************************************)
EXTENDS Naturals, Sequences, SequencesExt, FiniteSets, TLC

CONSTANTS
  Session,           \* proposal runs; each runs one flow once
  Task,              \* the tasks the board holds at first
  Slice,             \* temporary ids of PRD slices
  Foreign,           \* a task id that no board has
  TriageAnswer,      \* triage proposals an agent may emit
  PrdAnswer,         \* decompositions an agent may emit
  Declared,          \* Declared[t]: blockers that the text of a task names
  MaxTasks,          \* tasks in a batch of a flow run
  PrdOverride,       \* values of --deps: sets of pairs of slice positions
  ConfiguredRoles,   \* sets of agent roles that may be configured at first
  Typed,             \* Typed[s]: task ids and statuses its user may type
  StartOf,           \* StartOf[s]: the pairs <<flow, mode>> it may start with
  MaxRefinements,    \* bound: refinements of one session
  MaxMeddling,       \* bound: changes an agent makes itself
  MaxOthers,         \* bound: changes of the board by other commands
  MaxFaults,         \* bound: failing bd calls, crashes and aborts
  MaxMishaps         \* bound: all three together

Status == {"absent", "inbox", "needs_info", "ready_for_agent",
           "ready_for_human", "implementing", "done", "wontfix"}

\* What the output schema lets through.  A triage answer is a sequence of
\* decisions, whose deps are pairs <<dependent, blocker>>; a decomposition is
\* [slices, deps, severe]: a sequence of slices, pairs of slice ids, and the
\* slices with a warning of high severity.
TriageDecision ==
  [task: Task \cup {Foreign},
   outcome: {"needs_info", "ready_for_agent", "ready_for_human", "wontfix"},
   confidence: {"low", "medium", "high"},
   deps: SUBSET ((Task \cup {Foreign}) \X (Task \cup {Foreign}))]

PrdSlice == [id: Slice, type: {"AFK", "HITL"}]

ASSUME ProposalAssumption ==
  /\ Foreign \notin Task
  /\ \A answer \in TriageAnswer : answer # <<>> /\ Range(answer) \subseteq TriageDecision
  /\ \A prd \in PrdAnswer : /\ Range(prd.slices) \subseteq PrdSlice
                             /\ prd.deps \subseteq Slice \X Slice
                             /\ prd.severe \subseteq Slice
  /\ PrdOverride \subseteq SUBSET (Nat \X Nat)
  /\ ConfiguredRoles \subseteq SUBSET {"triage", "planning"}
  /\ DOMAIN Declared \subseteq Task /\ MaxTasks \in Nat \ {0}
  /\ DOMAIN Typed = Session
  /\ \A s \in Session : \A scope \in Typed[s] :
       scope.ids \subseteq Task \cup {Foreign} /\ scope.query \subseteq Status
  /\ StartOf \in [Session -> SUBSET ({"triage", "prd"} \X
                              {"interactive", "yes_tty", "yes", "batch"})]
  /\ {MaxRefinements, MaxMeddling, MaxOthers, MaxFaults, MaxMishaps} \subseteq Nat

New == Session \X Slice                \* the id bd gives to a created task
Id  == Task \cup New

\* isHubTriageSourceStatus.
HUB_TRIAGE_SOURCE_STATUSES == {"inbox", "needs_info"}

VARIABLES
  board,     \* board[t]: hub status of a task, "absent" when there is none
  edges,     \* <<dependent, blocker>>: the "blocks" dependencies on the board
  repo,      \* [head, tracked, loose]: commit, an edited and an untracked file
  roles,     \* the agent roles in agent-config.json
  sess,      \* sess[s]: the session
  flow,      \* the flow run that takes tasks
  used       \* [meddling, others, faults]: what the bounds have used

vars == <<board, edges, repo, roles, sess, flow, used>>

\* The flow run's planner, over the ids of this board.
Planner == INSTANCE BatchPlanner WITH HubTask <- Id

Present == {t \in Id : board[t] # "absent"}

(***************************************************************************)
(* The mutation detector.  `git status` shows that the untracked file is   *)
(* there and not what it contains; an edited file is fingerprinted; `bd    *)
(* list` that fails counts as an empty list.                               *)
(***************************************************************************)
Unlisted == <<>>

StatusLines == [tracked |-> IF repo.tracked = 0 THEN "clean" ELSE "M",
                loose   |-> IF repo.loose = 0 THEN "none" ELSE "??"]

TrackedContent == repo.tracked

TaskListing(listed) == IF listed THEN <<board, edges>> ELSE Unlisted

captureProposalFlowStateSnapshot(listed) ==
  [head |-> repo.head, lines |-> StatusLines, prints |-> TrackedContent,
   tasks |-> TaskListing(listed)]

\* Mutant: only the lines of `git status` are compared.
DetectByStatusLines(before, after) ==
  \/ before.head # after.head
  \/ before.lines # after.lines
  \/ before.tasks # after.tasks

detectProposalFlowMutations(before, after) ==
  \/ before.head # after.head
  \/ before.lines # after.lines
  \/ before.prints # after.prints
  \/ before.tasks # after.tasks

(***************************************************************************)
(* Validation.                                                             *)
(***************************************************************************)
Nodes(deps) == {d[1] : d \in deps} \cup {d[2] : d \in deps}

detectDependencyCycles(deps) ==
  \E ring \in SUBSET Nodes(deps) \ {{}} :
    \A n \in ring : \E m \in ring : <<n, m>> \in deps

sanitizeTriageProposalDependencies(answer) ==
  [i \in DOMAIN answer |->
     [answer[i] EXCEPT !.deps =
        {d \in @ : d[1] # d[2] /\ {d[1], d[2]} \subseteq Present}]]

DecisionDeps(answer) == UNION {d.deps : d \in Range(answer)}

validateTriageProposal(answer, under) ==
  LET named == {d.task : d \in Range(answer)}
  IN /\ answer # <<>>
     /\ Cardinality(named) = Len(answer)
     /\ named = under
     /\ ~detectDependencyCycles(DecisionDeps(answer))

PrdIds(prd) == {x.id : x \in Range(prd.slices)}

validatePrdDecompositionProposal(prd, ready) ==
  /\ prd.slices # <<>>
  /\ Cardinality(PrdIds(prd)) = Len(prd.slices)
  /\ Nodes(prd.deps) \cup prd.severe \subseteq PrdIds(prd)
  /\ ~detectDependencyCycles(prd.deps)
  /\ ready => prd.severe = {}

\* Mutant: adding dependencies needs no confirmation.
AutoUnlessClosing(d) == d.confidence = "high" /\ d.outcome # "wontfix"

classifyTriageDecisionAutoApply(d) ==
  d.confidence = "high" /\ d.outcome # "wontfix" /\ d.deps = {}

mapSliceTypeToReadyHubStatus(type) ==
  IF type = "AFK" THEN "ready_for_agent" ELSE "ready_for_human"

resolveSliceHubStatus(slice, ready) ==
  IF ready THEN mapSliceTypeToReadyHubStatus(slice.type) ELSE "inbox"

(***************************************************************************)
(* What is written, in order: the decisions and then the dependencies of   *)
(* the decisions to apply; the slices and then their dependencies.  A      *)
(* dependency is skipped when an end is neither a decision that is applied *)
(* nor a task of the board as it was when the writes began.                *)
(***************************************************************************)
StatusWrite(t, to)   == [kind |-> "status", task |-> t, to |-> to]
CommentWrite(t)      == [kind |-> "comment", task |-> t]
EdgeWrite(d)         == [kind |-> "edge", edge |-> d]
CreateWrite(t, to)   == [kind |-> "create", task |-> t, to |-> to]

Flat(seqs) == FoldSeq(LAMBDA x, acc : acc \o x, <<>>, seqs)

TriageWrites(answer, apply) ==
  LET chosen == SelectSeq(answer, LAMBDA d : d.task \in apply)
      kept   == {d \in DecisionDeps(chosen) :
                   {d[1], d[2]} \subseteq apply \cup Present}
  IN Flat([i \in DOMAIN chosen |->
             <<StatusWrite(chosen[i].task, chosen[i].outcome),
               CommentWrite(chosen[i].task)>>])
     \o SetToSeq({EdgeWrite(d) : d \in kept})

PrdWrites(s, prd, ready) ==
  [i \in DOMAIN prd.slices |->
     CreateWrite(<<s, prd.slices[i].id>>,
                 resolveSliceHubStatus(prd.slices[i], ready))]
  \o SetToSeq({EdgeWrite(<<<<s, d[1]>>, <<s, d[2]>>>>) : d \in prd.deps})

(***************************************************************************)
(* A session.  pc is where it stands; `result` is apply-result.json and    *)
(* `outcome` what the flow returns.  seq counts the presentation events of *)
(* the session, flowSeq is the flow's own counter, last the latest id.     *)
(***************************************************************************)
NoScope == [ids |-> {}, query |-> {}]

Idle ==
  [pc |-> "idle", flow |-> "none", mode |-> "none", scope |-> NoScope,
   override |-> {}, under |-> {},
   before |-> Unlisted, origin |-> Unlisted, refinements |-> 0,
   answer |-> Unlisted, ready |-> FALSE, apply |-> {}, confirmed |-> {},
   todo |-> <<>>, wrote |-> {}, result |-> "none", outcome |-> "none",
   seq |-> 0, flowSeq |-> 0, last |-> 0]

NoFlow == [pc |-> "idle", plan |-> Planner!Plan(<<>>, "none", {}),
           told |-> {}]

Init ==
  /\ board \in [Id -> {"absent", "inbox"}]
  /\ \A t \in Id : board[t] = "inbox" <=> t \in Task
  /\ edges = {}
  /\ repo = [head |-> 0, tracked |-> 1, loose |-> 1]   \* somebody is working
  /\ roles \in ConfiguredRoles
  /\ sess = [s \in Session |-> Idle]
  /\ flow = NoFlow
  /\ used = [meddling |-> 0, others |-> 0, faults |-> 0]

Ended  == {"end", "crashed"}
Silent == UNCHANGED <<board, edges, repo, roles, flow, used>>

Left(bound, n) ==
  n < bound /\ used.meddling + used.others + used.faults < MaxMishaps

FaultLeft == Left(MaxFaults, used.faults)
Fault     == FaultLeft /\ used' = [used EXCEPT !.faults = @ + 1]

Move(s, r) == sess' = [sess EXCEPT ![s] = r]

acceptPresentationEvent(own, seq) == seq

\* The session has emitted k events.
emitPresentationEvent(r, k) ==
  [r EXCEPT !.seq = @ + k, !.last = r.seq + k,
            !.flowSeq = acceptPresentationEvent(@, r.seq + k)]

\* The flow has emitted k events after the session returned.
emitFlowEvent(r, k) ==
  [r EXCEPT !.flowSeq = @ + k, !.last = r.flowSeq + k]

failSession(r) == emitPresentationEvent([r EXCEPT !.pc = "end", !.outcome = "failed"], 1)

cancelSession(r) ==
  emitPresentationEvent([r EXCEPT !.pc = "end", !.outcome = "cancelled"], 1)

interactive(r) == r.mode = "interactive"
oneShot(r)     == r.mode \in {"yes", "yes_tty"}
\* Is there a user to confirm single decisions?
applyConfirmation(r) == r.mode \in {"interactive", "yes_tty"}

(***************************************************************************)
(* The session: preparation, draft, refinement, finalization.              *)
(***************************************************************************)
TaskScope(ids)       == [ids |-> ids, query |-> {}]
QueryScope(statuses) == [ids |-> {}, query |-> statuses]

\* A task id, or statuses; other statuses are refused at once.
normalizeTaskQuerySelection(s) ==
  {scope \in Typed[s] : scope.query \subseteq HUB_TRIAGE_SOURCE_STATUSES} \ {NoScope}

\* Some or all of the tasks that the board holds now.
promptTriageTaskSelection ==
  LET candidates == {t \in Present : board[t] \in HUB_TRIAGE_SOURCE_STATUSES}
  IN {TaskScope(ids) : ids \in SUBSET candidates \ {{}}}

\* With a terminal the tasks may be picked; --yes alone takes the default
\* query, which is one of normalizeTaskQuerySelection's.
tasksTriageCommand(s, mode) ==
  normalizeTaskQuerySelection(s)
  \cup IF mode \in {"interactive", "yes_tty"} THEN promptTriageTaskSelection ELSE {}

runTriageProposalFlowFromCli(s, mode) ==
  {[Idle EXCEPT !.pc = "chosen", !.flow = "triage", !.mode = mode, !.scope = scope] :
     scope \in tasksTriageCommand(s, mode)}

runPrdDecompositionProposalFlowFromCli(mode, override) ==
  [Idle EXCEPT !.pc = "chosen", !.flow = "prd", !.mode = mode, !.override = override]

tasksFromPrdCommand(mode) ==
  {runPrdDecompositionProposalFlowFromCli(mode, override) : override \in PrdOverride}

Begin(s) ==
  /\ sess[s].pc = "idle"
  /\ \E start \in StartOf[s] :
       \E r \in IF start[1] = "triage"
                  THEN runTriageProposalFlowFromCli(s, start[2])
                  ELSE tasksFromPrdCommand(start[2]) : Move(s, r)
  /\ Silent

\* No task when one of the named tasks is gone or outside the scope of triage.
resolveTasksUnderTriage(scope) ==
  IF scope.ids = {}
    THEN {t \in Present : board[t] \in scope.query}
    ELSE IF scope.ids \subseteq {t \in Present : board[t] \in HUB_TRIAGE_SOURCE_STATUSES}
           THEN scope.ids ELSE {}

prepareTriageContext(r) ==
  [r EXCEPT !.under = resolveTasksUnderTriage(r.scope), !.scope = NoScope]

Thrown(r) == [r EXCEPT !.pc = "end", !.outcome = "thrown"]

\* A role that is not configured is asked for, if there is somebody to ask.
ensureHubAgentRolesConfigured(r, role) ==
  IF role \in roles THEN [r EXCEPT !.pc = "prepared"]
  ELSE IF interactive(r) THEN [r EXCEPT !.pc = "setup"] ELSE Thrown(r)

runTriageProposalFlow(s) ==
  /\ sess[s].pc = "chosen" /\ sess[s].flow = "triage"
  /\ LET r == prepareTriageContext(sess[s])
     IN Move(s, IF r.under = {} THEN Thrown(r)
                                ELSE ensureHubAgentRolesConfigured(r, "triage"))
  /\ Silent

runPrdDecompositionFlow(s) ==
  /\ sess[s].pc = "chosen" /\ sess[s].flow = "prd"
  /\ Move(s, ensureHubAgentRolesConfigured(sess[s], "planning"))
  /\ Silent

setHubAgentRole(r) ==
  roles' = roles \cup {IF r.flow = "triage" THEN "triage" ELSE "planning"}

\* A user who cancels the set-up ends the process.
promptHubAgentRoleSetup(s) ==
  /\ sess[s].pc = "setup"
  /\ \/ /\ setHubAgentRole(sess[s])
        /\ Move(s, [sess[s] EXCEPT !.pc = "prepared"])
     \/ /\ Move(s, Thrown(sess[s]))
        /\ UNCHANGED roles
  /\ UNCHANGED <<board, edges, repo, flow, used>>

\* runProposalSession up to the first call of the agent.
OpenSession(s) ==
  /\ sess[s].pc = "prepared"
  /\ \E listed \in BOOLEAN :
       /\ listed \/ FaultLeft
       /\ Move(s, emitPresentationEvent(
            [sess[s] EXCEPT !.pc = "draft",
                            !.before = captureProposalFlowStateSnapshot(listed),
                            !.origin = [repo |-> repo, board |-> board,
                                        edges |-> edges]], 2))
       /\ IF listed THEN UNCHANGED used ELSE Fault
  /\ UNCHANGED <<board, edges, repo, roles, flow>>

DraftSucceeds(s) ==
  /\ sess[s].pc = "draft"
  /\ LET drafted == emitPresentationEvent(sess[s], 1)
     IN IF oneShot(drafted)
          THEN Move(s, emitPresentationEvent([drafted EXCEPT !.pc = "finalize"], 1))
          ELSE Move(s, [drafted EXCEPT !.pc = "refine"])
  /\ Silent

\* Without an interaction there is no next refinement.
SkipRefinement(s) ==
  /\ sess[s].pc = "refine"
  /\ ~interactive(sess[s])
  /\ Move(s, emitPresentationEvent([sess[s] EXCEPT !.pc = "finalize"], 1))
  /\ Silent

AnswerRefinement(s) ==
  /\ sess[s].pc = "refine"
  /\ interactive(sess[s])
  /\ \/ /\ sess[s].refinements < MaxRefinements
        /\ Move(s, emitPresentationEvent(
             [sess[s] EXCEPT !.pc = "refining", !.refinements = @ + 1], 1))
     \/ Move(s, emitPresentationEvent([sess[s] EXCEPT !.pc = "finalize"], 1))
     \/ Move(s, cancelSession(sess[s]))
  /\ Silent

RefinementSucceeds(s) ==
  /\ sess[s].pc = "refining"
  /\ Move(s, emitPresentationEvent([sess[s] EXCEPT !.pc = "refine"], 1))
  /\ Silent

\* An agent that fails, or a finalization without a usable answer.
AgentFails(s) ==
  /\ sess[s].pc \in {"draft", "refining", "finalize"}
  /\ Move(s, failSession(sess[s]))
  /\ Fault
  /\ UNCHANGED <<board, edges, repo, roles, flow>>

\* The signal is looked at only when the agent has thrown.
SessionAborts(s) ==
  /\ sess[s].pc \in {"draft", "refining", "finalize"}
  /\ Move(s, [sess[s] EXCEPT !.pc = "end", !.outcome = "thrown"])
  /\ Fault
  /\ UNCHANGED <<board, edges, repo, roles, flow>>

FinalizationSucceeds(s) ==
  /\ sess[s].pc = "finalize"
  /\ \E answer \in IF sess[s].flow = "triage" THEN TriageAnswer ELSE PrdAnswer :
       Move(s, emitPresentationEvent(
         [sess[s] EXCEPT !.pc = "detect", !.answer = answer], 2))
  /\ Silent

failOnProposalFlowMutations(s) ==
  /\ sess[s].pc = "detect"
  /\ \E listed \in BOOLEAN :
       /\ listed \/ FaultLeft
       /\ IF listed THEN UNCHANGED used ELSE Fault
       /\ IF detectProposalFlowMutations(
               sess[s].before, captureProposalFlowStateSnapshot(listed))
            THEN Move(s, emitPresentationEvent(
                   [sess[s] EXCEPT !.pc = "end", !.outcome = "failed",
                                   !.result = "blocked_mutations"], 1))
            ELSE Move(s, emitPresentationEvent(
                   [sess[s] EXCEPT !.pc = "approval"], 2))
  /\ UNCHANGED <<board, edges, repo, roles, flow>>

\* --deps names slices by position, and replaces the agent's dependencies.
parsePrdProposalDependencyOverride(r) ==
  {<<r.answer.slices[d[1]].id, r.answer.slices[d[2]].id>> : d \in r.override}

OverrideFits(r) ==
  \A d \in r.override : d[1] # d[2] /\ {d[1], d[2]} \subseteq DOMAIN r.answer.slices

resolveProposalDependencies(r) ==
  IF r.flow = "triage" THEN [r EXCEPT !.pc = "validate"]
  ELSE IF r.override = {} THEN [r EXCEPT !.pc = "mode"]
  ELSE IF ~OverrideFits(r) THEN Thrown(r)
  ELSE [r EXCEPT !.pc = "mode", !.answer.deps = parsePrdProposalDependencyOverride(r)]

\* The session is completed: its result is pending and the flow goes on.
Approved(r) ==
  resolveProposalDependencies(emitPresentationEvent([r EXCEPT !.result = "pending"], 1))

\* Mutant: without a user and without --yes, the approval is waited for.
ApproveOrWait(s) ==
  /\ sess[s].pc = "approval"
  /\ oneShot(sess[s])
  /\ Move(s, Approved(sess[s]))
  /\ Silent

\* --yes approves by itself; without a user nothing is approved.
resolveProposalSessionApproval(s) ==
  /\ sess[s].pc = "approval"
  /\ ~interactive(sess[s])
  /\ Move(s, IF oneShot(sess[s]) THEN Approved(sess[s]) ELSE cancelSession(sess[s]))
  /\ Silent

AnswerApproval(s) ==
  /\ sess[s].pc = "approval"
  /\ interactive(sess[s])
  /\ \/ Move(s, Approved(sess[s]))
     \/ Move(s, cancelSession(sess[s]))
  /\ Silent

(***************************************************************************)
(* The flows after an approved session: the mode of new tasks, validation, *)
(* confirmation of single decisions, and the writes.                       *)
(***************************************************************************)
cancelApply(r) ==
  emitFlowEvent([r EXCEPT !.pc = "end", !.result = "cancelled",
                          !.outcome = "cancelled"], 1)

InMode(r, ready) == [r EXCEPT !.pc = "validate", !.ready = ready]

promptPrdHubStatusMode(r) == {InMode(r, ready) : ready \in BOOLEAN} \cup {cancelApply(r)}

\* --yes creates tasks in the inbox; otherwise a flag or the user decides.
determineHubStatusMode(s) ==
  /\ sess[s].pc = "mode"
  /\ \E r \in IF oneShot(sess[s]) THEN {InMode(sess[s], FALSE)}
                                  ELSE promptPrdHubStatusMode(sess[s]) : Move(s, r)
  /\ Silent

ValidationFails(r) ==
  emitFlowEvent([r EXCEPT !.pc = "end", !.result = "validation_failed",
                          !.outcome = "failed"], 2)

ValidateTriage(s) ==
  /\ sess[s].pc = "validate" /\ sess[s].flow = "triage"
  /\ LET answer == sanitizeTriageProposalDependencies(sess[s].answer)
     IN Move(s, IF validateTriageProposal(answer, sess[s].under)
                  THEN emitFlowEvent([sess[s] EXCEPT !.pc = "confirm",
                                                     !.answer = answer], 2)
                  ELSE ValidationFails(sess[s]))
  /\ Silent

ValidatePrd(s) ==
  /\ sess[s].pc = "validate" /\ sess[s].flow = "prd"
  /\ LET r == sess[s]
     IN Move(s, IF validatePrdDecompositionProposal(r.answer, r.ready)
                  THEN emitFlowEvent(
                         [r EXCEPT !.pc = "apply",
                                   !.todo = PrdWrites(s, r.answer, r.ready)], 3)
                  ELSE ValidationFails(r))
  /\ Silent

Auto(r) ==
  {d.task : d \in {x \in Range(r.answer) : classifyTriageDecisionAutoApply(x)}}

StartApply(r, confirmed) ==
  LET apply == Auto(r) \cup confirmed
  IN emitFlowEvent([r EXCEPT !.pc = "apply", !.apply = apply,
                             !.confirmed = confirmed,
                             !.todo = TriageWrites(r.answer, apply)], 1)

\* Nobody to ask, or nothing to ask about.
SkipConfirmation(s) ==
  /\ sess[s].pc = "confirm"
  /\ \/ ~applyConfirmation(sess[s])
     \/ sess[s].under = Auto(sess[s])
  /\ Move(s, StartApply(sess[s], {}))
  /\ Silent

ConfirmDecisions(s) ==
  /\ sess[s].pc = "confirm"
  /\ applyConfirmation(sess[s])
  /\ LET asked == sess[s].under \ Auto(sess[s])
     IN /\ asked # {}
        /\ \/ \E yes \in SUBSET asked : Move(s, StartApply(sess[s], yes))
           \/ Move(s, cancelApply(sess[s]))
  /\ Silent

\* One call of bd.  The task is read again, and written whatever its status.
Exists(w) ==
  CASE w.kind = "create" -> TRUE
    [] w.kind = "edge"   -> {w.edge[1], w.edge[2]} \subseteq Present
    [] OTHER             -> w.task \in Present

Effect(w) ==
  /\ board' = IF w.kind \in {"status", "create"}
                THEN [board EXCEPT ![w.task] = w.to] ELSE board
  /\ edges' = IF w.kind = "edge" THEN edges \cup {w.edge} ELSE edges

applyProposal(s) ==
  /\ sess[s].pc = "apply" /\ sess[s].todo # <<>>
  /\ LET w == Head(sess[s].todo)
     IN /\ Exists(w)
        /\ Effect(w)
        /\ Move(s, [sess[s] EXCEPT !.todo = Tail(@), !.wrote = @ \cup {w}])
  /\ UNCHANGED <<repo, roles, flow, used>>

ApplyFailed(r) ==
  emitFlowEvent([r EXCEPT !.pc = "end", !.result = "apply_failed",
                          !.outcome = "failed"], 1)

\* The task is gone, or bd fails; the status may be written and the labels not.
ApplyFails(s) ==
  /\ sess[s].pc = "apply" /\ sess[s].todo # <<>>
  /\ LET w == Head(sess[s].todo)
     IN \/ /\ ~Exists(w)
           /\ Move(s, ApplyFailed(sess[s]))
           /\ UNCHANGED <<board, edges, used>>
        \/ /\ Exists(w) /\ Fault
           /\ Move(s, ApplyFailed(sess[s]))
           /\ UNCHANGED <<board, edges>>
        \/ /\ Exists(w) /\ w.kind = "status" /\ Fault
           /\ Effect(w)
           /\ Move(s, ApplyFailed([sess[s] EXCEPT !.wrote = @ \cup {w}]))
  /\ UNCHANGED <<repo, roles, flow>>

ApplyFinishes(s) ==
  /\ sess[s].pc = "apply" /\ sess[s].todo = <<>>
  /\ Move(s, emitFlowEvent([sess[s] EXCEPT !.pc = "end", !.result = "applied",
                                           !.outcome = "applied"], 1))
  /\ Silent

(***************************************************************************)
(* Everybody else.                                                         *)
(***************************************************************************)
Crash(s) ==
  /\ sess[s].pc \notin Ended \cup {"idle"}
  /\ Move(s, [sess[s] EXCEPT !.pc = "crashed"])
  /\ Fault
  /\ UNCHANGED <<board, edges, repo, roles, flow>>

\* An agent runs on the host and may do what its prompt forbids.
AgentMeddles(s) ==
  /\ sess[s].pc \in {"draft", "refining", "finalize"}
  /\ Left(MaxMeddling, used.meddling)
  /\ used' = [used EXCEPT !.meddling = @ + 1]
  /\ \/ /\ repo' \in {[repo EXCEPT !.head = 1], [repo EXCEPT !.tracked = 2],
                      [repo EXCEPT !.loose = 0], [repo EXCEPT !.loose = 2]}
        /\ UNCHANGED <<board, edges>>
     \/ /\ \E t \in Present : board' = [board EXCEPT ![t] = "done"]
        /\ UNCHANGED <<edges, repo>>
     \/ /\ \E d \in Task \X Task : d[1] # d[2] /\ edges' = edges \cup {d}
        /\ UNCHANGED <<board, repo>>
  /\ UNCHANGED <<roles, sess, flow>>

\* A user works on the board meanwhile.
OthersAct ==
  /\ Left(MaxOthers, used.others)
  /\ used' = [used EXCEPT !.others = @ + 1]
  /\ \E t \in Present :
       \/ board[t] = "inbox" /\ board' = [board EXCEPT ![t] = "ready_for_agent"]
       \/ board' \in {[board EXCEPT ![t] = to] : to \in {"absent", "done"}}
  /\ UNCHANGED <<edges, repo, roles, sess, flow>>

\* A flow run plans a batch from the board it reads; `bd dep` may fail.  Kept
\* for the property: the tasks whose text alone tells what they wait for.
selectHubFlowTasksWithBatchOptions ==
  /\ flow.pc = "idle"
  /\ Left(MaxOthers, used.others)
  /\ Planner!Eligible(board, edges) # {}
  /\ \E strategy \in Planner!HUB_BATCH_STRATEGIES, listed \in BOOLEAN :
       \E plan \in Planner!planHubFlowBatch(strategy, board, edges, listed) :
         flow' = [pc |-> "planned", plan |-> plan,
                  told |-> {t \in DOMAIN Declared :
                     \A e \in edges : listed => e[1] # t}]
  /\ used' = [used EXCEPT !.others = @ + 1]
  /\ UNCHANGED <<board, edges, repo, roles, sess>>

\* The board is read again; another batch may be taken instead.
FreshSelection ==
  /\ flow.pc = "planned"
  /\ \E plan \in Planner!resolveFreshValidatedHubBatchSelection(
                   board, edges, flow.plan) :
       flow' = IF plan.batch = <<>> THEN NoFlow
                                    ELSE [flow EXCEPT !.pc = "claiming", !.plan = plan]
  /\ UNCHANGED <<board, edges, repo, roles, sess, used>>

\* A claim skips a task that is worked on or gone, and no other.
claimHubTask ==
  /\ flow.pc = "claiming"
  /\ LET t == Head(flow.plan.batch)
     IN /\ board' = IF board[t] \in {"absent", "implementing"}
                      THEN board ELSE [board EXCEPT ![t] = "implementing"]
        /\ flow' = IF Len(flow.plan.batch) = 1
                     THEN NoFlow ELSE [flow EXCEPT !.plan.batch = Tail(@)]
  /\ UNCHANGED <<edges, repo, roles, sess, used>>

SessionStep(s) ==
  \/ runTriageProposalFlow(s) \/ runPrdDecompositionFlow(s)
  \/ OpenSession(s) \/ DraftSucceeds(s) \/ SkipRefinement(s)
  \/ RefinementSucceeds(s) \/ AgentFails(s) \/ SessionAborts(s)
  \/ FinalizationSucceeds(s) \/ failOnProposalFlowMutations(s)
  \/ resolveProposalSessionApproval(s) \/ ValidateTriage(s) \/ ValidatePrd(s)
  \/ determineHubStatusMode(s) /\ oneShot(sess[s])
  \/ SkipConfirmation(s) \/ applyProposal(s) \/ ApplyFails(s) \/ ApplyFinishes(s)

UserStep(s) ==
  \/ Begin(s) \/ promptHubAgentRoleSetup(s) \/ AnswerRefinement(s) \/ AnswerApproval(s)
  \/ determineHubStatusMode(s) /\ ~oneShot(sess[s])
  \/ ConfirmDecisions(s)

Done ==
  /\ flow.pc = "idle"
  /\ \A s \in Session : sess[s].pc \in Ended
  /\ UNCHANGED vars

Next ==
  \/ \E s \in Session :
       SessionStep(s) \/ UserStep(s) \/ Crash(s) \/ AgentMeddles(s)
  \/ OthersAct
  \/ selectHubFlowTasksWithBatchOptions \/ FreshSelection \/ claimHubTask
  \/ Done

\* A session goes on by itself; nothing is assumed of its user.
Spec == Init /\ [][Next]_vars /\ \A s \in Session : WF_vars(SessionStep(s))

(***************************************************************************)
(* Properties.                                                             *)
(***************************************************************************)
\* The board only knows tasks that were there or that a session created, and
\* a dependency joins ids of the board.
TypeOK ==
  /\ board \in [Id -> Status]
  /\ edges \subseteq Id \X Id
  /\ \A s \in Session :
       /\ sess[s].result \in {"none", "pending", "blocked_mutations", "cancelled",
                             "validation_failed", "apply_failed", "applied"}
       /\ sess[s].outcome \in {"none", "thrown", "cancelled", "failed", "applied"}
       /\ (sess[s].outcome = "applied") = (sess[s].result = "applied")

\* A session that was cancelled, refused or stopped before it was approved
\* has written nothing ("cancelled before applying Beads task updates").
RefusedWroteNothing ==
  \A s \in Session :
    sess[s].wrote # {} => sess[s].result \in {"pending", "applied", "apply_failed"}

\* A proposal reaches its user only when the repository and the board are as
\* they were before the agent ran, as far as the detector can see: what is in
\* an untracked file escapes it, and a board that could not be listed.
AgentLeftNoTrace ==
  [][\A s \in Session :
       (sess[s].pc = "detect" /\ sess'[s].pc = "approval") =>
         LET was == sess[s].origin
         IN /\ repo.head = was.repo.head
            /\ repo.tracked = was.repo.tracked
            /\ (repo.loose = 0) = (was.repo.loose = 0)
            /\ \/ sess[s].before.tasks = Unlisted
               \/ <<board, edges>> = <<was.board, was.edges>>]_vars

\* What closes a task, adds a dependency or is not certain is written only
\* after the user has confirmed that decision; a severe warning keeps new
\* tasks out of the hands of agents; without a user nothing else is written.
WritesHaveConsent ==
  \A s \in Session : \A w \in sess[s].wrote :
    /\ sess[s].mode # "batch"
    /\ w.kind = "status" =>
         \E d \in Range(sess[s].answer) :
           /\ d.task = w.task /\ d.outcome = w.to
           /\ \/ w.task \in sess[s].confirmed
              \/ d.confidence = "high" /\ d.outcome # "wontfix"
    /\ w.kind = "edge" /\ sess[s].flow = "triage" =>
         \E d \in Range(sess[s].answer) :
           d.task \in sess[s].confirmed /\ w.edge \in d.deps
    /\ w.kind = "create" /\ w.to # "inbox" =>
         interactive(sess[s]) /\ sess[s].answer.severe = {}

\* No session adds a cycle of dependencies, so that every task it writes can
\* come to its turn: some task of every group waits for none of the group.
NoProposedCycle ==
  \A s \in Session :
    LET added == {w.edge : w \in {x \in sess[s].wrote : x.kind = "edge"}}
    IN \A group \in SUBSET Nodes(added) \ {{}} :
         \E n \in group : \A m \in group : <<n, m>> \notin added

\* "applied" means that all of it is there: every decision that applies with
\* its comment, every slice, and every dependency whose ends still exist.
AppliedIsComplete ==
  \A s \in Session : sess[s].result = "applied" =>
    LET r == sess[s]
    IN IF r.flow = "triage"
         THEN \A d \in Range(r.answer) : d.task \in r.apply =>
                /\ {StatusWrite(d.task, d.outcome), CommentWrite(d.task)} \subseteq r.wrote
                /\ \A e \in d.deps : \/ EdgeWrite(e) \in r.wrote
                                      \/ "absent" \in {board[e[1]], board[e[2]]}
         ELSE /\ \A x \in Range(r.answer.slices) :
                   \E w \in r.wrote : w.kind = "create" /\ w.task = <<s, x.id>>
              /\ \A d \in r.answer.deps :
                   EdgeWrite(<<<<s, d[1]>>, <<s, d[2]>>>>) \in r.wrote

\* A session that asks nobody comes to its end, and says what became of it:
\* again and again none of them is under way.
UnattendedSettles ==
  []<>(\A s \in Session :
         (sess[s].pc # "idle" /\ sess[s].mode \in {"yes", "batch"})
           => (sess[s].pc = "crashed" \/ sess[s].outcome # "none"))

\* The dependencies that triage and PRD sessions write are kept by flow runs:
\* a batch that starts is ready on a board read after the agent has answered,
\* and a deferral is not taken back against what the text of a task says
\* (resolveFreshValidatedHubBatchSelection, resolvePlannedBatchSelection).
PlanKeepsOrder ==
  [][(flow.pc = "planned" /\ flow'.pc = "claiming") =>
       LET batch == Range(flow'.plan.batch)
           added == IF flow'.plan.by = "planned" THEN batch \ flow'.plan.asked ELSE {}
           Open(t) == board[t] \notin {"absent", "done", "wontfix"}
       IN /\ \A t \in batch : board[t] = "ready_for_agent"
          /\ \A e \in edges : e[1] \in batch => ~Open(e[2])
          /\ Len(flow'.plan.batch) = Cardinality(batch)
          /\ \A t \in flow.told : \A b \in Declared[t] :
               /\ t \in added => b # Foreign /\ b \notin batch
               /\ b \in added => t \notin batch]_vars

\* What a session writes is consented to, acyclic and complete: TypeOK, RefusedWroteNothing,
\* WritesHaveConsent, NoProposedCycle and AppliedIsComplete (applyTriageProposal,
\* applyPrdDecompositionProposal).
WritesAreSound ==
  /\ TypeOK /\ RefusedWroteNothing /\ WritesHaveConsent
  /\ NoProposedCycle /\ AppliedIsComplete

\* The ids of a session's presentation events rise: no two events share one,
\* whether the session or the flow emits them.
EventIdsRise ==
  [][\A s \in Session :
       sess'[s].last # sess[s].last => sess'[s].last > sess[s].last]_vars

\* What a session tells its user: its events in order, and its end (emitPresentationEvent,
\* runProposalSession): EventIdsRise and UnattendedSettles.
SessionsReport == EventIdsRise /\ UnattendedSettles
=============================================================================
