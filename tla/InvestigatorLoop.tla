-------------------------- MODULE InvestigatorLoop --------------------------
(***************************************************************************)
(* What an investigation does between its claims: the language model is    *)
(* asked, its choice is held against the action policy, the tool is        *)
(* executed within the scope of the run, the outcome is scored, and the    *)
(* project memory is rewritten (agent/orchestrator.py, llm_provider.py,    *)
(* context.py, tool_implementations.py, project_memory_store.py).          *)
(*                                                                         *)
(* The steps of one run follow each other, as module AgentRuntime shows    *)
(* for timely claims.  Two runs of a project overlap when one is cancelled *)
(* while a worker still executes a step of it and the next one is started; *)
(* the graph and the project memory are shared by both and by the users.   *)
(***************************************************************************)
EXTENDS Integers, Sequences, FiniteSets, SequencesExt, Filtering

CONSTANTS
  Runs,         \* identities of the agent_runs rows
  Entities,     \* entity ids, in the order in which their texts sort
  Links,        \* edge signatures, in the order in which they sort
  TypeOf,       \* the type of an entity
  Drawn,        \* the entities in the project's graph at the start
  Scopes,       \* the scopes a user may start a run with
  Calls,        \* the tool calls the model may choose from
  Results,      \* what a transform may return: sets of entities and links
  Provider,     \* the provider the user has configured
  MaxSteps, MaxTransforms,     \* the budget
  RetryAttempts,               \* settings.llm_retry_max_attempts
  DuplicateReadReplanLimit, ToolValidationReplanLimit,
  KnownGraphItemLimit, TransformMemoryLimit,
  FamilyMinRuns, LowYieldThreshold,
  MaxExhaustedPaths, MaxRecentRuns,
  MaxAsked,     \* bound of the model: prompts of all runs together
  MaxMeddling,  \* bound of the model: entities deleted, memories reset, workers
                \* that die and failures after a commit
  None

ReadOnlyTools == {"list_entities", "get_entity", "list_transforms",
                  "search_graph"}
EntityTools   == {"get_entity", "list_transforms", "run_transform"}
Tools         == ReadOnlyTools \cup
                   {"run_transform", "create_entity", "get_transform_result",
                    "finish_investigation"}
\* The definitions registered with requires_approval.
GatedTools    == {"run_transform", "create_entity"}

ActiveStatuses == {"pending", "running", "paused"}
EndedStatuses  == {"completed", "failed", "cancelled"}
Statuses       == {"absent"} \cup ActiveStatuses \cup EndedStatuses

Families == {c.family : c \in Calls}
\* What the feedback to the model says, as far as the loop looks at it.
Lines    == {"low-yield", "already executed", "invalid"}

\* The row of agent_project_memory: how runs have ended, and exhausted paths.
Entry      == [run : Runs, status : Statuses]
MemoryType == [runs : Seq(Entry), paths : Seq(Families \cup Lines), id : Nat]

CallType == [tool : Tools, entity : Entities \cup {None},
             link : Entities \cup {None}, family : STRING]
ScopeType == [mode : {"all", "selected"}, ids : SUBSET Entities]

ASSUME LoopAssumption ==
  /\ Entities \subseteq Nat /\ Links \subseteq Nat
  /\ Drawn \subseteq Entities
  /\ Scopes \subseteq ScopeType
  /\ \A s \in Scopes : s.mode = "selected" => s.ids # {}
  /\ Calls \subseteq CallType
  /\ \A c \in Calls :
       c.tool \in EntityTools \cup {"create_entity"} => c.entity # None
  /\ Results \subseteq (SUBSET Entities) \X (SUBSET Links)
  /\ Provider \in {"openai", "gemini", "anthropic"}
  /\ {RetryAttempts, DuplicateReadReplanLimit, ToolValidationReplanLimit,
      KnownGraphItemLimit, TransformMemoryLimit, FamilyMinRuns,
      MaxExhaustedPaths, MaxRecentRuns} \subseteq Nat \ {0}
  /\ {MaxTransforms, LowYieldThreshold} \subseteq Nat
  /\ None \notin Entities /\ None \notin Calls /\ None \notin MemoryType

VARIABLES
  run,      \* agent_runs: status, scope, budget use and the loop state
  pc,       \* what is to happen next in each run
  call,     \* the tool call that is planned, asked for or executed
  sync,     \* what the session that rewrites the memory has read
  graph,    \* the entities of the project
  memory,   \* the row of agent_project_memory, or None
  history,  \* history: see NoHistory
  disturbed,\* history: runs whose record in the memory was reset, overwritten
            \* by a session that had not read it, or never written
  bounds    \* how much of the bounds is used up

vars == <<run, pc, call, sync, graph, memory, history, disturbed, bounds>>

-----------------------------------------------------------------------------
(* The rows. *)

\* completed: how often each call was completed, executed or found invalid.
NewRun(scope) ==
  [status |-> "pending", scope |-> scope, steps |-> 0, transforms |-> 0,
   attempt |-> 1, duplicates |-> 0, invalids |-> 0, feedback |-> <<>>,
   completed |-> [c \in Calls |-> 0], entities |-> {}, links |-> {},
   outcomes |-> <<>>, exhausted |-> <<>>]

\* picked: the scope the user chose (for a retry with what its source had);
\* named: entities its create_entity calls made or found to exist; worked: the
\* entities its tools were aimed at; shown: those they showed the model; told:
\* those that results of transforms showed it; refused, missed: choices in a row
\* that the policy refused, and calls in a row that turned out to be invalid.
NoHistory == [picked |-> {}, named |-> {}, worked |-> {}, shown |-> {},
              told |-> {}, refused |-> 0, missed |-> 0]

NoSync == [status |-> "absent", then |-> "over", runs |-> <<>>,
           paths |-> <<>>, id |-> 0]

Active(r)   == run[r].status \in ActiveStatuses
Runnable(r) == run[r].status \in {"pending", "running"}

\* What a worker does for the run at this moment, or the claimed step.
BusyPcs == {"asking", "executing", "read", "create", "write"}
Pcs     == BusyPcs \cup {"none", "think", "summary", "tool", "waiting",
                         "approved", "over", "stranded"}
Latest(s, n) == SubSeq(s, IF Len(s) > n THEN Len(s) - n + 1 ELSE 1, Len(s))
\* sorted(...)[-limit:]
Greatest(S, n) == {x \in S : Cardinality({y \in S : y > x}) < n}

-----------------------------------------------------------------------------
(* The action policy and the loop state. *)

PolicyIgnoringFamilies(r, c) ==
  IF c.tool = "finish_investigation" THEN "allow"
  ELSE IF c.tool = "run_transform" /\ run[r].completed[c] > 0 THEN "fail"
  ELSE IF c.tool \in ReadOnlyTools /\ run[r].completed[c] > 0 THEN "replan"
  ELSE IF run[r].completed[c] >= 2 THEN "fail" ELSE "allow"

\* _check_action_policy.  Its last rule, two equal calls among the last six,
\* adds nothing to the rule before it, which counts them all.
Policy(r, c) ==
  IF c.tool = "finish_investigation" THEN "allow"
  ELSE IF c.tool = "run_transform" /\ run[r].completed[c] > 0 THEN "fail"
  ELSE IF c.tool = "run_transform" /\ Contains(run[r].exhausted, c.family)
    THEN "replan"
  ELSE IF c.tool \in ReadOnlyTools /\ run[r].completed[c] > 0 THEN "replan"
  ELSE IF run[r].completed[c] >= 2 THEN "fail" ELSE "allow"

\* What the feedback for a refused call says, as far as the memory looks at it.
Complaint(c) == IF c.tool = "run_transform" THEN "low-yield"
                ELSE "already executed"

WithFeedback(row, line) ==
  [row EXCEPT !.feedback = Latest(Append(@, line), 3)]

WithDuplicateRead(row, c) ==
  [WithFeedback(row, Complaint(c)) EXCEPT
     !.duplicates = IF c.tool \in ReadOnlyTools THEN @ + 1 ELSE @]

WithDuplicate(row, c) ==
  [WithFeedback(row, Complaint(c)) EXCEPT !.duplicates = @ + 1]

WithInvalidUntold(row) == [row EXCEPT !.invalids = @ + 1]

WithInvalid(row) == [WithFeedback(row, "invalid") EXCEPT !.invalids = @ + 1]

\* An allowed choice clears the feedback and both counters.
Cleared(row) == [row EXCEPT !.feedback = <<>>, !.duplicates = 0,
                            !.invalids = 0]

LowYield(ents, links) ==
  /\ Cardinality(ents) <= 1 /\ Cardinality(links) <= 1
  /\ Cardinality({TypeOf[e] : e \in ents}) <= 1

\* The places of a family's runs among the remembered ones.
HistoryOf(outcomes, family) == {i \in DOMAIN outcomes : outcomes[i].family = family}
RecentLow(outcomes, family) ==
  {i \in Greatest(HistoryOf(outcomes, family), 3) : outcomes[i].low}

\* Enough runs of the family are remembered, and of the last three enough
\* brought little.
WornOut(outcomes, family) ==
  /\ Cardinality(HistoryOf(outcomes, family)) >= FamilyMinRuns
  /\ Cardinality(RecentLow(outcomes, family)) >= LowYieldThreshold

\* _record_transform_outcome, for a transform that returned the entities ents
\* and the links.  A family once exhausted stays so until ten others follow.
Scored(row, c, ents, links) ==
  LET low      == LowYield(ents \ row.entities, links \ row.links)
      outcomes == Latest(Append(row.outcomes, [family |-> c.family, low |-> low]),
                         TransformMemoryLimit)
      worn     == /\ WornOut(outcomes, c.family)
                  /\ ~Contains(row.exhausted, c.family)
  IN  [row EXCEPT
        !.entities  = Greatest(@ \cup ents, KnownGraphItemLimit),
        !.links     = Greatest(@ \cup links, KnownGraphItemLimit),
        !.outcomes  = outcomes,
        !.exhausted = IF worn THEN Latest(Append(@, c.family), 10) ELSE @]

Charged(row, c) ==
  [row EXCEPT !.steps = @ + 1, !.attempt = 1,
              !.transforms = IF c # None /\ c.tool = "run_transform"
                             THEN @ + 1 ELSE @]

OverBudget(r, c) ==
  \/ run[r].steps >= MaxSteps
  \/ c # None /\ c.tool = "run_transform" /\ run[r].transforms >= MaxTransforms

-----------------------------------------------------------------------------
(* Scope. *)

InScope(r, e) == run[r].scope.mode = "selected" => e \in run[r].scope.ids

ResolvesAnywhere(r, e) == e \in graph

\* _resolve_entity, by id or by value: the entity is in the scope and exists.
Resolves(r, e) == InScope(r, e) /\ e \in graph

\* The entities a call is aimed at: it reads, transforms or links them.
Target(c) ==
  CASE c.tool \in EntityTools -> {c.entity}
    [] c.tool = "create_entity" -> {c.link} \ {None}
    [] OTHER -> {}

\* The rows of entities that a call shows the model.
Rows(r, c) ==
  CASE c.tool \in {"list_entities", "search_graph"} ->
         {e \in graph : InScope(r, e)}
    [] c.tool \in EntityTools \cup {"create_entity"} -> {c.entity} \cup Target(c)
    [] OTHER -> {}

\* The parts of a prompt that the loop itself decides about.
ScopeShown(r)    == {e \in graph : run[r].scope.mode = "all" \/ InScope(r, e)}
AttemptsShown(r) == {c \in Calls : run[r].completed[c] > 0}
FeedbackShown(r) == Latest(run[r].feedback, 3)
ProgressShown(r) == [outcomes  |-> Latest(run[r].outcomes, 6),
                     exhausted |-> run[r].exhausted]
MemoryShown      == IF memory = None THEN None
                    ELSE [paths |-> Latest(memory.paths, 4), runs |-> Latest(memory.runs, 4)]

\* build_messages.
Prompt(r) ==
  [scope    |-> ScopeShown(r), memory   |-> MemoryShown,
   attempts |-> AttemptsShown(r), feedback |-> FeedbackShown(r),
   progress |-> ProgressShown(r)]

-----------------------------------------------------------------------------
(* Starting and ending. *)

\* Every change of run r in one place: its row, and what comes next for it.
Becomes(r, row, next) ==
  /\ run' = [run EXCEPT ![r] = row]
  /\ pc' = [pc EXCEPT ![r] = next]

Remember(r, changes) == history' = [history EXCEPT ![r] = changes]

\* The session of the worker reads the memory next; afterwards the run goes on with `then`.
SyncThen(r, status, then) ==
  sync' = [sync EXCEPT ![r] = [NoSync EXCEPT !.status = status, !.then = then]]

Launch(r, scope, picked) ==
  /\ pc[r] = "none"
  /\ \A q \in Runs : ~Active(q)
  /\ Becomes(r, NewRun(scope), "think")
  /\ Remember(r, [NoHistory EXCEPT !.picked = picked])
  /\ UNCHANGED <<call, sync, graph, memory, disturbed, bounds>>

\* start_agent_run.
Start(r) == \E s \in Scopes : Launch(r, s, s.ids)

\* retry_agent_run: the new run inherits the scope the old one ended with.
Retry(r, q) ==
  /\ run[q].status \in EndedStatuses
  /\ Launch(r, run[q].scope, history[q].picked \cup history[q].named)

\* _fail_run: the status first, then the memory.
Fail(r, row) ==
  /\ Becomes(r, [row EXCEPT !.status = "failed"], "read")
  /\ SyncThen(r, "failed", "over")
  /\ call' = [call EXCEPT ![r] = None]
  /\ UNCHANGED <<graph, memory, disturbed, bounds>>

\* Nothing of the run is left to claim.  The loop state that nobody reads any
\* more is forgotten by the model.
Settle(r, row) ==
  /\ Becomes(r, [NewRun(row.scope) EXCEPT !.status = row.status], "over")
  /\ Remember(r, [NoHistory EXCEPT !.picked = history[r].picked,
                                   !.named = history[r].named])

\* cancel_agent_run: a worker that holds a step of the run does not notice,
\* any other step will not be claimed again.
Cancel(r) ==
  LET row == [run[r] EXCEPT !.status = "cancelled"]
  IN  /\ Active(r)
      /\ \/ pc[r] \in BusyPcs /\ Becomes(r, row, pc[r]) /\ UNCHANGED <<call, history>>
         \/ /\ pc[r] \notin BusyPcs /\ Settle(r, row)
            /\ call' = [call EXCEPT ![r] = None]
      /\ UNCHANGED <<sync, graph, memory, disturbed, bounds>>

\* A claimed step finds its budget used up, or the policy refuses the call.
Exceeded(r) ==
  /\ Runnable(r)
  /\ \/ pc[r] \in {"think", "summary"} /\ OverBudget(r, None)
     \/ /\ pc[r] \in {"tool", "approved"}
        /\ OverBudget(r, call[r]) \/ Policy(r, call[r]) # "allow"
  /\ Fail(r, run[r])
  /\ UNCHANGED history

-----------------------------------------------------------------------------
(* The think step. *)

\* overloaded: 429 or 5xx; unreachable: no response; unreadable: not the JSON
\* of a decision; rejected: any other status.
Replies == {"overloaded", "unreachable", "unreadable", "rejected"}

\* What the decide method of each provider class tries again.
RetriedByOpenAI    == Replies \ {"rejected"}
RetriedByGemini    == {"overloaded"}
RetriedByAnthropic == {"overloaded"}

\* build_llm_provider_for_run.
Retried == CASE Provider = "openai"    -> RetriedByOpenAI
             [] Provider = "gemini"    -> RetriedByGemini
             [] Provider = "anthropic" -> RetriedByAnthropic

\* A claimed think step builds its prompt and asks the model service.
Ask(r) ==
  /\ pc[r] = "think" /\ Runnable(r) /\ ~OverBudget(r, None)
  /\ bounds.asked < MaxAsked
  /\ Becomes(r, [run[r] EXCEPT !.status = "running"], "asking")
  /\ bounds' = [bounds EXCEPT !.asked = @ + 1]
  /\ UNCHANGED <<call, sync, graph, memory, history, disturbed>>

AskAgainOnceMore(r) ==
  /\ pc[r] = "asking"
  /\ \E reply \in Replies : reply \in Retried /\ run[r].attempt <= RetryAttempts
  /\ run' = [run EXCEPT ![r].attempt = @ + 1]
  /\ UNCHANGED <<pc, call, sync, graph, memory, history, disturbed, bounds>>

\* decide: another attempt after a reply the provider class retries.
AskAgain(r) ==
  /\ pc[r] = "asking"
  /\ \E reply \in Replies : reply \in Retried /\ run[r].attempt < RetryAttempts
  /\ run' = [run EXCEPT ![r].attempt = @ + 1]
  /\ UNCHANGED <<pc, call, sync, graph, memory, history, disturbed, bounds>>

\* decide raises: any other reply, or a retried one at the last attempt.  A
\* missing key or an unknown provider ends the run in the same way.
GiveUp(r) ==
  /\ pc[r] = "asking"
  /\ \E reply \in Replies : reply \in Retried => run[r].attempt = RetryAttempts
  /\ Fail(r, run[r])
  /\ UNCHANGED history

\* The model is done: the think step is completed and a summary follows.
Finish(r) ==
  /\ pc[r] = "asking"
  /\ Becomes(r, Cleared(Charged(run[r], None)), "summary")
  /\ UNCHANGED <<call, sync, graph, memory, history, disturbed, bounds>>

\* An answer that names no tool, or one that is not registered.  (What lacks
\* both an action and a name counts as Finish: normalize_decision.)
Astray(r) ==
  /\ pc[r] = "asking"
  /\ Fail(r, Charged(run[r], None))
  /\ UNCHANGED history

\* The policy wants another plan: the counter of refusals goes up, whatever
\* the reason, and at the limit the run fails.
Refuse(r, c) ==
  LET row == WithDuplicate(Charged(run[r], None), c)
  IN  /\ pc[r] = "asking" /\ Policy(r, c) = "replan"
      /\ Remember(r, [history[r] EXCEPT !.refused = @ + 1])
      /\ IF row.duplicates >= DuplicateReadReplanLimit
         THEN Fail(r, row)
         ELSE /\ Becomes(r, row, "think")
              /\ UNCHANGED <<call, sync, graph, memory, disturbed, bounds>>

\* The policy sees a loop: the run fails.
Loop(r, c) ==
  /\ pc[r] = "asking" /\ Policy(r, c) = "fail"
  /\ Fail(r, Charged(run[r], None))
  /\ UNCHANGED history

\* The choice is allowed and becomes a pending tool call.
Plan(r, c) ==
  /\ pc[r] = "asking" /\ Policy(r, c) = "allow"
  /\ Becomes(r, Cleared(Charged(run[r], None)), "tool")
  /\ call' = [call EXCEPT ![r] = c]
  /\ Remember(r, [history[r] EXCEPT !.refused = 0])
  /\ UNCHANGED <<sync, graph, memory, disturbed, bounds>>

-----------------------------------------------------------------------------
(* The tool step. *)

AskApproval(r) ==
  /\ pc[r] = "tool" /\ Runnable(r)
  /\ ~OverBudget(r, call[r]) /\ Policy(r, call[r]) = "allow"
  /\ call[r].tool \in GatedTools
  /\ Becomes(r, [run[r] EXCEPT !.status = "paused"], "waiting")
  /\ UNCHANGED <<call, sync, graph, memory, history, disturbed, bounds>>

\* approve_agent_step; a paused run becomes pending again.
Approve(r) ==
  /\ pc[r] = "waiting"
  /\ Becomes(r, [run[r] EXCEPT !.status = "pending"], "approved")
  /\ UNCHANGED <<call, sync, graph, memory, history, disturbed, bounds>>

\* reject_agent_step: the run stays paused, or as cancelled as it is.
Reject(r) ==
  /\ pc[r] = "waiting"
  /\ Settle(r, run[r])
  /\ call' = [call EXCEPT ![r] = None]
  /\ UNCHANGED <<sync, graph, memory, disturbed, bounds>>

Execute(r) ==
  /\ Runnable(r)
  /\ \/ pc[r] = "tool" /\ call[r].tool \notin GatedTools
     \/ pc[r] = "approved"
  /\ ~OverBudget(r, call[r]) /\ Policy(r, call[r]) = "allow"
  /\ Becomes(r, [run[r] EXCEPT !.status = "running"], "executing")
  /\ UNCHANGED <<call, sync, graph, memory, history, disturbed, bounds>>

Completed(row, c) == [row EXCEPT !.completed[c] = @ + 1]

\* The tool step is completed, its result stored; the memory is next, then
\* the next think step.
ToolDone(r, row) ==
  /\ Becomes(r, Charged(Completed(row, call[r]), call[r]), "read")
  /\ SyncThen(r, row.status, "think")
  /\ call' = [call EXCEPT ![r] = None]

\* What the tool has worked on and shown; told: the entities in the result of a
\* transform, which no scope cuts.
Answered(r, told) ==
  [history[r] EXCEPT !.worked = @ \cup Target(call[r]),
                     !.shown  = @ \cup Rows(r, call[r]) \cup told,
                     !.told   = @ \cup told,
                     !.missed = 0]

\* get_transform_result, for any transform run of the project, whoever started
\* it; and finish_investigation, which only returns its text.
ReadResult(r) ==
  /\ pc[r] = "executing"
  /\ \/ /\ call[r].tool = "get_transform_result"
        /\ \E result \in Results : Remember(r, Answered(r, result[1]))
     \/ call[r].tool = "finish_investigation" /\ Remember(r, Answered(r, {}))
  /\ ToolDone(r, run[r])
  /\ UNCHANGED <<graph, memory, disturbed, bounds>>

\* list_entities, get_entity, search_graph and list_transforms.
ReadTool(r) ==
  /\ pc[r] = "executing"
  /\ call[r].tool \in ReadOnlyTools
  /\ call[r].tool \in EntityTools => Resolves(r, call[r].entity)
  /\ ToolDone(r, run[r])
  /\ Remember(r, Answered(r, {}))
  /\ UNCHANGED <<graph, memory, disturbed, bounds>>

\* run_transform: its results are stored in the graph and shown to the model;
\* they do not extend the scope.
RunTransform(r) ==
  /\ pc[r] = "executing"
  /\ call[r].tool = "run_transform"
  /\ Resolves(r, call[r].entity)
  /\ \E result \in Results :
       /\ graph' = graph \cup result[1]
       /\ ToolDone(r, Scored(run[r], call[r], result[1], result[2]))
       /\ Remember(r, Answered(r, result[1]))
  /\ UNCHANGED <<memory, disturbed, bounds>>

\* create_entity, linked to an entity of the scope or to none.  An entity of the
\* same name that exists, in the scope or not, is returned with its properties.
\* A selected scope is extended by what was created or found to exist.
CreateEntity(r) ==
  LET e == call[r].entity
      wider == IF run[r].scope.mode = "selected"
               THEN [run[r].scope EXCEPT !.ids = @ \cup {e}]
               ELSE run[r].scope
  IN  /\ pc[r] = "executing"
      /\ call[r].tool = "create_entity"
      /\ call[r].link # None => Resolves(r, call[r].link)
      /\ graph' = graph \cup {e}
      /\ ToolDone(r, [run[r] EXCEPT !.scope = wider])
      /\ Remember(r, [Answered(r, {}) EXCEPT !.named = @ \cup {e}])
      /\ UNCHANGED <<memory, disturbed, bounds>>

\* The tool answers with 400 or 404: the entity does not resolve, or the
\* request is refused for a reason of its own.  The step is completed, but
\* not charged.
ToolInvalid(r) ==
  LET row == WithInvalid(run[r])
  IN  /\ pc[r] = "executing"
      /\ \/ call[r].tool \in EntityTools /\ ~Resolves(r, call[r].entity)
         \/ call[r].tool \in GatedTools \cup {"search_graph", "get_transform_result"}
      /\ Remember(r, [history[r] EXCEPT !.missed = @ + 1])
      /\ IF row.invalids >= ToolValidationReplanLimit
         THEN Fail(r, row)
         ELSE /\ Becomes(r, Completed(row, call[r]), "read")
              /\ SyncThen(r, row.status, "think")
              /\ call' = [call EXCEPT ![r] = None]
              /\ UNCHANGED <<graph, memory, disturbed, bounds>>

\* What a tool has committed to the graph when it raises: the new entity, or
\* the results it has come to, each saved in a transaction of its own.
Leftovers(c) ==
  CASE c.tool = "create_entity" -> {{}, {c.entity}}
    [] c.tool = "run_transform" -> UNION {SUBSET result[1] : result \in Results}
    [] OTHER -> {{}}

\* The tool raises anything else: what it has committed stays.
ToolBreaks(r) ==
  /\ pc[r] = "executing"
  /\ \E left \in Leftovers(call[r]) : graph' = graph \cup left
  /\ Becomes(r, [run[r] EXCEPT !.status = "failed"], "read")
  /\ SyncThen(r, "failed", "over")
  /\ call' = [call EXCEPT ![r] = None]
  /\ UNCHANGED <<memory, history, disturbed, bounds>>

\* The summary step.
Summarize(r) ==
  /\ pc[r] = "summary" /\ Runnable(r) /\ ~OverBudget(r, None)
  /\ Becomes(r, [Charged(run[r], None) EXCEPT !.status = "completed"], "read")
  /\ SyncThen(r, "completed", "over")
  /\ UNCHANGED <<call, graph, memory, history, disturbed, bounds>>

-----------------------------------------------------------------------------
(* The project memory. *)

MergeUnique(old, new, limit) == Latest(Distinct(old \o new), limit)

MergeRecentRunsAppending(runs, r, status) ==
  Latest(Append(runs, [run |-> r, status |-> status]), MaxRecentRuns)

MergeRecentRuns(runs, r, status) ==
  Latest(Append(Only(runs, {x \in Range(runs) : x.run # r}),
                [run |-> r, status |-> status]), MaxRecentRuns)

\* The exhausted families and the complaints of the feedback that is not yet
\* cleared.
ExhaustedPaths(r) ==
  Latest(run[r].exhausted \o Only(run[r].feedback, {"low-yield", "already executed"}),
         MaxExhaustedPaths)

\* update_from_run reads the row, or finds none.
ReadMemory(r) ==
  /\ pc[r] = "read"
  /\ IF memory = None
     THEN /\ pc' = [pc EXCEPT ![r] = "create"]
          /\ UNCHANGED sync
     ELSE /\ pc' = [pc EXCEPT ![r] = "write"]
          /\ sync' = [sync EXCEPT ![r].runs = memory.runs,
                                  ![r].paths = memory.paths,
                                  ![r].id = memory.id]
  /\ UNCHANGED <<run, call, graph, memory, history, disturbed, bounds>>

\* get_or_create inserts an empty row; the project can have only one.
CreateMemory(r) ==
  /\ pc[r] = "create" /\ memory = None
  /\ memory' = [runs |-> <<>>, paths |-> <<>>, id |-> bounds.meddling]
  /\ pc' = [pc EXCEPT ![r] = "write"]
  /\ sync' = [sync EXCEPT ![r].id = bounds.meddling]
  /\ UNCHANGED <<run, call, graph, history, disturbed, bounds>>

\* What follows the rewriting of the memory; a cancelled run is not claimed.
Continue(r, next) ==
  IF next = "over" \/ run[r].status = "cancelled"
  THEN Settle(r, run[r])
  ELSE /\ pc' = [pc EXCEPT ![r] = next]
       /\ UNCHANGED <<run, history>>

\* The row the session has read is still the project's.
RowRemains(r) == IF memory = None THEN FALSE ELSE memory.id = sync[r].id

\* What is left to do after the memory is written, the event to publish or the
\* next step to insert, raises, or what there is to do before it: the run, which
\* may just have been completed, is failed, and the memory written once more.
FailLate(r) ==
  /\ sync[r].status # "failed" /\ bounds.meddling < MaxMeddling
  /\ Becomes(r, [run[r] EXCEPT !.status = "failed"], "read")
  /\ SyncThen(r, "failed", "over")
  /\ bounds' = [bounds EXCEPT !.meddling = @ + 1]
  /\ UNCHANGED history

FailUnsynced(r) ==
  /\ pc[r] = "read"
  /\ FailLate(r)
  /\ UNCHANGED <<call, graph, memory, disturbed>>

\* The merged columns are written over whatever they have become.  A column
\* whose value did not change is not written.
WriteMemory(r) ==
  LET paths == MergeUnique(sync[r].paths, ExhaustedPaths(r), MaxExhaustedPaths)
  IN  /\ pc[r] = "write"
      /\ RowRemains(r)
      /\ memory' = [memory EXCEPT
           !.runs = MergeRecentRuns(sync[r].runs, r, sync[r].status),
           !.paths = IF paths = sync[r].paths THEN @ ELSE paths]
      /\ \/ /\ Continue(r, sync[r].then)
            /\ sync' = [sync EXCEPT ![r] = NoSync]
            /\ UNCHANGED bounds
         \/ FailLate(r)
      /\ disturbed' = IF memory.runs = sync[r].runs THEN disturbed ELSE Runs
      /\ UNCHANGED <<call, graph>>

\* The session ends before the memory is written: a run that was to go on has
\* no step left that anyone could claim.
Unsynced(r) ==
  /\ Continue(r, IF sync[r].then = "think" THEN "stranded" ELSE "over")
  /\ sync' = [sync EXCEPT ![r] = NoSync]
  /\ disturbed' = disturbed \cup {r}
  /\ UNCHANGED <<call, graph, memory>>

\* The row is there by now, or is gone, so the commit fails and the session
\* with it.
MemoryConflict(r) ==
  /\ \/ pc[r] = "create" /\ memory # None
     \/ pc[r] = "write" /\ ~RowRemains(r)
  /\ Unsynced(r)
  /\ UNCHANGED bounds

\* The worker dies between the commit of a step and that of the memory.  (At
\* any other moment the step is claimed and executed again: AgentRuntime.)
WorkerDies(r) ==
  /\ pc[r] \in {"read", "create", "write"} /\ bounds.meddling < MaxMeddling
  /\ Unsynced(r)
  /\ bounds' = [bounds EXCEPT !.meddling = @ + 1]

\* recover_stale_runs, when a worker starts: a running run without a step is
\* failed, and the memory is not told.
RecoverStale(r) ==
  /\ pc[r] = "stranded" /\ run[r].status = "running"
  /\ Settle(r, [run[r] EXCEPT !.status = "failed"])
  /\ disturbed' = disturbed \cup {r}
  /\ UNCHANGED <<call, sync, graph, memory, bounds>>

\* reset_agent_project_memory.
ResetMemory ==
  /\ memory # None /\ bounds.meddling < MaxMeddling
  /\ memory' = None
  /\ bounds' = [bounds EXCEPT !.meddling = @ + 1]
  /\ disturbed' = Runs
  /\ UNCHANGED <<run, pc, call, sync, graph, history>>

\* A user deletes an entity meanwhile.
DeleteEntity(e) ==
  /\ e \in graph /\ bounds.meddling < MaxMeddling
  /\ graph' = graph \ {e}
  /\ bounds' = [bounds EXCEPT !.meddling = @ + 1]
  /\ UNCHANGED <<run, pc, call, sync, memory, history, disturbed>>

-----------------------------------------------------------------------------
Init ==
  /\ run = [r \in Runs |-> [NewRun([mode |-> "all", ids |-> {}])
                              EXCEPT !.status = "absent"]]
  /\ pc = [r \in Runs |-> "none"]
  /\ call = [r \in Runs |-> None]
  /\ sync = [r \in Runs |-> NoSync]
  /\ graph = Drawn
  /\ memory = None
  /\ history = [r \in Runs |-> NoHistory]
  /\ disturbed = {}
  /\ bounds = [asked |-> 0, meddling |-> 0]

Thinks(r) ==
  \/ Ask(r) \/ AskAgain(r) \/ GiveUp(r) \/ Finish(r) \/ Astray(r)
  \/ \E c \in Calls : Refuse(r, c) \/ Loop(r, c) \/ Plan(r, c)
Acts(r) ==
  \/ Exceeded(r) \/ AskApproval(r) \/ Execute(r) \/ ReadTool(r)
  \/ ReadResult(r) \/ RunTransform(r) \/ CreateEntity(r) \/ ToolInvalid(r) \/ ToolBreaks(r)
  \/ Summarize(r)
Syncs(r) ==
  \/ ReadMemory(r) \/ CreateMemory(r) \/ WriteMemory(r) \/ MemoryConflict(r)
  \/ FailUnsynced(r) \/ WorkerDies(r) \/ RecoverStale(r)
Decides(r) == Start(r) \/ Cancel(r) \/ Approve(r) \/ Reject(r)

Next ==
  \/ \E r \in Runs : Thinks(r) \/ Acts(r) \/ Syncs(r) \/ Decides(r)
  \/ \E r, q \in Runs : Retry(r, q)
  \/ \E e \in Entities : DeleteEntity(e)
  \/ ResetMemory

Spec == Init /\ [][Next]_vars

-----------------------------------------------------------------------------
(* Properties. *)

TypeOK ==
  /\ \A r \in Runs :
       /\ run[r].status \in Statuses
       /\ run[r].scope \in ScopeType
       /\ run[r].entities \subseteq Entities /\ run[r].links \subseteq Links
       /\ run[r].attempt \in 1 .. RetryAttempts
       /\ pc[r] \in Pcs
       /\ call[r] \in Calls \cup {None}
       /\ sync[r].then \in {"think", "over"}
  /\ graph \subseteq Entities

\* The model is sent back to plan again at most DuplicateReadReplanLimit times
\* in a row, whatever it chooses: then the run has failed
\* (_register_duplicate_read_replan and the resets of the counter).
RefusalsBounded ==
  \A r \in Runs : history[r].refused >= DuplicateReadReplanLimit
                   => run[r].status = "failed"

\* A run with a selected scope works only on entities that the user selected or
\* that its create_entity calls have named, and is shown the rows of no others,
\* through retries, deletions and scope extensions (_ensure_scope,
\* _resolve_entity).  Two ways around the scope are part of the claim: naming an
\* entity that exists brings it into the scope, and the results of transforms,
\* the run's own and with get_transform_result any of the project's, show
\* whatever they hold.
ScopeKept ==
  \A r \in Runs : run[r].scope.mode = "selected" =>
    LET granted == history[r].picked \cup history[r].named
    IN  /\ history[r].worked \subseteq granted
        /\ history[r].shown \subseteq granted \cup history[r].told

\* A transform family that brought little in its last runs is not run again:
\* the outcome of every run is counted before the next plan is checked
\* (_record_transform_outcome, _check_action_policy).
WornOutFamiliesRest ==
  \A r \in Runs :
    pc[r] = "executing" /\ call[r].tool = "run_transform"
    => ~WornOut(run[r].outcomes, call[r].family)

\* A model whose choice was refused or invalid is told so by its next prompt
\* (_append_policy_feedback, _clear_policy_feedback, build_messages).
ComplaintsAreHeard ==
  \A r \in Runs :
    pc[r] \in {"think", "asking"} /\ history[r].refused + history[r].missed > 0
    => Prompt(r).feedback # <<>>

\* orchestrator.py:139-303: the two limits above that the loop itself keeps,
\* whatever the model chooses, in well-typed states.
LimitsKept == TypeOK /\ RefusalsBounded /\ WornOutFamiliesRest

\* The memory says of every run that has ended how it ended, and once, also of
\* those that failed after they were completed (update_from_run).  Excepted are
\* the runs it is not told of, which were cancelled, lost their session or
\* worker before the memory was written, or were ended by recover_stale_runs;
\* and all runs once two sessions rewrote it at the same time or it was reset.
MemoryTellsHowRunsEnded ==
  Cardinality(Runs) <= MaxRecentRuns =>
    \A r \in Runs \ disturbed :
      pc[r] = "over" /\ run[r].status \in {"completed", "failed"} =>
        /\ memory # None
        /\ [run |-> r, status |-> run[r].status] \in Range(memory.runs)
        /\ \A i, j \in DOMAIN memory.runs :
             memory.runs[i].run = r /\ memory.runs[j].run = r => i = j
=============================================================================
