---------------------------- MODULE AgentRuntime ----------------------------
(***************************************************************************)
(* The AI Investigator runtime of one project: the agent_runs and          *)
(* agent_steps tables, the worker processes that claim and execute steps   *)
(* (agent/orchestrator.py, agent/store.py) and the API requests that       *)
(* start, retry, cancel, approve and reject (api/agent.py).                *)
(*                                                                         *)
(* One action is one database commit together with the reads that follow   *)
(* it up to the next await on the outside world.  What a session read      *)
(* earlier stays in worker[w] or request[u] and may be out of date when    *)
(* it is used: no statement of the program re-checks a status before it    *)
(* writes, except the claim.                                               *)
(***************************************************************************)
EXTENDS Integers, FiniteSets

CONSTANTS
  Runs,           \* identities of the agent_runs rows the project may get
  Workers,        \* run_worker.py processes
  Users,          \* concurrently open API requests
  Tools,          \* tool calls the model may ask for: a tool with its inputs
  ReadOnlyTools,  \* those of AgentOrchestrator.READ_ONLY_TOOLS
  GatedTools,     \* those whose definition says requires_approval
  Transforms,     \* the run_transform calls, which max_transforms counts
  MaxSteps,       \* budget.max_steps
  MaxTransforms,  \* budget.max_transforms
  ActiveIndex,    \* TRUE: the Alembic schema, FALSE: the one SQLite creates
  Untimely,       \* TRUE: a claim may expire while its worker is still busy
  MaxRows,        \* bound of the model: agent_steps rows per run
  MaxCrashes,     \* bound of the model: process crashes
  None            \* the SQL NULL

ASSUME ToolsAssumption ==
  /\ ReadOnlyTools \subseteq Tools
  /\ GatedTools \subseteq Tools
  /\ Transforms \subseteq GatedTools
  /\ ReadOnlyTools \cap GatedTools = {}
  /\ Tools \cap {"think", "summary", "tool_result"} = {}

ASSUME BoundsAssumption ==
  /\ MaxSteps \in Nat /\ MaxTransforms \in Nat
  /\ MaxRows \in Nat \ {0} /\ MaxCrashes \in Nat
  /\ Untimely \in BOOLEAN /\ ActiveIndex \in BOOLEAN

ASSUME NoneAssumption ==
  None \notin Workers \cup Tools \cup Runs \cup (Runs \X (1 .. MaxRows))

VARIABLES
  run,      \* agent_runs
  step,     \* agent_steps, by run and step_number (a unique pair)
  worker,   \* each worker: where it is, and what its session remembers
  request,  \* each API request: where it is, and what its session remembers
  granted,  \* history: the steps for which an approval was committed
  execs,    \* history: how often the tool of a step was really invoked
  crashes   \* how many crashes so far

vars == <<run, step, worker, request, granted, execs, crashes>>

-----------------------------------------------------------------------------
(* The two tables. *)

Numbers == 1 .. MaxRows
Rows == Runs \X Numbers

ActiveStatuses   == {"pending", "running", "paused"}
RunnableStatuses == {"pending", "running"}
TerminalStatuses == {"completed", "failed", "cancelled"}
RunStatuses      == {"absent"} \cup ActiveStatuses \cup TerminalStatuses

ClaimableStatuses == {"pending", "approved"}
OpenStatuses      == {"pending", "running", "approved", "waiting_approval"}
StepStatuses      == {"absent", "rejected", "completed", "failed"}
                       \cup OpenStatuses
StepTypes         == {"think", "tool_call", "tool_result", "summary"}
Decisions         == {"none", "approved", "rejected"}

NoRun == [status |-> "absent", used |-> 0, transforms |-> 0]
NoRow == [type |-> "think", status |-> "absent", tool |-> None,
          decision |-> "none", worker |-> None, stale |-> FALSE]

NewRowSwapped(type, status, tool) ==
  [NoRow EXCEPT !.type = status, !.status = type, !.tool = tool]
NewRow(type, status, tool) ==
  [NoRow EXCEPT !.type = type, !.status = status, !.tool = tool]

Exists(x)   == step[x].status # "absent"
RowsOf(r)   == {n \in Numbers : Exists(<<r, n>>)}
Active(r)   == run[r].status \in ActiveStatuses
Runnable(r) == run[r].status \in RunnableStatuses

\* next_step_number: one more than the largest step_number of the run.
NextNumber(r) == CHOOSE n \in 1 .. (MaxRows + 1) :
                   /\ \A m \in RowsOf(r) : m < n
                   /\ n = 1 \/ (n - 1) \in RowsOf(r)

IndexAllowsAll(r) == TRUE
\* uq_agent_runs_active_per_project, where the schema has it, lets run r be
\* written as active.
IndexAllows(r) == ActiveIndex => \A q \in Runs \ {r} : ~Active(q)

\* An ORM session writes a column only when the new value differs from the
\* one it loaded: the row keeps what another session stored meanwhile.
Written(loaded, new, stored) == IF loaded = new THEN stored ELSE new

-----------------------------------------------------------------------------
(* What the processes remember. *)

Busy == {"claimed", "starting", "executing", "ran", "invalid", "create",
         "failing"}
FollowUps == {"none", "think", "summary", "tool_result"} \cup Tools

IdleWorker ==
  [pc |-> "idle", row |-> None, status |-> "absent", used |-> 0,
   transforms |-> 0, decision |-> "none", prior |-> {}, next |-> "none",
   number |-> 0]

IdleRequest == [pc |-> "idle", run |-> None, row |-> None,
                status |-> "absent"]

RunOf(w)  == worker[w].row[1]
Row(w)    == step[worker[w].row]
IsBusy(w) == worker[w].pc \in Busy
WorksOn(w, x) == IsBusy(w) /\ worker[w].row = x

\* The numbers of the other tool calls of the run that are completed.
CompletedCalls(x) ==
  {n \in Numbers \ {x[2]} : /\ step[<<x[1], n>>].type = "tool_call"
                            /\ step[<<x[1], n>>].status = "completed"}

PolicyWithoutTransformRule(r, prior, t) ==
  LET same == {n \in prior : step[<<r, n>>].tool = t}
  IN  IF t \in ReadOnlyTools /\ same # {} THEN "replan"
      ELSE IF Cardinality(same) >= 2 THEN "fail" ELSE "allow"
\* _check_action_policy: what is to be done with a call of tool t, given the
\* completed calls its caller listed.  (Exhausted families need three runs of
\* one transform and are the subject of module InvestigatorLoop.)
PolicyMode(r, prior, t) ==
  LET same == {n \in prior : step[<<r, n>>].tool = t}
  IN  IF t \in Transforms /\ same # {} THEN "fail"
      ELSE IF t \in ReadOnlyTools /\ same # {} THEN "replan"
      ELSE IF Cardinality(same) >= 2 THEN "fail"
      ELSE "allow"

Init ==
  /\ run = [r \in Runs |-> NoRun]
  /\ step = [x \in Rows |-> NoRow]
  /\ worker = [w \in Workers |-> IdleWorker]
  /\ request = [u \in Users |-> IdleRequest]
  /\ granted = {}
  /\ execs = [x \in Rows |-> 0]
  /\ crashes = 0

-----------------------------------------------------------------------------
(* Claiming a step. *)

ClaimableOfAnyRun(x) == step[x].status \in ClaimableStatuses
ClaimableWhenPending(x) == step[x].status = "pending" /\ Runnable(x[1])
Claimable(x) == step[x].status \in ClaimableStatuses /\ Runnable(x[1])
AbandonedAtOnce(x) == step[x].status = "running" /\ Runnable(x[1])
Abandoned(x) == step[x].status = "running" /\ step[x].stale /\ Runnable(x[1])

\* Pending and approved steps come first, oldest first; only then the
\* running ones whose claim is older than the timeout.
NextClaims ==
  LET fresh == {x \in Rows : Claimable(x)}
  IN  IF fresh # {}
      THEN {x \in fresh : \A y \in fresh : x[1] = y[1] => x[2] <= y[2]}
      ELSE {x \in Rows : Abandoned(x)}

\* claim_next_runnable_step: SELECT ... FOR UPDATE SKIP LOCKED and the UPDATE
\* are one transaction.
Claim(w) ==
  /\ worker[w].pc = "idle"
  /\ \E x \in NextClaims :
       /\ step' = [step EXCEPT ![x].status = "running", ![x].worker = w,
                               ![x].stale = FALSE]
       /\ worker' = [worker EXCEPT ![w] =
                       [IdleWorker EXCEPT !.pc = "claimed", !.row = x]]
  /\ UNCHANGED <<run, request, granted, execs, crashes>>

\* The claim of a running step passes the timeout.  Unless Untimely, that
\* happens only when no live worker is working on the step any more.
Expire(x) ==
  /\ step[x].status = "running" /\ ~step[x].stale
  /\ Untimely \/ \A w \in Workers : ~WorksOn(w, x)
  /\ step' = [step EXCEPT ![x].stale = TRUE]
  /\ UNCHANGED <<run, worker, request, granted, execs, crashes>>

-----------------------------------------------------------------------------
(* Executing the claimed step. *)

\* The session after a commit of run r: the row as it is now, except that
\* everything read for the decision just taken is forgotten.
Goto(w, pc) == [IdleWorker EXCEPT !.pc = pc, !.row = worker[w].row]

\* An exception while a commit failed leaves the session unusable: _fail_run
\* fails too, the exception reaches poll_orchestrator and only a log is left.
Abort(w) == worker' = [worker EXCEPT ![w] = IdleWorker]

\* A commit is followed by refreshes, by the project memory and by an event;
\* when one of them raises, the run is failed over what has been committed.
Astray(w) ==
  worker' = [worker EXCEPT ![w] = [Goto(w, "failing") EXCEPT
                                     !.status = run'[RunOf(w)].status]]

OverBudgetLate(x) ==
  \/ run[x[1]].used > MaxSteps
  \/ step[x].tool \in Transforms /\ run[x[1]].transforms >= MaxTransforms
\* _enforce_budgets, max_steps and max_transforms; the runtime limit is a
\* nondeterministic choice of the caller.
OverBudget(x) ==
  \/ run[x[1]].used >= MaxSteps
  \/ step[x].tool \in Transforms /\ run[x[1]].transforms >= MaxTransforms

Remember(w, pc) ==
  LET x == worker[w].row
  IN  [worker[w] EXCEPT !.pc = pc,
                        !.status = run'[x[1]].status,
                        !.used = run'[x[1]].used,
                        !.transforms = run'[x[1]].transforms,
                        !.prior = IF pc = "executing" THEN CompletedCalls(x)
                                  ELSE {}]

\* process_step opens a session of its own, reads the step and the run again
\* and leaves when the step is no longer this worker's.
Load(w) ==
  /\ worker[w].pc = "claimed"
  /\ UNCHANGED <<run, step, request, granted, execs, crashes>>
  /\ LET x == worker[w].row
     IN  \/ /\ Row(w).worker # w \/ Row(w).status # "running"
            /\ Abort(w)
         \/ /\ Row(w).worker = w /\ Row(w).status = "running"
            /\ \E outOfTime \in BOOLEAN :
                 worker' = [worker EXCEPT ![w] =
                   [Remember(w, IF outOfTime \/ OverBudget(x) THEN "failing"
                                ELSE IF run[x[1]].status = "pending"
                                     THEN "starting" ELSE "executing")
                    EXCEPT !.decision = step[x].decision]]

\* The run read as pending is written as running.
StartRun(w) ==
  /\ worker[w].pc = "starting"
  /\ IF IndexAllows(RunOf(w))
     THEN /\ run' = [run EXCEPT ![RunOf(w)].status = "running"]
          /\ \/ worker' = [worker EXCEPT ![w] = Remember(w, "executing")]
             \/ Astray(w)
     ELSE UNCHANGED run /\ Abort(w)
  /\ UNCHANGED <<step, request, granted, execs, crashes>>

\* _fail_run.
Fail(w) ==
  /\ worker[w].pc = "failing"
  /\ step' = [step EXCEPT ![worker[w].row].status = "failed",
                          ![worker[w].row].stale = FALSE]
  /\ run' = [run EXCEPT ![RunOf(w)].status =
                           Written(worker[w].status, "failed", @)]
  /\ Abort(w)
  /\ UNCHANGED <<request, granted, execs, crashes>>

\* A step is committed as completed and the session's usage, n steps and m
\* transforms further, replaces the stored one.
Complete(w, n, m) ==
  /\ step' = [step EXCEPT ![worker[w].row].status = "completed",
                          ![worker[w].row].stale = FALSE]
  /\ run' = [run EXCEPT ![RunOf(w)].used = worker[w].used + n,
                        ![RunOf(w)].transforms = worker[w].transforms + m]

\* The worker goes on to create a row of kind next, whose number it has read.
GoCreate(w, next) ==
  worker' = [worker EXCEPT ![w] =
              [Goto(w, "create") EXCEPT !.next = next,
                                        !.number = NextNumber(RunOf(w))]]

\* _execute_think_step: what the answer of the model leads to.
ThinkOutcomes(w) ==
  {"summary"} \cup {t \in Tools :
                     PolicyMode(RunOf(w), worker[w].prior, t) = "allow"}
  \cup (IF \E t \in Tools :
             PolicyMode(RunOf(w), worker[w].prior, t) = "replan"
        THEN {"think"} ELSE {})

Executing(w, type) == worker[w].pc = "executing" /\ Row(w).type = type

Think(w) ==
  /\ Executing(w, "think")
  /\ Complete(w, 1, 0)
  /\ \E next \in ThinkOutcomes(w) : GoCreate(w, next)
  /\ UNCHANGED <<request, granted, execs, crashes>>

\* An answer that names no known tool, or one the policy fails, is found out
\* only when the step is committed as completed.
ThinkAstray(w) ==
  /\ Executing(w, "think")
  /\ Complete(w, 1, 0)
  /\ Astray(w)
  /\ UNCHANGED <<request, granted, execs, crashes>>

\* No answer: context, credentials or provider raised.
ThinkError(w) ==
  /\ Executing(w, "think")
  /\ worker' = [worker EXCEPT ![w].pc = "failing", ![w].prior = {}]
  /\ UNCHANGED <<run, step, request, granted, execs, crashes>>

\* The row is inserted unless its number was taken meanwhile (the unique index
\* on run_id, step_number).  A tool_result is followed by a new think step.
Create(w) ==
  LET next == worker[w].next
      x == <<RunOf(w), worker[w].number>>
  IN  /\ worker[w].pc = "create" /\ worker[w].number <= MaxRows
      /\ UNCHANGED <<run, request, granted, execs, crashes>>
      /\ IF Exists(x)
         THEN UNCHANGED step /\ Abort(w)
         ELSE /\ step' = [step EXCEPT ![x] =
                   CASE next = "tool_result" -> NewRow(next, "completed", None)
                     [] next \in Tools       -> NewRow("tool_call", "pending", next)
                     [] OTHER                -> NewRow(next, "pending", None)]
              /\ \/ worker' = [worker EXCEPT ![w] =
                      IF next = "tool_result"
                      THEN [worker[w] EXCEPT !.next = "think",
                                             !.number = worker[w].number + 1]
                      ELSE IdleWorker]
                 \/ Astray(w)

\* _execute_tool_call_step: the policy is asked again, about the calls
\* completed by now; any answer but "allow" fails the run, and so does an
\* exception before the answer is used.
Allowed(w) ==
  PolicyMode(RunOf(w), worker[w].prior, Row(w).tool) = "allow"

UnapprovedCreation(w) ==
  Row(w).tool \in GatedTools \ Transforms /\ worker[w].decision # "approved"
Unapproved(w) == Row(w).tool \in GatedTools /\ worker[w].decision # "approved"

ToolError(w) ==
  /\ Executing(w, "tool_call")
  /\ worker' = [worker EXCEPT ![w].pc = "failing", ![w].prior = {}]
  /\ UNCHANGED <<run, step, request, granted, execs, crashes>>

\* A gated call without a decision is handed to the user and the run paused,
\* in one commit; one whose rejection was read leaves the step as it is.
AskApproval(w) ==
  /\ Executing(w, "tool_call") /\ Allowed(w) /\ Unapproved(w)
  /\ IF worker[w].status = "paused" \/ IndexAllows(RunOf(w))
     THEN /\ run' = [run EXCEPT ![RunOf(w)].status =
                       Written(worker[w].status, "paused", @)]
          /\ step' = IF worker[w].decision = "rejected" THEN step
                     ELSE [step EXCEPT ![worker[w].row] =
                            [@ EXCEPT !.status = "waiting_approval",
                                      !.worker = None, !.stale = FALSE,
                                      !.decision = "none"]]
          /\ Abort(w) \/ Astray(w)
     ELSE UNCHANGED <<run, step>> /\ Abort(w)
  /\ UNCHANGED <<request, granted, execs, crashes>>

\* The tool runs, with commits of its own, and only then is the step looked at
\* again.  A 400 or 404 is raised before anything is done; another exception
\* may come after it.  One too many of the first kind is an exception, too.
Execute(w) ==
  /\ Executing(w, "tool_call") /\ Allowed(w) /\ ~Unapproved(w)
  /\ \E pc \in {"ran", "invalid", "failing"} :
       /\ worker' = [worker EXCEPT ![w].pc = pc, ![w].prior = {}]
       /\ execs' = IF pc = "invalid" THEN execs
                   ELSE [execs EXCEPT ![worker[w].row] = @ + 1]
  /\ UNCHANGED <<run, step, request, granted, crashes>>

ToolRan(w) ==
  /\ worker[w].pc = "ran"
  /\ Complete(w, 1, IF Row(w).tool \in Transforms THEN 1 ELSE 0)
  /\ GoCreate(w, "tool_result") \/ Astray(w)
  /\ UNCHANGED <<request, granted, execs, crashes>>

\* _replan_after_tool_validation_error: the step counts as completed but not
\* as a step used.
ToolInvalid(w) ==
  /\ worker[w].pc = "invalid"
  /\ Complete(w, 0, 0)
  /\ GoCreate(w, "tool_result") \/ Astray(w)
  /\ UNCHANGED <<request, granted, execs, crashes>>

SummarizeRunOnly(w) ==
  /\ Executing(w, "summary")
  /\ run' = [run EXCEPT ![RunOf(w)].status = "completed"]
  /\ Abort(w)
  /\ UNCHANGED <<step, request, granted, execs, crashes>>

\* The summary step completes the run, whatever its status is by now.
Summarize(w) ==
  /\ Executing(w, "summary")
  /\ step' = [step EXCEPT ![worker[w].row].status = "completed",
                          ![worker[w].row].stale = FALSE]
  /\ run' = [run EXCEPT
               ![RunOf(w)].status = Written(worker[w].status, "completed", @),
               ![RunOf(w)].used = worker[w].used + 1,
               ![RunOf(w)].transforms = worker[w].transforms]
  /\ Abort(w) \/ Astray(w)
  /\ UNCHANGED <<request, granted, execs, crashes>>

-----------------------------------------------------------------------------
(* Crashes, and the recovery a worker does once, when it starts. *)

Crash(w) ==
  /\ worker[w].pc # "down" /\ crashes < MaxCrashes
  /\ crashes' = crashes + 1
  /\ worker' = [worker EXCEPT ![w] = [IdleWorker EXCEPT !.pc = "down"]]
  /\ UNCHANGED <<run, step, request, granted, execs>>

\* recover_stale_claims.
RecoverClaims(w) ==
  /\ worker[w].pc = "down"
  /\ step' = [x \in Rows |->
       IF step[x].status = "running" /\ step[x].stale
       THEN [step[x] EXCEPT !.status = "pending", !.worker = None,
                            !.stale = FALSE]
       ELSE step[x]]
  /\ worker' = [worker EXCEPT ![w] = [IdleWorker EXCEPT !.pc = "booting"]]
  /\ UNCHANGED <<run, request, granted, execs, crashes>>

\* recover_stale_runs: of the running runs without an open step, those not
\* updated for the timeout fail.
Stalled(r) == /\ run[r].status = "running"
              /\ \A n \in Numbers : step[<<r, n>>].status \notin OpenStatuses

MayBeStale(r) ==
  Untimely \/ \A w \in Workers : ~(IsBusy(w) /\ RunOf(w) = r)

RecoverRuns(w) ==
  /\ worker[w].pc = "booting"
  /\ \E S \in SUBSET {r \in Runs : Stalled(r) /\ MayBeStale(r)} :
       run' = [r \in Runs |-> IF r \in S
                              THEN [run[r] EXCEPT !.status = "failed"]
                              ELSE run[r]]
  /\ worker' = [worker EXCEPT ![w] = IdleWorker]
  /\ UNCHANGED <<step, request, granted, execs, crashes>>

-----------------------------------------------------------------------------
(* The API requests of api/agent.py. *)

Done(u) == request' = [request EXCEPT ![u] = IdleRequest]

\* start_agent_run finds no active run (otherwise: 409).
BeginStart(u) ==
  /\ request[u].pc = "idle"
  /\ \A r \in Runs : ~Active(r)
  /\ request' = [request EXCEPT ![u].pc = "start"]
  /\ UNCHANGED <<run, step, worker, granted, execs, crashes>>

\* retry_agent_run of a finished run goes on like a start.
BeginRetry(u) ==
  /\ \E r \in Runs : run[r].status \in TerminalStatuses
  /\ BeginStart(u)

CreateRun(u) ==
  /\ request[u].pc = "start"
  /\ \E r \in Runs :
       /\ run[r].status = "absent"
       /\ IF IndexAllows(r)
          THEN /\ run' = [run EXCEPT ![r].status = "pending"]
               /\ request' = [request EXCEPT ![u].pc = "seed", ![u].run = r]
          ELSE UNCHANGED run /\ Done(u)
  /\ UNCHANGED <<step, worker, granted, execs, crashes>>

\* The first think step, in a commit of its own.
SeedThink(u) ==
  /\ request[u].pc = "seed"
  /\ step' = [step EXCEPT ![<<request[u].run, 1>>] =
                NewRow("think", "pending", None)]
  /\ Done(u)
  /\ UNCHANGED <<run, worker, granted, execs, crashes>>

BeginCancel(u) ==
  /\ request[u].pc = "idle"
  /\ \E r \in Runs :
       /\ Active(r)
       /\ request' = [request EXCEPT ![u].pc = "cancel", ![u].run = r]
  /\ UNCHANGED <<run, step, worker, granted, execs, crashes>>

CommitCancel(u) ==
  /\ request[u].pc = "cancel"
  /\ run' = [run EXCEPT ![request[u].run].status = "cancelled"]
  /\ Done(u)
  /\ UNCHANGED <<step, worker, granted, execs, crashes>>

\* approve_agent_step and reject_agent_step load the run and a step that
\* waits for approval.
BeginDecision(u, verdict) ==
  /\ request[u].pc = "idle"
  /\ \E x \in Rows :
       /\ step[x].status = "waiting_approval"
       /\ request' = [request EXCEPT ![u] =
            [pc |-> verdict, run |-> x[1], row |-> x,
             status |-> run[x[1]].status]]
  /\ UNCHANGED <<run, step, worker, granted, execs, crashes>>

CommitApprovalOnly(u) ==
  /\ request[u].pc = "approve"
  /\ step' = [step EXCEPT ![request[u].row] =
       [@ EXCEPT !.status = "approved", !.decision = "approved", !.stale = FALSE]]
  /\ granted' = granted \cup {request[u].row}
  /\ Done(u)
  /\ UNCHANGED <<run, worker, execs, crashes>>

CommitApproval(u) ==
  /\ request[u].pc = "approve"
  /\ step' = [step EXCEPT ![request[u].row] =
       [@ EXCEPT !.status = "approved", !.decision = "approved", !.stale = FALSE]]
  /\ granted' = granted \cup {request[u].row}
  /\ IF request[u].status = "paused"
     THEN request' = [request EXCEPT ![u].pc = "resume"]
     ELSE Done(u)
  /\ UNCHANGED <<run, worker, execs, crashes>>

CommitRejection(u) ==
  /\ request[u].pc = "reject"
  /\ step' = [step EXCEPT ![request[u].row] =
       [@ EXCEPT !.status = "rejected", !.decision = "rejected", !.stale = FALSE]]
  /\ IF request[u].status \in {"cancelled", "paused"}
     THEN Done(u)
     ELSE request' = [request EXCEPT ![u].pc = "pause"]
  /\ UNCHANGED <<run, worker, granted, execs, crashes>>

\* The run as the request loaded it is written back as pending, or paused.
CommitRunStatus(u) ==
  /\ request[u].pc \in {"resume", "pause"}
  /\ LET r == request[u].run
         status == IF request[u].pc = "resume" THEN "pending" ELSE "paused"
     IN  run' = IF IndexAllows(r) THEN [run EXCEPT ![r].status = status]
                ELSE run
  /\ Done(u)
  /\ UNCHANGED <<step, worker, granted, execs, crashes>>

\* The API process dies between two commits of a request.
RequestDies(u) ==
  /\ request[u].pc # "idle" /\ crashes < MaxCrashes
  /\ crashes' = crashes + 1
  /\ Done(u)
  /\ UNCHANGED <<run, step, worker, granted, execs>>

-----------------------------------------------------------------------------
(* process_step after the claim, up to the next poll. *)
Process(w) ==
  \/ Load(w) \/ StartRun(w) \/ Fail(w)
  \/ Think(w) \/ ThinkAstray(w) \/ ThinkError(w)
  \/ ToolError(w) \/ AskApproval(w) \/ Execute(w)
  \/ ToolRan(w) \/ ToolInvalid(w) \/ Create(w) \/ Summarize(w)

Restart(w) == RecoverClaims(w) \/ RecoverRuns(w)

\* What a request that was let in still has to do.
Proceed(u) ==
  \/ CreateRun(u) \/ SeedThink(u) \/ CommitCancel(u)
  \/ CommitApproval(u) \/ CommitRejection(u) \/ CommitRunStatus(u)

Ask(u) ==
  \/ BeginStart(u) \/ BeginRetry(u) \/ BeginCancel(u)
  \/ BeginDecision(u, "approve") \/ BeginDecision(u, "reject")

Next ==
  \/ \E w \in Workers : Claim(w) \/ Process(w) \/ Crash(w) \/ Restart(w)
  \/ \E x \in Rows : Expire(x)
  \/ \E u \in Users : Ask(u) \/ Proceed(u) \/ RequestDies(u)

Spec == Init /\ [][Next]_vars

\* Workers poll forever, a started request is carried through, time passes;
\* what users ask for, and crashes, are up to the environment.
Fairness ==
  /\ \A w \in Workers : /\ WF_vars(Claim(w)) /\ WF_vars(Process(w))
                         /\ WF_vars(Restart(w))
  /\ \A u \in Users : WF_vars(Proceed(u))
  /\ \A x \in Rows : WF_vars(Expire(x))

FairSpec == Spec /\ Fairness

-----------------------------------------------------------------------------
(* What the runtime promises. *)

RunType == [status : RunStatuses, used : Nat, transforms : Nat]

StepType ==
  [type : StepTypes, status : StepStatuses, tool : Tools \cup {None},
   decision : Decisions, worker : Workers \cup {None}, stale : BOOLEAN]

WorkerState ==
  [pc : Busy \cup {"idle", "down", "booting"}, row : Rows \cup {None},
   status : RunStatuses, used : Nat, transforms : Nat,
   decision : Decisions, prior : SUBSET Numbers, next : FollowUps,
   number : 0 .. (MaxRows + 1)]

RequestState ==
  [pc : {"idle", "start", "seed", "cancel", "approve", "reject", "resume",
         "pause"},
   run : Runs \cup {None}, row : Rows \cup {None}, status : RunStatuses]

\* A busy worker has a step, and one about to create a row knows which.
WorkerType ==
  {v \in WorkerState :
     /\ v.pc \in Busy => v.row \in Rows
     /\ v.pc = "create" => /\ v.number # 0
                           /\ v.next \in {"think", "summary", "tool_result"}
                                           \cup Tools}

\* A request past its checks knows its run, and a decision its step.
RequestType ==
  {q \in RequestState :
     /\ q.pc \notin {"idle", "start"} => q.run \in Runs
     /\ q.pc \in {"approve", "reject"} => q.row \in Rows}

\* Every variable has its type: the two tables, and what each process
\* remembers where it is.
TypeOK ==
  /\ run \in [Runs -> RunType]
  /\ step \in [Rows -> StepType]
  /\ worker \in [Workers -> WorkerType]
  /\ request \in [Users -> RequestType]
  /\ granted \subseteq Rows
  /\ execs \in [Rows -> Nat]
  /\ crashes \in Nat

\* A gated tool was only ever invoked for a step somebody approved, however
\* workers, claims, decisions and crashes interleave.
GatedCallsWereApproved ==
  \A x \in Rows : execs[x] > 0 /\ step[x].tool \in GatedTools => x \in granted

\* Seen as the calls of its steps, the runtime does what GatedCalls promises: a
\* step is one call for ever, an approval is of a call that needs one, and
\* whoever carries it out, and however late, does so after that.
Promise == INSTANCE GatedCalls
  WITH Calls <- Rows, tool <- [x \in Rows |-> step[x].tool],
       approved <- granted, carriedOut <- execs
CallsAreGated == Promise!Spec

\* Why: an approval that a row or a session shows was granted, and a row that
\* does not exist yet has no history.
ApprovalInv ==
  /\ \A x \in Rows : step[x].decision = "approved" => x \in granted
  /\ \A w \in Workers : IsBusy(w) /\ worker[w].decision = "approved" =>
                          worker[w].row \in granted
  /\ \A x \in Rows : ~Exists(x) => step[x].type # "tool_call" /\ execs[x] = 0
  /\ GatedCallsWereApproved

\* With the index a project never has two active investigations, although every
\* check for it (start, retry) and every late status write is made outside a
\* lock; every write of an active status goes through IndexAllows.
OneActiveRun ==
  \A q, r \in Runs : Active(q) /\ Active(r) => q = r

\* A run reported as completed has a completed summary step.
CompletedRunsAreSummarized ==
  \A r \in Runs : run[r].status = "completed" =>
    \E n \in Numbers : /\ step[<<r, n>>].type = "summary"
                        /\ step[<<r, n>>].status = "completed"

\* Somebody still works with run r as it was before it was cancelled.
Outdated(r) ==
  \/ \E w \in Workers : IsBusy(w) /\ RunOf(w) = r
  \/ \E u \in Users :
       /\ request[u].run = r
       /\ \/ request[u].pc \in {"seed", "cancel", "resume", "pause"}
          \/ /\ request[u].pc \in {"approve", "reject"}
             /\ request[u].status # "cancelled"

\* A cancelled run that nobody is busy with stays cancelled, and nobody takes
\* it up again: not by a claim, not by a late decision on a waiting step.
CancelSticksOnceQuiet ==
  [][\A r \in Runs : run[r].status = "cancelled" /\ ~Outdated(r) =>
       run'[r].status = "cancelled" /\ ~Outdated(r)']_vars

\* What will yet act in run r: its open steps, the workers about to create its
\* next step and the request about to create its first.
Threads(r) ==
  {<<r, n>> : n \in {m \in Numbers : step[<<r, m>>].status \in OpenStatuses}}
  \cup {w \in Workers : worker[w].pc = "create" /\ RunOf(w) = r}
  \cup {u \in Users : request[u].pc = "seed" /\ request[u].run = r}

\* An investigation never forks: one step at a time is open or being created.
SingleThreaded == \A r \in Runs : Cardinality(Threads(r)) <= 1

\* Two workers are never on the same step, except that one which asked for an
\* approval, and failed right after, has yet to fail the step when it may be
\* approved already and another's.
ExclusiveExecution ==
  \A v, w \in Workers :
    v # w /\ IsBusy(v) /\ IsBusy(w) /\ worker[v].row = worker[w].row =>
      "failing" \in {worker[v].pc, worker[w].pc} /\ worker[v].row \in granted

\* An investigation is executed by one worker, one step after the other.
OneAtATime == SingleThreaded /\ ExclusiveExecution

\* The recorded usage stays within the budget.
BudgetKept ==
  \A r \in Runs : run[r].used <= MaxSteps /\ run[r].transforms <= MaxTransforms

\* The completed calls of tool t in run r.
Completed(r, t) ==
  {n \in Numbers : step[<<r, n>>].status = "completed" /\ step[<<r, n>>].tool = t}

\* No transform is completed twice with the same inputs in one run.
NoTransformTwice ==
  \A r \in Runs : \A t \in Transforms : Cardinality(Completed(r, t)) <= 1

\* As long as no process died, a paused run has a step a user can decide about,
\* was stopped by a rejection, or is being resumed.
PausedIsAccountedFor ==
  \A r \in Runs : run[r].status = "paused" /\ crashes = 0 =>
    \/ \E n \in Numbers : \/ step[<<r, n>>].status = "waiting_approval"
                          \/ step[<<r, n>>].decision = "rejected"
    \/ \E u \in Users : request[u].pc = "resume" /\ request[u].run = r

\* A run's final or halting status is backed by its steps.
StatusesAreBacked == PausedIsAccountedFor /\ CompletedRunsAreSummarized

\* Every step is executed at most once.
ExecutedOnce == \A x \in Rows : execs[x] <= 1

\* An approved step has failed.
ApprovalLost(r) ==
  \E n \in Numbers : <<r, n>> \in granted /\ step[<<r, n>>].status = "failed"

\* As long as no process dies, a runnable investigation does not stay so for
\* ever: it ends, or waits for its user.  One way is left: the worker that
\* asked for an approval fails the step and the run between the two commits of
\* the approval, and the second leaves the run pending with nothing to do.
RunsEndOrWait ==
  \A r \in Runs : Runnable(r) /\ crashes = 0 ~>
    \/ ~Runnable(r) \/ crashes > 0
    \/ ApprovalLost(r) /\ Threads(r) = {}
=============================================================================
