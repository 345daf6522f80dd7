------------------------- MODULE AgentRuntimeProofs -------------------------
(***************************************************************************)
(* Proofs about AgentRuntime, for any runs, workers, users, tools, budgets *)
(* and either schema: the typing invariant, the approval gate, the         *)
(* uniqueness of the active run under the unique index, the refinement of  *)
(* GatedCalls, and that a cancelled run stays cancelled once it is quiet.  *)
(* The last part is about claims in time and one user at a time: one       *)
(* thread per run, budgets, no transform twice, halts that are backed.     *)
(***************************************************************************)
EXTENDS AgentRuntime, FiniteSetTheorems, TLAPS

-----------------------------------------------------------------------------
(* The number the next row gets. *)

\* next_step_number is defined whatever rows the run has: the least number
\* above all of them is 1 or the successor of one.
LEMMA NextNumberType ==
  ASSUME NEW r \in Runs
  PROVE  NextNumber(r) \in 1 .. (MaxRows + 1)
<1> DEFINE Above == {n \in 1 .. (MaxRows + 1) : \A m \in RowsOf(r) : m < n}
<1>1. MaxRows \in Nat \ {0}
  BY BoundsAssumption
<1>2. Above \subseteq Nat /\ MaxRows + 1 \in Above
  BY <1>1 DEF RowsOf, Numbers
<1>3. PICK n \in Above : \A k \in Above : ~ (<<k, n>> \in OpToRel(<, Nat))
  <2> HIDE DEF Above
  <2> QED  BY <1>2, NatLessThanWellFounded, WFMin
<1>4. \A k \in Above : ~ (k < n)
  BY <1>2, <1>3 DEF OpToRel
<1>5. n = 1 \/ (n - 1) \in RowsOf(r)
  <2> SUFFICES ASSUME n # 1  PROVE (n - 1) \in RowsOf(r)
    OBVIOUS
  <2>1. n - 1 \in 1 .. (MaxRows + 1) /\ n - 1 < n
    BY <1>1
  <2>2. n - 1 \notin Above
    BY <2>1, <1>4
  <2>3. PICK m \in RowsOf(r) : ~ (m < n - 1)
    BY <2>1, <2>2
  <2>4. m \in Numbers /\ m < n
    BY DEF RowsOf
  <2>5. m = n - 1
    BY <1>1, <2>1, <2>3, <2>4 DEF Numbers
  <2> QED  BY <2>5
<1> QED  BY <1>5 DEF NextNumber

-----------------------------------------------------------------------------
(* Types. *)

LEMMA Shapes ==
  /\ NoRun \in RunType
  /\ NoRow \in StepType
  /\ IdleWorker \in WorkerType
  /\ IdleRequest \in RequestType
<1>1. NoRun \in RunType /\ NoRow \in StepType
  BY DEF NoRun, RunType, RunStatuses, NoRow, StepType, StepTypes,
         StepStatuses, Decisions
<1>2. IdleWorker \in WorkerType
  BY BoundsAssumption
     DEF IdleWorker, WorkerType, WorkerState, Busy, FollowUps, RunStatuses,
         Decisions
<1>3. IdleRequest \in RequestType
  BY DEF IdleRequest, RequestType, RequestState, RunStatuses
<1> QED  BY <1>1, <1>2, <1>3

LEMMA InitTyped == Init => TypeOK
BY Shapes DEF Init, TypeOK

\* One row, run, worker or request replaced by a well-formed one.
LEMMA RunUpdate ==
  ASSUME run \in [Runs -> RunType], NEW r \in Runs, NEW status \in RunStatuses,
         NEW used \in Nat, NEW transforms \in Nat
  PROVE  /\ [run EXCEPT ![r].status = status] \in [Runs -> RunType]
         /\ [run EXCEPT ![r].used = used, ![r].transforms = transforms]
              \in [Runs -> RunType]
BY DEF RunType

LEMMA StatusUpdate ==
  ASSUME step \in [Rows -> StepType], NEW x \in Rows,
         NEW status \in StepStatuses
  PROVE  [step EXCEPT ![x].status = status, ![x].stale = FALSE]
           \in [Rows -> StepType]
BY DEF StepType

LEMMA WorkerAt ==
  ASSUME TypeOK, NEW w \in Workers
  PROVE  /\ worker[w] \in WorkerState
         /\ IsBusy(w) => worker[w].row \in Rows /\ RunOf(w) \in Runs
         /\ IsBusy(w) => Row(w) \in StepType /\ run[RunOf(w)] \in RunType
BY DEF TypeOK, WorkerType, IsBusy, RunOf, Row, Rows

LEMMA WorkerUpdate ==
  ASSUME TypeOK, NEW w \in Workers, NEW v \in WorkerType
  PROVE  [worker EXCEPT ![w] = v] \in [Workers -> WorkerType]
BY DEF TypeOK

\* A worker that stays on its step.
LEMMA GotoType ==
  ASSUME TypeOK, NEW w \in Workers, worker[w].row \in Rows,
         NEW pc \in Busy \ {"create"}, NEW status \in RunStatuses
  PROVE  /\ [Goto(w, pc) EXCEPT !.status = status] \in WorkerType
         /\ [worker[w] EXCEPT !.pc = pc, !.prior = {}] \in WorkerType
<1>1. IdleWorker \in WorkerState /\ worker[w] \in WorkerState
  BY Shapes, WorkerAt DEF WorkerType
<1>2. [Goto(w, pc) EXCEPT !.status = status] \in WorkerType
  BY <1>1 DEF Goto, WorkerType, WorkerState
<1>3. [worker[w] EXCEPT !.pc = pc, !.prior = {}] \in WorkerType
  BY <1>1 DEF WorkerType, WorkerState
<1> QED  BY <1>2, <1>3

LEMMA AbortTyped ==
  ASSUME TypeOK, NEW w \in Workers, Abort(w)
  PROVE  worker' \in [Workers -> WorkerType]
BY Shapes, WorkerUpdate DEF Abort

\* A worker that fails the run over what it has committed.
LEMMA AstrayGoes ==
  ASSUME NEW w \in Workers, Astray(w)
  PROVE  \E pc, status : worker' = [worker EXCEPT ![w] =
                              [Goto(w, pc) EXCEPT !.status = status]]
BY DEF Astray

LEMMA AstrayTyped ==
  ASSUME TypeOK, NEW w \in Workers, worker[w].row \in Rows,
         run' \in [Runs -> RunType], Astray(w)
  PROVE  worker' \in [Workers -> WorkerType]
<1>1. PICK status : status = run'[RunOf(w)].status
  OBVIOUS
<1>2. status \in RunStatuses /\ "failing" \in Busy \ {"create"}
  BY <1>1 DEF RunOf, Rows, RunType, Busy
<1>3. [Goto(w, "failing") EXCEPT !.status = status] \in WorkerType
  BY <1>2, GotoType
<1> QED  BY <1>1, <1>3, WorkerUpdate DEF Astray

LEMMA GoCreateTyped ==
  ASSUME TypeOK, NEW w \in Workers, IsBusy(w),
         NEW next \in {"think", "summary", "tool_result"} \cup Tools,
         GoCreate(w, next)
  PROVE  worker' \in [Workers -> WorkerType]
<1>1. worker[w].row \in Rows /\ RunOf(w) \in Runs
  BY WorkerAt
<1>2. NextNumber(RunOf(w)) \in 1 .. (MaxRows + 1)
  BY <1>1, NextNumberType
<1>3. IdleWorker \in WorkerState
  BY Shapes DEF WorkerType
<1>4. ASSUME NEW n \in 1 .. (MaxRows + 1)
      PROVE  [Goto(w, "create") EXCEPT !.next = next, !.number = n]
               \in WorkerType
  <2>1. n \in 0 .. (MaxRows + 1) /\ n # 0 /\ next \in FollowUps
        /\ "create" \in Busy
    BY <1>4, BoundsAssumption DEF FollowUps, Busy
  <2> QED  BY <1>1, <1>3, <2>1 DEF Goto, WorkerType, WorkerState
<1> QED  BY <1>2, <1>4, WorkerUpdate DEF GoCreate

LEMMA RememberTyped ==
  ASSUME TypeOK, NEW w \in Workers, IsBusy(w), run' \in [Runs -> RunType],
         NEW pc \in Busy \ {"create"}, NEW decision \in Decisions
  PROVE  /\ Remember(w, pc) \in WorkerType
         /\ [Remember(w, pc) EXCEPT !.decision = decision] \in WorkerType
<1>1. worker[w] \in WorkerState /\ worker[w].row \in Rows
  BY WorkerAt
<1>2. run'[worker[w].row[1]] \in RunType
  BY <1>1 DEF Rows
<1>3. CompletedCalls(worker[w].row) \in SUBSET Numbers
  BY DEF CompletedCalls
<1> DEFINE prior == IF pc = "executing" THEN CompletedCalls(worker[w].row)
                    ELSE {}
<1>4. prior \in SUBSET Numbers
  BY <1>3
<1> HIDE DEF prior
<1> DEFINE v == [worker[w] EXCEPT !.pc = pc,
                   !.status = run'[worker[w].row[1]].status,
                   !.used = run'[worker[w].row[1]].used,
                   !.transforms = run'[worker[w].row[1]].transforms,
                   !.prior = prior]
<1>5. v \in WorkerType /\ [v EXCEPT !.decision = decision] \in WorkerType
  BY <1>1, <1>2, <1>4 DEF WorkerType, WorkerState, RunType
<1> QED  BY <1>5 DEF Remember, prior

LEMMA CompleteTyped ==
  ASSUME TypeOK, NEW w \in Workers, IsBusy(w), NEW n \in Nat, NEW m \in Nat,
         Complete(w, n, m)
  PROVE  run' \in [Runs -> RunType] /\ step' \in [Rows -> StepType]
<1>1. worker[w] \in WorkerState /\ worker[w].row \in Rows /\ RunOf(w) \in Runs
  BY WorkerAt
<1>2. /\ worker[w].used + n \in Nat /\ worker[w].transforms + m \in Nat
      /\ "completed" \in StepStatuses /\ "absent" \in RunStatuses
  BY <1>1 DEF WorkerState, StepStatuses, RunStatuses
<1>3. run' \in [Runs -> RunType]
  BY <1>1, <1>2, RunUpdate DEF Complete, TypeOK
<1>4. step' \in [Rows -> StepType]
  BY <1>1, <1>2, StatusUpdate DEF Complete, TypeOK
<1> QED  BY <1>3, <1>4

\* Claiming, loading and starting.
LEMMA ClaimTyped ==
  ASSUME TypeOK, NEW w \in Workers, Claim(w)
  PROVE  TypeOK'
<1>1. PICK x \in NextClaims :
        /\ step' = [step EXCEPT ![x].status = "running", ![x].worker = w,
                                ![x].stale = FALSE]
        /\ worker' = [worker EXCEPT ![w] =
                        [IdleWorker EXCEPT !.pc = "claimed", !.row = x]]
  BY DEF Claim
<1>2. x \in Rows
  BY DEF NextClaims
<1>3. "running" \in StepStatuses
  BY DEF StepStatuses, OpenStatuses
<1>4. step' \in [Rows -> StepType]
  BY <1>1, <1>2, <1>3 DEF TypeOK, StepType
<1>5. [IdleWorker EXCEPT !.pc = "claimed", !.row = x] \in WorkerType
  BY <1>2, Shapes DEF WorkerType, WorkerState, Busy
<1> QED  BY <1>1, <1>4, <1>5, WorkerUpdate DEF Claim, TypeOK

LEMMA LoadTyped ==
  ASSUME TypeOK, NEW w \in Workers, Load(w)
  PROVE  TypeOK'
<1>1. IsBusy(w) /\ run' \in [Runs -> RunType]
  BY DEF Load, IsBusy, Busy, TypeOK
<1>2. worker[w].row \in Rows /\ step[worker[w].row].decision \in Decisions
  BY <1>1, WorkerAt DEF TypeOK, StepType
<1>3. worker' \in [Workers -> WorkerType]
  <2>1. CASE Abort(w)
    BY <2>1, AbortTyped
  <2>2. CASE \E pc \in {"failing", "starting", "executing"} :
               worker' = [worker EXCEPT ![w] =
                 [Remember(w, pc) EXCEPT !.decision =
                    step[worker[w].row].decision]]
    BY <1>1, <1>2, <2>2, RememberTyped, WorkerUpdate DEF Busy
  <2> QED  BY <2>1, <2>2 DEF Load
<1> QED  BY <1>3 DEF Load, TypeOK

LEMMA StartRunTyped ==
  ASSUME TypeOK, NEW w \in Workers, StartRun(w)
  PROVE  TypeOK'
<1>1. IsBusy(w) /\ RunOf(w) \in Runs
  BY WorkerAt DEF StartRun, IsBusy, Busy
<1>2. run' \in [Runs -> RunType]
  BY <1>1 DEF StartRun, TypeOK, RunType, RunStatuses, ActiveStatuses
<1>3. worker' \in [Workers -> WorkerType]
  <2>1. CASE Abort(w)
    BY <2>1, AbortTyped
  <2>2. CASE worker' = [worker EXCEPT ![w] = Remember(w, "executing")]
    <3>1. worker[w].decision \in Decisions
      BY WorkerAt DEF WorkerState
    <3>2. Remember(w, "executing") \in WorkerType
      BY <1>1, <1>2, <3>1, RememberTyped DEF Busy
    <3> QED  BY <2>2, <3>2, WorkerUpdate
  <2>3. CASE Astray(w)
    BY <1>1, <1>2, <2>3, WorkerAt, AstrayTyped
  <2> QED  BY <2>1, <2>2, <2>3 DEF StartRun
<1> QED  BY <1>2, <1>3 DEF StartRun, TypeOK

\* Executing, and creating the next row.
LEMMA FailTyped ==
  ASSUME TypeOK, NEW w \in Workers, Fail(w)
  PROVE  TypeOK'
<1>1. IsBusy(w) /\ worker[w].row \in Rows /\ RunOf(w) \in Runs
  BY WorkerAt DEF Fail, IsBusy, Busy
<1>2. step' \in [Rows -> StepType]
  BY <1>1, StatusUpdate DEF Fail, TypeOK, StepStatuses
<1>3. run' \in [Runs -> RunType]
  BY <1>1 DEF Fail, Written, TypeOK, RunType, RunStatuses, TerminalStatuses
<1>4. worker' \in [Workers -> WorkerType]
  BY AbortTyped DEF Fail
<1> QED  BY <1>2, <1>3, <1>4 DEF Fail, TypeOK

LEMMA ThinkTyped ==
  ASSUME TypeOK, NEW w \in Workers,
         Think(w) \/ ThinkAstray(w) \/ ThinkError(w)
  PROVE  TypeOK'
<1>1. /\ IsBusy(w) /\ worker[w].row \in Rows
      /\ run[RunOf(w)].status \in RunStatuses
  BY WorkerAt
     DEF Think, ThinkAstray, ThinkError, Executing, IsBusy, Busy, RunType
<1>2. CASE Think(w)
  <2>1. run' \in [Runs -> RunType] /\ step' \in [Rows -> StepType]
    BY <1>1, <1>2, CompleteTyped DEF Think
  <2>2. worker' \in [Workers -> WorkerType]
    BY <1>1, <1>2, GoCreateTyped DEF Think, ThinkOutcomes
  <2> QED  BY <1>2, <2>1, <2>2 DEF Think, TypeOK
<1>3. CASE ThinkAstray(w)
  <2>1. run' \in [Runs -> RunType] /\ step' \in [Rows -> StepType]
    BY <1>1, <1>3, CompleteTyped DEF ThinkAstray
  <2>2. worker' \in [Workers -> WorkerType]
    BY <1>1, <1>3, <2>1, AstrayTyped DEF ThinkAstray
  <2> QED  BY <1>3, <2>1, <2>2 DEF ThinkAstray, TypeOK
<1>4. CASE ThinkError(w)
  <2>1. worker' = [worker EXCEPT ![w] =
                     [worker[w] EXCEPT !.pc = "failing", !.prior = {}]]
    BY <1>4 DEF ThinkError, TypeOK
  <2>2. worker' \in [Workers -> WorkerType]
    BY <1>1, <2>1, GotoType, WorkerUpdate DEF Busy
  <2> QED  BY <1>4, <2>2 DEF ThinkError, TypeOK
<1> QED  BY <1>2, <1>3, <1>4

LEMMA NewRowType ==
  ASSUME NEW type \in StepTypes, NEW status \in StepStatuses,
         NEW tool \in Tools \cup {None}
  PROVE  NewRow(type, status, tool) \in StepType
BY Shapes DEF NewRow, StepType

LEMMA CreateTyped ==
  ASSUME TypeOK, NEW w \in Workers, Create(w)
  PROVE  TypeOK'
<1> DEFINE next == worker[w].next
           x == <<RunOf(w), worker[w].number>>
           row == CASE next = "tool_result" -> NewRow(next, "completed", None)
                    [] next \in Tools -> NewRow("tool_call", "pending", next)
                    [] OTHER -> NewRow(next, "pending", None)
<1>1. /\ IsBusy(w) /\ worker[w] \in WorkerState /\ worker[w].row \in Rows
      /\ RunOf(w) \in Runs /\ worker[w].number # 0
      /\ next \in {"think", "summary", "tool_result"} \cup Tools
  BY WorkerAt DEF Create, IsBusy, Busy, TypeOK, WorkerType
<1>2. worker[w].number \in Numbers /\ x \in Rows
  BY <1>1, BoundsAssumption DEF Create, WorkerState, Numbers, Rows
<1>3. row \in StepType
  <2>1. /\ {"think", "summary", "tool_result", "tool_call"} \subseteq StepTypes
        /\ {"pending", "completed"} \subseteq StepStatuses
    BY DEF StepTypes, StepStatuses, OpenStatuses
  <2> QED  BY <1>1, <2>1, NewRowType
<1>4. CASE Exists(x)
  <2>1. worker' \in [Workers -> WorkerType]
    BY <1>4, AbortTyped DEF Create
  <2> QED  BY <1>4, <2>1 DEF Create, TypeOK
<1>5. CASE ~Exists(x)
  <2>1. step' \in [Rows -> StepType]
    <3>1. step' = [step EXCEPT ![x] = row]
      BY <1>5 DEF Create
    <3> HIDE DEF row, x
    <3> QED  BY <1>3, <3>1 DEF TypeOK
  <2>2. CASE worker' = [worker EXCEPT ![w] =
               [worker[w] EXCEPT !.next = "think",
                                 !.number = worker[w].number + 1]]
    <3>1. worker' = [worker EXCEPT ![w] =
            [worker[w] EXCEPT !.next = "think", !.number = worker[w].number + 1]]
      BY <2>2
    <3>2. /\ worker[w].number + 1 \in 0 .. (MaxRows + 1)
          /\ worker[w].number + 1 # 0 /\ "think" \in FollowUps
      BY <1>2, BoundsAssumption DEF Numbers, FollowUps
    <3>3. [worker[w] EXCEPT !.next = "think", !.number = worker[w].number + 1]
            \in WorkerType
      BY <1>1, <3>2 DEF WorkerType, WorkerState
    <3> QED  BY <1>5, <2>1, <3>1, <3>3, WorkerUpdate DEF Create, TypeOK
  <2>3. CASE worker' = [worker EXCEPT ![w] = IdleWorker]
    <3> QED  BY <1>5, <2>1, <2>3, Shapes, WorkerUpdate DEF Create, TypeOK
  <2>4. CASE Astray(w)
    <3>1. run' \in [Runs -> RunType]
      BY DEF Create, TypeOK
    <3>2. worker' \in [Workers -> WorkerType]
      BY <1>1, <2>4, <3>1, AstrayTyped
    <3> QED  BY <1>5, <2>1, <3>2 DEF Create, TypeOK
  <2> QED  BY <1>5, <2>2, <2>3, <2>4 DEF Create
<1> QED  BY <1>4, <1>5

LEMMA ToolCallTyped ==
  ASSUME TypeOK, NEW w \in Workers, ToolError(w) \/ AskApproval(w) \/ Execute(w)
  PROVE  TypeOK'
<1>1. /\ IsBusy(w) /\ worker[w].row \in Rows /\ RunOf(w) \in Runs
      /\ "absent" \in RunStatuses
  BY WorkerAt DEF ToolError, AskApproval, Execute, Executing, IsBusy, Busy,
                  RunStatuses
<1>2. CASE ToolError(w)
  <2>1. worker' = [worker EXCEPT ![w] =
                     [worker[w] EXCEPT !.pc = "failing", !.prior = {}]]
    BY <1>2 DEF ToolError, TypeOK
  <2>2. worker' \in [Workers -> WorkerType]
    BY <1>1, <2>1, GotoType, WorkerUpdate DEF Busy
  <2> QED  BY <1>2, <2>2 DEF ToolError, TypeOK
<1>3. CASE AskApproval(w)
  <2>1. run' \in [Runs -> RunType]
    BY <1>1, <1>3
       DEF AskApproval, Written, TypeOK, RunType, RunStatuses, ActiveStatuses
  <2>2. /\ "waiting_approval" \in StepStatuses /\ "none" \in Decisions
        /\ None \in Workers \cup {None} /\ FALSE \in BOOLEAN
    BY DEF StepStatuses, OpenStatuses, Decisions
  <2>3. step' \in [Rows -> StepType]
    <3>1. CASE step' = step
      BY <3>1 DEF TypeOK
    <3>2. CASE step' # step
      <4>1. step' = [step EXCEPT ![worker[w].row] =
                      [step[worker[w].row] EXCEPT
                         !.status = "waiting_approval", !.worker = None,
                         !.stale = FALSE, !.decision = "none"]]
        BY <1>3, <3>2 DEF AskApproval
      <4> QED  BY <1>1, <2>2, <4>1 DEF TypeOK, StepType
    <3> QED  BY <3>1, <3>2
  <2>4. worker' \in [Workers -> WorkerType]
    BY <1>1, <1>3, <2>1, AbortTyped, AstrayTyped DEF AskApproval
  <2> QED  BY <1>3, <2>1, <2>3, <2>4 DEF AskApproval, TypeOK
<1>4. CASE Execute(w)
  <2>1. PICK pc \in {"ran", "invalid", "failing"} :
          /\ worker' = [worker EXCEPT ![w] =
                          [worker[w] EXCEPT !.pc = pc, !.prior = {}]]
          /\ execs' = IF pc = "invalid" THEN execs
                      ELSE [execs EXCEPT ![worker[w].row] = @ + 1]
    BY <1>4 DEF Execute, TypeOK
  <2>2. pc \in Busy \ {"create"}
    BY DEF Busy
  <2>3. worker' \in [Workers -> WorkerType]
    BY <1>1, <2>1, <2>2, GotoType, WorkerUpdate
  <2>4. execs' \in [Rows -> Nat]
    BY <1>1, <2>1 DEF TypeOK
  <2> QED  BY <1>4, <2>3, <2>4 DEF Execute, TypeOK
<1> QED  BY <1>2, <1>3, <1>4

LEMMA AfterToolTyped ==
  ASSUME TypeOK, NEW w \in Workers, ToolRan(w) \/ ToolInvalid(w) \/ Summarize(w)
  PROVE  TypeOK'
<1>1. /\ IsBusy(w) /\ worker[w] \in WorkerState /\ worker[w].row \in Rows
      /\ RunOf(w) \in Runs
  BY WorkerAt DEF ToolRan, ToolInvalid, Summarize, Executing, IsBusy, Busy
<1>2. CASE ToolRan(w)
  <2>1. run' \in [Runs -> RunType] /\ step' \in [Rows -> StepType]
    BY <1>1, <1>2, CompleteTyped DEF ToolRan
  <2>2. worker' \in [Workers -> WorkerType]
    BY <1>1, <1>2, <2>1, GoCreateTyped, AstrayTyped DEF ToolRan
  <2> QED  BY <1>2, <2>1, <2>2 DEF ToolRan, TypeOK
<1>3. CASE ToolInvalid(w)
  <2>1. run' \in [Runs -> RunType] /\ step' \in [Rows -> StepType]
    BY <1>1, <1>3, CompleteTyped DEF ToolInvalid
  <2>2. worker' \in [Workers -> WorkerType]
    BY <1>1, <1>3, <2>1, GoCreateTyped, AstrayTyped DEF ToolInvalid
  <2> QED  BY <1>3, <2>1, <2>2 DEF ToolInvalid, TypeOK
<1>4. CASE Summarize(w)
  <2>1. /\ Written(worker[w].status, "completed", run[RunOf(w)].status)
             \in RunStatuses
        /\ worker[w].used + 1 \in Nat /\ worker[w].transforms \in Nat
        /\ "completed" \in StepStatuses
    BY <1>1 DEF Written, TypeOK, RunType, RunStatuses, TerminalStatuses,
                WorkerState, StepStatuses
  <2>2. run' \in [Runs -> RunType]
    BY <1>1, <1>4, <2>1 DEF Summarize, TypeOK, RunType
  <2>3. step' \in [Rows -> StepType]
    BY <1>1, <1>4, <2>1, StatusUpdate DEF Summarize, TypeOK
  <2>4. worker' \in [Workers -> WorkerType]
    BY <1>1, <1>4, <2>2, AbortTyped, AstrayTyped DEF Summarize
  <2> QED  BY <1>4, <2>2, <2>3, <2>4 DEF Summarize, TypeOK
<1> QED  BY <1>2, <1>3, <1>4

\* Crashes, recovery and the passing of time.
LEMMA CrashTyped ==
  ASSUME TypeOK, NEW w \in Workers,
         Crash(w) \/ RecoverClaims(w) \/ RecoverRuns(w)
  PROVE  TypeOK'
<1>1. \A pc \in {"down", "booting", "idle"} :
        [IdleWorker EXCEPT !.pc = pc] \in WorkerType
  BY Shapes DEF WorkerType, WorkerState, Busy
<1>2. CASE Crash(w)
  BY <1>1, <1>2, WorkerUpdate DEF Crash, TypeOK
<1>3. CASE RecoverClaims(w)
  <2>1. step' \in [Rows -> StepType]
    <3>1. "pending" \in StepStatuses
      BY DEF StepStatuses, OpenStatuses
    <3> QED  BY <1>3, <3>1 DEF RecoverClaims, TypeOK, StepType
  <2> QED  BY <1>1, <1>3, <2>1, WorkerUpdate DEF RecoverClaims, TypeOK
<1>4. CASE RecoverRuns(w)
  <2>1. run' \in [Runs -> RunType]
    BY <1>4 DEF RecoverRuns, TypeOK, RunType, RunStatuses, TerminalStatuses
  <2> QED  BY <1>4, <2>1, Shapes, WorkerUpdate DEF RecoverRuns, TypeOK
<1> QED  BY <1>2, <1>3, <1>4

LEMMA ExpireTyped ==
  ASSUME TypeOK, NEW x \in Rows, Expire(x)
  PROVE  TypeOK'
BY DEF Expire, TypeOK, StepType

\* API requests.
LEMMA DoneTyped ==
  ASSUME TypeOK, NEW u \in Users, Done(u)
  PROVE  request' \in [Users -> RequestType]
BY Shapes DEF Done, TypeOK

LEMMA BeginTyped ==
  ASSUME TypeOK, NEW u \in Users, Ask(u)
  PROVE  TypeOK'
<1>1. CASE BeginStart(u) \/ BeginRetry(u)
  <2>1. request' \in [Users -> RequestType]
    BY <1>1 DEF BeginStart, BeginRetry, TypeOK, RequestType, RequestState
  <2> QED  BY <1>1, <2>1 DEF BeginStart, BeginRetry, TypeOK
<1>2. CASE BeginCancel(u)
  <2>1. request' \in [Users -> RequestType]
    <3>1. PICK r \in Runs : request' =
                [request EXCEPT ![u].pc = "cancel", ![u].run = r]
      BY <1>2 DEF BeginCancel
    <3> QED  BY <3>1 DEF TypeOK, RequestType, RequestState
  <2> QED  BY <1>2, <2>1 DEF BeginCancel, TypeOK
<1>3. ASSUME NEW verdict \in {"approve", "reject"}, BeginDecision(u, verdict)
      PROVE  TypeOK'
  <2>1. PICK x \in Rows : request' = [request EXCEPT ![u] =
          [pc |-> verdict, run |-> x[1], row |-> x,
           status |-> run[x[1]].status]]
    BY <1>3 DEF BeginDecision
  <2>2. x[1] \in Runs /\ run[x[1]].status \in RunStatuses
    BY DEF Rows, TypeOK, RunType
  <2>3. request' \in [Users -> RequestType]
    BY <2>1, <2>2 DEF TypeOK, RequestType, RequestState
  <2> QED  BY <1>3, <2>3 DEF BeginDecision, TypeOK
<1> QED  BY <1>1, <1>2, <1>3 DEF Ask

LEMMA ProceedTyped ==
  ASSUME TypeOK, NEW u \in Users, Proceed(u) \/ RequestDies(u)
  PROVE  TypeOK'
<1>1. request[u] \in RequestState
  BY DEF TypeOK, RequestType
<1>2. CASE CreateRun(u)
  <2>1. run' \in [Runs -> RunType]
    BY <1>2 DEF CreateRun, TypeOK, RunType, RunStatuses, ActiveStatuses
  <2>2. request' \in [Users -> RequestType]
    BY <1>2, DoneTyped DEF CreateRun, TypeOK, RequestType, RequestState
  <2> QED  BY <1>2, <2>1, <2>2 DEF CreateRun, TypeOK
<1>3. CASE SeedThink(u)
  <2>1. <<request[u].run, 1>> \in Rows
    BY <1>3, BoundsAssumption DEF SeedThink, TypeOK, RequestType, Rows, Numbers
  <2>2. NewRow("think", "pending", None) \in StepType
    BY NewRowType DEF StepTypes, StepStatuses, OpenStatuses
  <2>3. step' \in [Rows -> StepType]
    BY <1>3, <2>1, <2>2 DEF SeedThink, TypeOK
  <2> QED  BY <1>3, <2>3, DoneTyped DEF SeedThink, TypeOK
<1>4. CASE CommitCancel(u)
  <2>1. run' \in [Runs -> RunType]
    BY <1>4 DEF CommitCancel, TypeOK, RunType, RunStatuses, TerminalStatuses
  <2> QED  BY <1>4, <2>1, DoneTyped DEF CommitCancel, TypeOK
<1>5. CASE CommitApproval(u)
  <2>1. request[u].row \in Rows /\ request[u].run \in Runs
    BY <1>5 DEF CommitApproval, TypeOK, RequestType
  <2>2. "approved" \in StepStatuses /\ "approved" \in Decisions
    BY DEF StepStatuses, OpenStatuses, Decisions
  <2>3. step' \in [Rows -> StepType]
    BY <1>5, <2>1, <2>2 DEF CommitApproval, TypeOK, StepType
  <2>4. request' \in [Users -> RequestType]
    BY <1>1, <1>5, <2>1, DoneTyped
       DEF CommitApproval, TypeOK, RequestType, RequestState
  <2> QED  BY <1>5, <2>1, <2>3, <2>4 DEF CommitApproval, TypeOK
<1>6. CASE CommitRejection(u)
  <2>1. request[u].row \in Rows /\ request[u].run \in Runs
    BY <1>6 DEF CommitRejection, TypeOK, RequestType
  <2>2. "rejected" \in StepStatuses /\ "rejected" \in Decisions
    BY DEF StepStatuses, Decisions
  <2>3. step' \in [Rows -> StepType]
    BY <1>6, <2>1, <2>2 DEF CommitRejection, TypeOK, StepType
  <2>4. request' \in [Users -> RequestType]
    BY <1>1, <1>6, <2>1, DoneTyped
       DEF CommitRejection, TypeOK, RequestType, RequestState
  <2> QED  BY <1>6, <2>3, <2>4 DEF CommitRejection, TypeOK
<1>7. CASE CommitRunStatus(u)
  <2>1. run' \in [Runs -> RunType]
    BY <1>7 DEF CommitRunStatus, TypeOK, RunType, RunStatuses, ActiveStatuses
  <2> QED  BY <1>7, <2>1, DoneTyped DEF CommitRunStatus, TypeOK
<1>8. CASE RequestDies(u)
  BY <1>8, DoneTyped DEF RequestDies, TypeOK
<1> QED  BY <1>2, <1>3, <1>4, <1>5, <1>6, <1>7, <1>8 DEF Proceed

LEMMA StepTyped == TypeOK /\ [Next]_vars => TypeOK'
<1> SUFFICES ASSUME TypeOK, [Next]_vars  PROVE TypeOK'
  OBVIOUS
<1>1. CASE \E w \in Workers : Claim(w) \/ Process(w) \/ Crash(w) \/ Restart(w)
  BY <1>1, ClaimTyped, LoadTyped, StartRunTyped, FailTyped, ThinkTyped,
     CreateTyped, ToolCallTyped, AfterToolTyped, CrashTyped
     DEF Process, Restart
<1>2. CASE \E x \in Rows : Expire(x)
  BY <1>2, ExpireTyped
<1>3. CASE \E u \in Users : Ask(u) \/ Proceed(u) \/ RequestDies(u)
  BY <1>3, BeginTyped, ProceedTyped
<1>4. CASE UNCHANGED vars
  BY <1>4 DEF vars, TypeOK
<1> QED  BY <1>1, <1>2, <1>3, <1>4 DEF Next

\* Every reachable state is well typed; in particular a busy worker always has
\* a step of some run, and the number it is about to insert is defined.
THEOREM TypeCorrect == Spec => []TypeOK
BY InitTyped, StepTyped, PTL DEF Spec

-----------------------------------------------------------------------------
(* The approval gate. *)

\* What a step of the system must not do to the rows, and to the sessions, for
\* ApprovalInv to survive it.
KeepsRows ==
  \A x \in Rows : /\ step'[x].type = step[x].type
                  /\ step'[x].tool = step[x].tool
                  /\ step'[x].decision = "approved" => x \in granted'
                  /\ step'[x].status = "absent" => step[x].status = "absent"

KeepsWorkers ==
  \A w \in Workers : IsBusy(w)' /\ worker'[w].decision = "approved" =>
                       worker'[w].row \in granted'

LEMMA ApprovalFrame ==
  ASSUME ApprovalInv, KeepsRows, KeepsWorkers, execs' = execs,
         granted \subseteq granted'
  PROVE  ApprovalInv'
BY DEF ApprovalInv, GatedCallsWereApproved, KeepsRows, KeepsWorkers, Exists

\* A worker that starts afresh, stays as it is, or is none of the rest.
LEMMA WorkersFrame ==
  ASSUME ApprovalInv, TypeOK, NEW w \in Workers, NEW v,
         worker' = [worker EXCEPT ![w] = v],
         v.pc \in Busy /\ v.decision = "approved" => v.row \in granted,
         granted \subseteq granted'
  PROVE  KeepsWorkers
BY DEF ApprovalInv, TypeOK, KeepsWorkers, IsBusy

LEMMA IdleFrame ==
  ASSUME ApprovalInv, TypeOK, NEW w \in Workers, granted \subseteq granted',
         \/ Abort(w) \/ UNCHANGED worker \/ Astray(w)
         \/ \E next : GoCreate(w, next)
         \/ \E pc, status : worker' = [worker EXCEPT ![w] =
                                   [Goto(w, pc) EXCEPT !.status = status]]
         \/ \E pc : worker' = [worker EXCEPT ![w].pc = pc, ![w].prior = {}]
                    /\ IsBusy(w)
  PROVE  KeepsWorkers
<1>1. CASE Abort(w)
  BY <1>1, WorkersFrame DEF Abort, IdleWorker, Busy
<1>2. CASE UNCHANGED worker
  BY <1>2 DEF ApprovalInv, KeepsWorkers, IsBusy
<1>3. CASE \E next : GoCreate(w, next)
  BY <1>3, WorkersFrame DEF GoCreate, Goto, IdleWorker
<1>4. CASE \E pc, status : worker' = [worker EXCEPT ![w] =
                                  [Goto(w, pc) EXCEPT !.status = status]]
  BY <1>4, WorkersFrame DEF Goto, IdleWorker
<1>5. CASE \E pc : worker' = [worker EXCEPT ![w].pc = pc, ![w].prior = {}]
                   /\ IsBusy(w)
  <2>1. PICK pc : worker' = [worker EXCEPT ![w].pc = pc, ![w].prior = {}]
    BY <1>5
  <2> DEFINE v == [worker[w] EXCEPT !.pc = pc, !.prior = {}]
  <2>2. worker' = [worker EXCEPT ![w] = v]
    BY <2>1 DEF TypeOK
  <2>3. v.decision = worker[w].decision /\ v.row = worker[w].row
    BY WorkerAt DEF WorkerState
  <2>4. v.decision = "approved" => v.row \in granted
    BY <1>5, <2>3 DEF ApprovalInv
  <2> HIDE DEF v
  <2> QED  BY <2>2, <2>4, WorkersFrame
<1> QED  BY <1>1, <1>2, <1>3, <1>4, <1>5, AstrayGoes

\* The row of a busy worker gets another status.
LEMMA StatusFrame ==
  ASSUME TypeOK, ApprovalInv, NEW x \in Rows, NEW status \in StepStatuses \ {"absent"},
         step' = [step EXCEPT ![x].status = status, ![x].stale = FALSE],
         granted \subseteq granted'
  PROVE  KeepsRows
BY DEF TypeOK, StepType, ApprovalInv, KeepsRows

LEMMA SameRows ==
  ASSUME ApprovalInv, step' = step, granted \subseteq granted'
  PROVE  KeepsRows
BY DEF ApprovalInv, KeepsRows

LEMMA CompleteFrame ==
  ASSUME TypeOK, ApprovalInv, NEW w \in Workers, IsBusy(w), NEW n, NEW m,
         Complete(w, n, m), granted \subseteq granted'
  PROVE  KeepsRows
<1>1. "completed" \in StepStatuses \ {"absent"}
  BY DEF StepStatuses
<1> QED  BY <1>1, WorkerAt, StatusFrame DEF Complete

LEMMA ClaimGuarded ==
  ASSUME TypeOK, ApprovalInv, NEW w \in Workers, Claim(w)
  PROVE  ApprovalInv'
<1>1. PICK x \in Rows :
        /\ step' = [step EXCEPT ![x].status = "running", ![x].worker = w,
                                ![x].stale = FALSE]
        /\ worker' = [worker EXCEPT ![w] =
                        [IdleWorker EXCEPT !.pc = "claimed", !.row = x]]
  BY DEF Claim, NextClaims
<1>2. KeepsRows
  BY <1>1 DEF Claim, TypeOK, StepType, ApprovalInv, KeepsRows
<1>3. KeepsWorkers
  BY <1>1, WorkersFrame DEF Claim, IdleWorker
<1> QED  BY <1>2, <1>3, ApprovalFrame DEF Claim

\* A session takes its decision from the row it has just read.
LEMMA LoadGuarded ==
  ASSUME TypeOK, ApprovalInv, NEW w \in Workers, Load(w) \/ StartRun(w)
  PROVE  ApprovalInv'
<1>1. IsBusy(w) /\ worker[w] \in WorkerState /\ worker[w].row \in Rows
  BY WorkerAt DEF Load, StartRun, IsBusy, Busy
<1>2. ASSUME NEW pc, NEW decision
      PROVE  /\ Remember(w, pc).row = worker[w].row
             /\ Remember(w, pc).decision = worker[w].decision
             /\ [Remember(w, pc) EXCEPT !.decision = decision].row
                  = worker[w].row
             /\ [Remember(w, pc) EXCEPT !.decision = decision].decision
                  = decision
  BY <1>1 DEF Remember, WorkerState
<1>3. KeepsWorkers
  <2>1. CASE Abort(w)
    BY <2>1, IdleFrame DEF Load, StartRun
  <2>2. CASE \E pc : worker' = [worker EXCEPT ![w] =
               [Remember(w, pc) EXCEPT !.decision =
                  step[worker[w].row].decision]]
    <3>1. step[worker[w].row].decision = "approved" =>
            worker[w].row \in granted
      BY <1>1 DEF ApprovalInv
    <3>2. PICK pc : worker' = [worker EXCEPT ![w] =
            [Remember(w, pc) EXCEPT !.decision = step[worker[w].row].decision]]
      BY <2>2
    <3> DEFINE v == [Remember(w, pc) EXCEPT
                       !.decision = step[worker[w].row].decision]
    <3>3. v.decision = "approved" => v.row \in granted
      BY <1>2, <3>1
    <3> HIDE DEF v
    <3> QED  BY <3>2, <3>3, WorkersFrame DEF Load, StartRun, v
  <2>3. CASE worker' = [worker EXCEPT ![w] = Remember(w, "executing")]
    <3>1. worker[w].decision = "approved" => worker[w].row \in granted
      BY <1>1 DEF ApprovalInv
    <3> QED  BY <1>2, <2>3, <3>1, WorkersFrame DEF Load, StartRun
  <2>4. CASE Astray(w)
    BY <2>4, IdleFrame DEF Load, StartRun
  <2> QED  BY <2>1, <2>2, <2>3, <2>4 DEF Load, StartRun
<1>4. KeepsRows
  BY SameRows DEF Load, StartRun
<1> QED  BY <1>3, <1>4, ApprovalFrame DEF Load, StartRun

LEMMA ThinkGuarded ==
  ASSUME TypeOK, ApprovalInv, NEW w \in Workers,
         Fail(w) \/ Think(w) \/ ThinkAstray(w) \/ ThinkError(w)
  PROVE  ApprovalInv'
<1>1. IsBusy(w) /\ worker[w].row \in Rows
  BY WorkerAt
     DEF Fail, Think, ThinkAstray, ThinkError, Executing, IsBusy, Busy
<1>2. CASE Fail(w)
  <2>1. KeepsRows
    <3>1. "failed" \in StepStatuses \ {"absent"}
      BY DEF StepStatuses
    <3> QED  BY <1>1, <1>2, <3>1, StatusFrame DEF Fail
  <2> QED  BY <1>2, <2>1, IdleFrame, ApprovalFrame DEF Fail
<1>3. CASE Think(w)
  BY <1>1, <1>3, CompleteFrame, IdleFrame, ApprovalFrame DEF Think
<1>4. CASE ThinkAstray(w)
  BY <1>1, <1>4, CompleteFrame, IdleFrame, ApprovalFrame DEF ThinkAstray
<1>5. CASE ThinkError(w)
  BY <1>1, <1>5, SameRows, IdleFrame, ApprovalFrame DEF ThinkError
<1> QED  BY <1>2, <1>3, <1>4, <1>5

\* A row is only inserted where there was none, so it has no history.
LEMMA CreateGuarded ==
  ASSUME TypeOK, ApprovalInv, NEW w \in Workers, Create(w)
  PROVE  ApprovalInv'
<1> DEFINE x == <<RunOf(w), worker[w].number>>
<1>1. /\ IsBusy(w) /\ RunOf(w) \in Runs
      /\ worker[w] \in WorkerState /\ worker[w].number # 0
  BY WorkerAt DEF Create, IsBusy, Busy, TypeOK, WorkerType
<1>2. x \in Rows
  BY <1>1, BoundsAssumption DEF Create, WorkerState, Numbers, Rows
<1>3. CASE Exists(x)
  BY <1>3, SameRows, IdleFrame, ApprovalFrame DEF Create
<1>4. CASE ~Exists(x)
  <2>1. PICK row : /\ step' = [step EXCEPT ![x] = row]
                   /\ row.decision = "none" /\ row.status # "absent"
    <3>1. \A type, status, tool :
            /\ NewRow(type, status, tool).decision = "none"
            /\ NewRow(type, status, tool).status = status
      BY DEF NewRow, NoRow
    <3> QED  BY <1>4, <3>1 DEF Create
  <2>2. execs[x] = 0
    BY <1>2, <1>4 DEF ApprovalInv
  <2>3. KeepsWorkers
    <3>1. CASE worker' = [worker EXCEPT ![w] =
                 [worker[w] EXCEPT !.next = "think",
                                   !.number = worker[w].number + 1]]
      <4> DEFINE v == [worker[w] EXCEPT !.next = "think",
                                        !.number = worker[w].number + 1]
      <4>1. worker' = [worker EXCEPT ![w] = v]
        BY <3>1
      <4>2. v.row = worker[w].row /\ v.decision = worker[w].decision
        BY <1>1 DEF WorkerState
      <4>3. v.decision = "approved" => v.row \in granted
        BY <1>1, <4>2 DEF ApprovalInv
      <4> HIDE DEF v
      <4> QED  BY <4>1, <4>3, WorkersFrame DEF Create
    <3>2. CASE worker' = [worker EXCEPT ![w] = IdleWorker]
      BY <3>2, WorkersFrame DEF Create, IdleWorker, Busy
    <3>3. CASE Astray(w)
      BY <3>3, IdleFrame DEF Create
    <3> QED  BY <1>4, <3>1, <3>2, <3>3 DEF Create
  <2> HIDE DEF x
  <2> QED  BY <1>2, <2>1, <2>2, <2>3
           DEF Create, ApprovalInv, GatedCallsWereApproved, KeepsWorkers,
               Exists, TypeOK
<1> QED  BY <1>3, <1>4

LEMMA ToolCallGuarded ==
  ASSUME TypeOK, ApprovalInv, NEW w \in Workers, ToolError(w) \/ AskApproval(w)
  PROVE  ApprovalInv'
<1>1. IsBusy(w) /\ worker[w].row \in Rows
  BY WorkerAt DEF ToolError, AskApproval, Executing, IsBusy, Busy
<1>2. CASE ToolError(w)
  BY <1>1, <1>2, SameRows, IdleFrame, ApprovalFrame DEF ToolError
<1>3. CASE AskApproval(w)
  <2>1. KeepsRows
    <3>1. CASE step' = step
      BY <1>3, <3>1, SameRows DEF AskApproval
    <3>2. CASE step' # step
      <4>1. step' = [step EXCEPT ![worker[w].row] =
                      [step[worker[w].row] EXCEPT
                         !.status = "waiting_approval", !.worker = None,
                         !.stale = FALSE, !.decision = "none"]]
        BY <1>3, <3>2 DEF AskApproval
      <4> QED  BY <1>1, <1>3, <4>1
               DEF AskApproval, TypeOK, StepType, ApprovalInv, KeepsRows
    <3> QED  BY <3>1, <3>2
  <2> QED  BY <1>3, <2>1, IdleFrame, ApprovalFrame DEF AskApproval
<1> QED  BY <1>2, <1>3

\* The gate itself: what is invoked is not gated, or was read as approved.
LEMMA ExecuteGuarded ==
  ASSUME TypeOK, ApprovalInv, NEW w \in Workers, Execute(w)
  PROVE  ApprovalInv'
<1> DEFINE x == worker[w].row
<1>1. IsBusy(w) /\ x \in Rows
  BY WorkerAt DEF Execute, Executing, IsBusy, Busy
<1>2. step[x].tool \in GatedTools => x \in granted
  BY <1>1 DEF Execute, Unapproved, Row, ApprovalInv
<1>3. Exists(x)
  BY <1>1 DEF Execute, Executing, Row, ApprovalInv
<1>4. execs' = execs \/ execs' = [execs EXCEPT ![x] = @ + 1]
  BY DEF Execute
<1>5. KeepsWorkers
  BY <1>1, IdleFrame DEF Execute
<1> HIDE DEF x
<1> QED  BY <1>1, <1>2, <1>3, <1>4, <1>5
         DEF Execute, ApprovalInv, GatedCallsWereApproved, KeepsWorkers,
             Exists, TypeOK

LEMMA AfterToolGuarded ==
  ASSUME TypeOK, ApprovalInv, NEW w \in Workers,
         ToolRan(w) \/ ToolInvalid(w) \/ Summarize(w)
  PROVE  ApprovalInv'
<1>1. IsBusy(w) /\ worker[w].row \in Rows
  BY WorkerAt DEF ToolRan, ToolInvalid, Summarize, Executing, IsBusy, Busy
<1>2. CASE ToolRan(w)
  BY <1>1, <1>2, CompleteFrame, IdleFrame, ApprovalFrame DEF ToolRan
<1>3. CASE ToolInvalid(w)
  BY <1>1, <1>3, CompleteFrame, IdleFrame, ApprovalFrame DEF ToolInvalid
<1>4. CASE Summarize(w)
  <2>1. KeepsRows
    <3>1. "completed" \in StepStatuses \ {"absent"}
      BY DEF StepStatuses
    <3> QED  BY <1>1, <1>4, <3>1, StatusFrame DEF Summarize
  <2> QED  BY <1>4, <2>1, IdleFrame, ApprovalFrame DEF Summarize
<1> QED  BY <1>2, <1>3, <1>4

LEMMA RecoveryGuarded ==
  ASSUME TypeOK, ApprovalInv, NEW w \in Workers,
         Crash(w) \/ RecoverClaims(w) \/ RecoverRuns(w)
  PROVE  ApprovalInv'
<1>1. KeepsWorkers
  <2>1. PICK pc \in {"down", "booting", "idle"} :
          worker' = [worker EXCEPT ![w] = [IdleWorker EXCEPT !.pc = pc]]
    BY DEF Crash, RecoverClaims, RecoverRuns, IdleWorker
  <2> QED  BY <2>1, WorkersFrame
           DEF IdleWorker, Busy, Crash, RecoverClaims, RecoverRuns
<1>2. KeepsRows
  <2>1. CASE RecoverClaims(w)
    BY <2>1 DEF RecoverClaims, TypeOK, StepType, ApprovalInv, KeepsRows
  <2>2. CASE Crash(w) \/ RecoverRuns(w)
    BY <2>2, SameRows DEF Crash, RecoverRuns
  <2> QED  BY <2>1, <2>2
<1> QED  BY <1>1, <1>2, ApprovalFrame DEF Crash, RecoverClaims, RecoverRuns

LEMMA RequestGuarded ==
  ASSUME TypeOK, ApprovalInv, NEW u \in Users,
         Ask(u) \/ Proceed(u) \/ RequestDies(u)
  PROVE  ApprovalInv'
<1>1. CASE SeedThink(u)
  <2>1. /\ <<request[u].run, 1>> \in Rows
        /\ step' = [step EXCEPT ![<<request[u].run, 1>>] =
                      NewRow("think", "pending", None)]
    BY <1>1, BoundsAssumption DEF SeedThink, TypeOK, RequestType, Rows, Numbers
  <2>2. None \notin GatedTools
    BY ToolsAssumption, NoneAssumption
  <2> QED  BY <1>1, <2>1, <2>2
           DEF SeedThink, NewRow, NoRow, ApprovalInv, GatedCallsWereApproved,
               Exists, IsBusy, TypeOK
<1>2. CASE CommitApproval(u)
  <2>1. request[u].row \in Rows
    BY <1>2 DEF CommitApproval, TypeOK, RequestType
  <2>2. KeepsRows
    BY <1>2, <2>1 DEF CommitApproval, TypeOK, StepType, ApprovalInv, KeepsRows
  <2>3. KeepsWorkers
    BY <1>2 DEF CommitApproval, ApprovalInv, KeepsWorkers, IsBusy
  <2> QED  BY <1>2, <2>2, <2>3, ApprovalFrame DEF CommitApproval
<1>3. CASE CommitRejection(u)
  <2>1. request[u].row \in Rows
    BY <1>3 DEF CommitRejection, TypeOK, RequestType
  <2>2. KeepsRows
    BY <1>3, <2>1 DEF CommitRejection, TypeOK, StepType, ApprovalInv, KeepsRows
  <2>3. KeepsWorkers
    BY <1>3 DEF CommitRejection, ApprovalInv, KeepsWorkers, IsBusy
  <2> QED  BY <1>3, <2>2, <2>3, ApprovalFrame DEF CommitRejection
<1>4. CASE UNCHANGED <<step, worker, granted, execs>>
  BY <1>4 DEF ApprovalInv, GatedCallsWereApproved, Exists, IsBusy
<1> QED  BY <1>1, <1>2, <1>3, <1>4
         DEF Ask, BeginStart, BeginRetry, BeginCancel, BeginDecision, Proceed,
             CreateRun, CommitCancel, CommitRunStatus, RequestDies

LEMMA ExpireGuarded ==
  ASSUME TypeOK, ApprovalInv, NEW x \in Rows, Expire(x)
  PROVE  ApprovalInv'
<1>1. KeepsRows
  BY DEF Expire, TypeOK, StepType, ApprovalInv, KeepsRows
<1>2. KeepsWorkers
  BY DEF Expire, ApprovalInv, KeepsWorkers, IsBusy
<1> QED  BY <1>1, <1>2, ApprovalFrame DEF Expire

LEMMA InitGuarded == Init => ApprovalInv
BY DEF Init, ApprovalInv, GatedCallsWereApproved, Exists, NoRow, IdleWorker,
       IsBusy, Busy

LEMMA StepGuarded == TypeOK /\ ApprovalInv /\ [Next]_vars => ApprovalInv'
<1> SUFFICES ASSUME TypeOK, ApprovalInv, [Next]_vars  PROVE ApprovalInv'
  OBVIOUS
<1>1. CASE \E w \in Workers : Claim(w) \/ Process(w) \/ Crash(w) \/ Restart(w)
  BY <1>1, ClaimGuarded, LoadGuarded, ThinkGuarded, CreateGuarded,
     ToolCallGuarded, ExecuteGuarded, AfterToolGuarded, RecoveryGuarded
     DEF Process, Restart
<1>2. CASE \E x \in Rows : Expire(x)
  BY <1>2, ExpireGuarded
<1>3. CASE \E u \in Users : Ask(u) \/ Proceed(u) \/ RequestDies(u)
  BY <1>3, RequestGuarded
<1>4. CASE UNCHANGED vars
  BY <1>4 DEF vars, ApprovalInv, GatedCallsWereApproved, Exists, IsBusy
<1> QED  BY <1>1, <1>2, <1>3, <1>4 DEF Next

\* No tool that requires approval is ever invoked for a step nobody approved:
\* for any number of workers, users, runs and crashes, also when claims expire
\* under busy workers, and in either schema.
THEOREM ApprovalGate == Spec => []GatedCallsWereApproved
<1>1. ApprovalInv => GatedCallsWereApproved
  BY DEF ApprovalInv
<1> QED  BY <1>1, InitGuarded, StepGuarded, TypeCorrect, PTL DEF Spec

-----------------------------------------------------------------------------
(* One active run. *)

LEMMA StepOneActive ==
  ActiveIndex /\ TypeOK /\ OneActiveRun /\ [Next]_vars => OneActiveRun'
<1> SUFFICES ASSUME ActiveIndex, TypeOK, OneActiveRun, [Next]_vars
             PROVE  OneActiveRun'
  OBVIOUS
<1> DEFINE Guarded ==
      \A r \in Runs : run'[r].status \in ActiveStatuses =>
        Active(r) \/ (IndexAllows(r) /\ \A q \in Runs \ {r} : run'[q] = run[q])
<1>1. Guarded => OneActiveRun'
  BY DEF OneActiveRun, IndexAllows, Active
<1>2. ASSUME NEW w \in Workers, Process(w)  PROVE Guarded
  <2>1. IsBusy(w) => RunOf(w) \in Runs
    BY WorkerAt
  <2>2. CASE StartRun(w)
    BY <2>1, <2>2 DEF StartRun, IsBusy, Busy, TypeOK, RunType, Active
  <2>3. CASE AskApproval(w)
    BY <2>1, <2>3
       DEF AskApproval, Executing, IsBusy, Busy, TypeOK, RunType, Active,
           Written
  <2>4. CASE Fail(w) \/ Summarize(w)
    BY <2>1, <2>4
       DEF Fail, Summarize, Executing, IsBusy, Busy, TypeOK, RunType, Active,
           ActiveStatuses, Written
  <2>5. CASE \E n, m \in Nat : Complete(w, n, m)
    BY <2>5 DEF Complete, TypeOK, RunType, Active
  <2>6. CASE UNCHANGED run
    BY <2>6 DEF Active
  <2> QED  BY <1>2, <2>2, <2>3, <2>4, <2>5, <2>6
           DEF Process, Load, Think, ThinkAstray, ThinkError, Create,
               ToolError, Execute, ToolRan, ToolInvalid
<1>3. ASSUME NEW w \in Workers, Restart(w)  PROVE Guarded
  <2>1. CASE RecoverRuns(w)
    <3>1. PICK S : run' = [r \in Runs |-> IF r \in S
                                          THEN [run[r] EXCEPT !.status = "failed"]
                                          ELSE run[r]]
      BY <2>1 DEF RecoverRuns
    <3>2. \A r \in Runs : run'[r].status \in {run[r].status, "failed"}
      BY <3>1 DEF TypeOK, RunType
    <3>3. "failed" \notin ActiveStatuses
      BY DEF ActiveStatuses
    <3> QED  BY <3>2, <3>3 DEF Active
  <2>2. CASE UNCHANGED run
    BY <2>2 DEF Active
  <2> QED  BY <1>3, <2>1, <2>2 DEF Restart, RecoverClaims
<1>4. ASSUME NEW u \in Users, Proceed(u)  PROVE Guarded
  <2>1. CASE CreateRun(u) \/ CommitRunStatus(u) \/ CommitCancel(u)
    BY <2>1 DEF CreateRun, CommitRunStatus, CommitCancel, TypeOK, RequestType,
                RunType, Active, ActiveStatuses
  <2>2. CASE UNCHANGED run
    BY <2>2 DEF Active
  <2> QED  BY <1>4, <2>1, <2>2
           DEF Proceed, SeedThink, CommitApproval, CommitRejection
<1>5. CASE UNCHANGED run
  BY <1>5 DEF OneActiveRun, Active
<1> QED  BY <1>1, <1>2, <1>3, <1>4, <1>5
         DEF Next, vars, Claim, Crash, Expire, Ask, BeginStart, BeginRetry,
             BeginCancel, BeginDecision, RequestDies

\* With the unique index a project never has two active investigations.
THEOREM UniqueActiveRun ==
  ASSUME ActiveIndex
  PROVE  Spec => []OneActiveRun
<1>1. Init => OneActiveRun
  BY DEF Init, OneActiveRun, Active, NoRun, ActiveStatuses
<1>2. TypeOK /\ OneActiveRun /\ [Next]_vars => OneActiveRun'
  BY StepOneActive
<1> QED  BY <1>1, <1>2, TypeCorrect, PTL DEF Spec

-----------------------------------------------------------------------------
(* The tables.  Whatever the sessions remember, a row is one call for ever:  *)
(* nothing writes its type or tool again, although the first step of a run   *)
(* is inserted without a look at what is there.                              *)

\* A row has a tool exactly when it is a tool call, waits only for a call that
\* needs an approval, and belongs to a run that was created.
RowShape ==
  \A x \in Rows : /\ step[x].tool # None <=> step[x].type = "tool_call"
                  /\ step[x].status = "waiting_approval" =>
                       step[x].tool \in GatedTools
                  /\ Exists(x) => run[x[1]].status # "absent"

\* A session at work has a row, and a decision is about a call that needs one.
SessionsHaveRows ==
  /\ \A w \in Workers : IsBusy(w) => Exists(worker[w].row)
  /\ \A u \in Users : request[u].pc \in {"approve", "reject"} =>
       Exists(request[u].row) /\ step[request[u].row].tool \in GatedTools

\* A run that waits for its first step has no other, and one request about it.
SeedsAreFirst ==
  /\ \A u \in Users : request[u].pc = "seed" =>
       /\ run[request[u].run].status # "absent"
       /\ \A n \in Numbers : ~Exists(<<request[u].run, n>>)
  /\ \A u, v \in Users :
       u # v /\ request[u].pc = "seed" /\ request[v].pc = "seed" =>
         request[u].run # request[v].run

TablesInv == RowShape /\ SessionsHaveRows /\ SeedsAreFirst

\* What a step does not do to the tables and sessions, unless it inserts.
RowsStay ==
  \A x \in Rows : /\ step'[x].type = step[x].type
                  /\ step'[x].tool = step[x].tool
                  /\ Exists(x)' <=> Exists(x)
                  /\ step'[x].status = "waiting_approval" =>
                       \/ step[x].status = "waiting_approval"
                       \/ step[x].tool \in GatedTools
RunsStay ==
  \A r \in Runs : run'[r].status = "absent" => run[r].status = "absent"
WorkersStay == \A w \in Workers : IsBusy(w)' => Exists(worker'[w].row)
RequestsStay ==
  \A u \in Users : \/ request'[u] = request[u]
                   \/ request'[u].pc \notin {"approve", "reject", "seed"}

LEMMA TablesFrame ==
  ASSUME TypeOK, TypeOK', TablesInv, RowsStay, RunsStay, WorkersStay, RequestsStay
  PROVE  TablesInv'
<1>1. RowShape'
  <2>1. \A x \in Rows : x[1] \in Runs
    BY DEF Rows
  <2> QED  BY <2>1 DEF TablesInv, RowShape, RowsStay, RunsStay, Exists
<1>2. \A w \in Workers : IsBusy(w)' => Exists(worker[w].row)'
  <2> SUFFICES ASSUME NEW w \in Workers, IsBusy(w)'
               PROVE  Exists(worker[w].row)'
    OBVIOUS
  <2>1. worker'[w].row \in Rows
    BY DEF TypeOK, WorkerType, IsBusy
  <2> QED  BY <2>1 DEF WorkersStay, RowsStay, Exists
<1>3. \A u \in Users : request'[u].pc \in {"approve", "reject"} =>
        Exists(request[u].row)' /\ step'[request'[u].row].tool \in GatedTools
  <2> SUFFICES ASSUME NEW u \in Users, request'[u].pc \in {"approve", "reject"}
               PROVE  /\ Exists(request[u].row)'
                      /\ step'[request'[u].row].tool \in GatedTools
    OBVIOUS
  <2>1. request'[u] = request[u] /\ request[u].row \in Rows
    BY DEF RequestsStay, TypeOK, RequestType
  <2> QED  BY <2>1 DEF TablesInv, SessionsHaveRows, RowsStay, Exists
<1>4. \A u \in Users : request'[u].pc = "seed" =>
        request'[u] = request[u] /\ request[u].run \in Runs
  BY DEF RequestsStay, TypeOK, RequestType
<1>5. SeedsAreFirst'
  <2>1. \A r \in Runs, n \in Numbers : <<r, n>> \in Rows
    BY DEF Rows
  <2> QED  BY <1>4, <2>1 DEF TablesInv, SeedsAreFirst, RowsStay, RunsStay, Exists
<1> QED  BY <1>1, <1>2, <1>3, <1>5 DEF TablesInv, SessionsHaveRows
Stays == RowsStay /\ RunsStay /\ WorkersStay /\ RequestsStay

LEMMA StatusStays ==
  ASSUME TypeOK, NEW x \in Rows, Exists(x),
         NEW status \in StepStatuses \ {"absent", "waiting_approval"},
         step' = [step EXCEPT ![x].status = status, ![x].stale = FALSE]
  PROVE  RowsStay
BY DEF TypeOK, StepType, RowsStay, Exists

LEMMA SameTable ==
  ASSUME step' = step
  PROVE  RowsStay
BY DEF RowsStay, Exists

\* A run about which a worker is busy was created, whatever is written of it.
LEMMA RunStays ==
  ASSUME TypeOK, TablesInv, NEW r \in Runs, run[r].status # "absent", NEW v,
         run' = [run EXCEPT ![r] = v], v.status # "absent"
  PROVE  RunsStay
BY DEF TypeOK, RunsStay

LEMMA SessionStays ==
  ASSUME TypeOK, TablesInv, NEW w \in Workers, NEW v,
         worker' = [worker EXCEPT ![w] = v], v.pc \in Busy => Exists(v.row)
  PROVE  WorkersStay
BY DEF TypeOK, TablesInv, SessionsHaveRows, WorkersStay, IsBusy

LEMMA BusyHasRun ==
  ASSUME TypeOK, TablesInv, NEW w \in Workers, IsBusy(w)
  PROVE  /\ worker[w] \in WorkerState /\ worker[w].row \in Rows
         /\ RunOf(w) \in Runs /\ worker[w].row[1] = RunOf(w)
         /\ Exists(worker[w].row) /\ run[RunOf(w)].status # "absent"
         /\ run[RunOf(w)] \in RunType
<1>1. /\ worker[w] \in WorkerState /\ worker[w].row \in Rows
      /\ RunOf(w) \in Runs /\ run[RunOf(w)] \in RunType
  BY WorkerAt
<1>2. Exists(worker[w].row)
  BY DEF TablesInv, SessionsHaveRows
<1> QED  BY <1>1, <1>2 DEF TablesInv, RowShape, RunOf

LEMMA AbortStays ==
  ASSUME TypeOK, TablesInv, NEW w \in Workers, Abort(w)
  PROVE  WorkersStay
BY SessionStays DEF Abort, IdleWorker, Busy

LEMMA GotoStays ==
  ASSUME TypeOK, TablesInv, NEW w \in Workers, IsBusy(w),
         \/ Astray(w) \/ \E next : GoCreate(w, next)
         \/ \E pc, status : worker' = [worker EXCEPT ![w] =
                                   [Goto(w, pc) EXCEPT !.status = status]]
         \/ \E pc : worker' = [worker EXCEPT ![w].pc = pc, ![w].prior = {}]
  PROVE  WorkersStay
<1>1. worker[w] \in WorkerState /\ Exists(worker[w].row)
  BY BusyHasRun
<1>2. CASE \E next : GoCreate(w, next)
  BY <1>1, <1>2, SessionStays DEF GoCreate, Goto, IdleWorker
<1>3. CASE \E pc, status : worker' = [worker EXCEPT ![w] =
                                  [Goto(w, pc) EXCEPT !.status = status]]
  BY <1>1, <1>3, SessionStays DEF Goto, IdleWorker
<1>4. CASE \E pc : worker' = [worker EXCEPT ![w].pc = pc, ![w].prior = {}]
  <2>1. PICK pc : worker' = [worker EXCEPT ![w] =
                               [worker[w] EXCEPT !.pc = pc, !.prior = {}]]
    BY <1>4 DEF TypeOK
  <2>2. [worker[w] EXCEPT !.pc = pc, !.prior = {}].row = worker[w].row
    BY <1>1 DEF WorkerState
  <2> QED  BY <1>1, <2>1, <2>2, SessionStays
<1> QED  BY <1>2, <1>3, <1>4, AstrayGoes

LEMMA CompleteStays ==
  ASSUME TypeOK, TablesInv, NEW w \in Workers, IsBusy(w), NEW n, NEW m,
         Complete(w, n, m)
  PROVE  RowsStay /\ RunsStay
<1>1. "completed" \in StepStatuses \ {"absent", "waiting_approval"}
  BY DEF StepStatuses
<1>2. RowsStay
  BY <1>1, BusyHasRun, StatusStays DEF Complete
<1>3. RunsStay
  BY DEF Complete, TypeOK, RunType, RunsStay
<1> QED  BY <1>2, <1>3
\* Every step of a worker but an insertion.
LEMMA ClaimStays ==
  ASSUME TypeOK, TablesInv, NEW w \in Workers, Claim(w)
  PROVE  Stays
<1>1. PICK x \in NextClaims :
        /\ step' = [step EXCEPT ![x].status = "running", ![x].worker = w,
                                ![x].stale = FALSE]
        /\ worker' = [worker EXCEPT ![w] =
                        [IdleWorker EXCEPT !.pc = "claimed", !.row = x]]
  BY DEF Claim
<1>2. x \in Rows /\ Exists(x)
  BY DEF NextClaims, Claimable, Abandoned, ClaimableStatuses, Exists
<1>3. RowsStay
  BY <1>1, <1>2 DEF TypeOK, StepType, RowsStay, Exists
<1>4. WorkersStay
  BY <1>1, <1>2, SessionStays DEF IdleWorker
<1> QED  BY <1>3, <1>4 DEF Claim, Stays, RunsStay, RequestsStay

LEMMA LoadStays ==
  ASSUME TypeOK, TablesInv, NEW w \in Workers, Load(w) \/ StartRun(w)
  PROVE  Stays
<1>1. IsBusy(w)
  BY DEF Load, StartRun, IsBusy, Busy
<1>2. ASSUME NEW pc, NEW decision
      PROVE  /\ Remember(w, pc).row = worker[w].row
             /\ [Remember(w, pc) EXCEPT !.decision = decision].row
                  = worker[w].row
  BY <1>1, BusyHasRun DEF Remember, WorkerState
<1>3. WorkersStay
  <2>1. CASE Abort(w)
    BY <2>1, AbortStays
  <2>2. CASE \E pc, decision : worker' = [worker EXCEPT ![w] =
               [Remember(w, pc) EXCEPT !.decision = decision]]
    <3>1. PICK pc, decision : worker' = [worker EXCEPT ![w] =
            [Remember(w, pc) EXCEPT !.decision = decision]]
      BY <2>2
    <3> DEFINE v == [Remember(w, pc) EXCEPT !.decision = decision]
    <3>2. Exists(v.row)
      BY <1>1, <1>2, BusyHasRun
    <3> HIDE DEF v
    <3> QED  BY <3>1, <3>2, SessionStays DEF v
  <2>3. CASE worker' = [worker EXCEPT ![w] = Remember(w, "executing")]
    BY <1>1, <1>2, <2>3, BusyHasRun, SessionStays
  <2>4. CASE Astray(w)
    BY <1>1, <2>4, GotoStays
  <2> QED  BY <2>1, <2>2, <2>3, <2>4 DEF Load, StartRun
<1>4. RunsStay
  BY <1>1, BusyHasRun, RunStays DEF Load, StartRun, TypeOK, RunType, RunsStay
<1> QED  BY <1>3, <1>4, SameTable DEF Load, StartRun, Stays, RequestsStay

LEMMA ThinkStays ==
  ASSUME TypeOK, TablesInv, NEW w \in Workers,
         Fail(w) \/ Think(w) \/ ThinkAstray(w) \/ ThinkError(w)
  PROVE  Stays
<1>1. IsBusy(w) /\ UNCHANGED request
  BY DEF Fail, Think, ThinkAstray, ThinkError, Executing, IsBusy, Busy
<1>2. RequestsStay
  BY <1>1 DEF RequestsStay
<1>3. CASE Fail(w)
  <2>1. "failed" \in StepStatuses \ {"absent", "waiting_approval"}
    BY DEF StepStatuses
  <2>2. RowsStay
    BY <1>1, <1>3, <2>1, BusyHasRun, StatusStays DEF Fail
  <2>3. RunsStay
    BY <1>1, <1>3, BusyHasRun DEF Fail, Written, TypeOK, RunType, RunsStay
  <2> QED  BY <1>2, <1>3, <2>2, <2>3, AbortStays DEF Fail, Stays
<1>4. CASE Think(w)
  BY <1>1, <1>2, <1>4, CompleteStays, GotoStays DEF Think, Stays
<1>5. CASE ThinkAstray(w)
  BY <1>1, <1>2, <1>5, CompleteStays, GotoStays DEF ThinkAstray, Stays
<1>6. CASE ThinkError(w)
  BY <1>1, <1>2, <1>6, SameTable, GotoStays DEF ThinkError, Stays, RunsStay
<1> QED  BY <1>3, <1>4, <1>5, <1>6

LEMMA ToolCallStays ==
  ASSUME TypeOK, TablesInv, NEW w \in Workers,
         ToolError(w) \/ AskApproval(w) \/ Execute(w)
  PROVE  Stays
<1>1. IsBusy(w) /\ UNCHANGED request
  BY DEF ToolError, AskApproval, Execute, Executing, IsBusy, Busy
<1>2. RequestsStay
  BY <1>1 DEF RequestsStay
<1>3. CASE ToolError(w)
  BY <1>1, <1>2, <1>3, SameTable, GotoStays DEF ToolError, Stays, RunsStay
<1>4. CASE Execute(w)
  BY <1>1, <1>2, <1>4, SameTable, GotoStays DEF Execute, Stays, RunsStay
<1>5. CASE AskApproval(w)
  <2>1. RunsStay
    BY <1>1, <1>5, BusyHasRun
       DEF AskApproval, Written, TypeOK, RunType, RunsStay
  <2>2. CASE step' = step
    BY <1>1, <1>2, <1>5, <2>1, <2>2, SameTable, AbortStays, GotoStays
       DEF AskApproval, Stays
  <2>3. CASE step' # step
    <3>1. step' = [step EXCEPT ![worker[w].row] =
                    [step[worker[w].row] EXCEPT
                       !.status = "waiting_approval", !.worker = None,
                       !.stale = FALSE, !.decision = "none"]]
      BY <1>5, <2>3 DEF AskApproval
    <3>2. step[worker[w].row].tool \in GatedTools
      BY <1>5 DEF AskApproval, Unapproved, Row
    <3>3. RowsStay
      BY <1>1, <3>1, <3>2, BusyHasRun DEF TypeOK, StepType, RowsStay, Exists
    <3> QED  BY <1>1, <1>2, <1>5, <2>1, <3>3, AbortStays, GotoStays
             DEF AskApproval, Stays
  <2> QED  BY <2>2, <2>3
<1> QED  BY <1>3, <1>4, <1>5

LEMMA AfterToolStays ==
  ASSUME TypeOK, TablesInv, NEW w \in Workers,
         ToolRan(w) \/ ToolInvalid(w) \/ Summarize(w)
  PROVE  Stays
<1>1. IsBusy(w) /\ UNCHANGED request
  BY DEF ToolRan, ToolInvalid, Summarize, Executing, IsBusy, Busy
<1>2. RequestsStay
  BY <1>1 DEF RequestsStay
<1>3. CASE ToolRan(w)
  BY <1>1, <1>2, <1>3, CompleteStays, GotoStays DEF ToolRan, Stays
<1>4. CASE ToolInvalid(w)
  BY <1>1, <1>2, <1>4, CompleteStays, GotoStays DEF ToolInvalid, Stays
<1>5. CASE Summarize(w)
  <2>1. "completed" \in StepStatuses \ {"absent", "waiting_approval"}
    BY DEF StepStatuses
  <2>2. RowsStay
    BY <1>1, <1>5, <2>1, BusyHasRun, StatusStays DEF Summarize
  <2>3. RunsStay
    BY <1>1, <1>5, BusyHasRun DEF Summarize, Written, TypeOK, RunType, RunsStay
  <2> QED  BY <1>1, <1>2, <1>5, <2>2, <2>3, AbortStays, GotoStays
           DEF Summarize, Stays
<1> QED  BY <1>3, <1>4, <1>5

LEMMA RecoveryStays ==
  ASSUME TypeOK, TablesInv, NEW w \in Workers, Crash(w) \/ Restart(w)
  PROVE  Stays
<1>1. WorkersStay
  <2>1. \E pc \in {"down", "booting", "idle"} :
          worker' = [worker EXCEPT ![w] = [IdleWorker EXCEPT !.pc = pc]]
    BY DEF Crash, Restart, RecoverClaims, RecoverRuns, IdleWorker
  <2> QED  BY <2>1, SessionStays DEF IdleWorker, Busy
<1>2. RequestsStay
  BY DEF Crash, Restart, RecoverClaims, RecoverRuns, RequestsStay
<1>3. CASE Crash(w)
  BY <1>1, <1>2, <1>3, SameTable DEF Crash, Stays, RunsStay
<1>4. CASE RecoverClaims(w)
  <2>1. RowsStay
    BY <1>4 DEF RecoverClaims, TypeOK, StepType, RowsStay, Exists
  <2> QED  BY <1>1, <1>2, <1>4, <2>1 DEF RecoverClaims, Stays, RunsStay
<1>5. CASE RecoverRuns(w)
  <2>1. RunsStay
    <3>1. \A r \in Runs : Stalled(r) => run[r].status # "absent"
      BY DEF Stalled
    <3> QED  BY <1>5, <3>1 DEF RecoverRuns, TypeOK, RunType, RunsStay
  <2> QED  BY <1>1, <1>2, <1>5, <2>1, SameTable DEF RecoverRuns, Stays
<1> QED  BY <1>3, <1>4, <1>5 DEF Restart

LEMMA ExpireStays ==
  ASSUME TypeOK, TablesInv, NEW x \in Rows, Expire(x)
  PROVE  Stays
BY DEF Expire, TypeOK, StepType, TablesInv, SessionsHaveRows, Stays, RowsStay,
       RunsStay, WorkersStay, RequestsStay, Exists, IsBusy
\* Requests, apart from the two that begin a run.
LEMMA IdleRequestsStay ==
  ASSUME TypeOK, NEW u \in Users, Done(u)
  PROVE  RequestsStay
BY DEF Done, TypeOK, RequestsStay, IdleRequest

LEMMA ProceedStays ==
  ASSUME TypeOK, TablesInv, NEW u \in Users,
         \/ CommitCancel(u) \/ CommitApproval(u) \/ CommitRejection(u)
         \/ CommitRunStatus(u) \/ RequestDies(u)
  PROVE  Stays
<1>0. RunsStay
  BY DEF CommitCancel, CommitApproval, CommitRejection, CommitRunStatus,
         RequestDies, TypeOK, RunType, RunsStay
<1>1. WorkersStay
  BY DEF CommitCancel, CommitApproval, CommitRejection, CommitRunStatus,
         RequestDies, TablesInv, SessionsHaveRows, WorkersStay, IsBusy
<1>2. CASE CommitCancel(u) \/ CommitRunStatus(u) \/ RequestDies(u)
  BY <1>0, <1>1, <1>2, SameTable, IdleRequestsStay
     DEF Stays, CommitCancel, CommitRunStatus, RequestDies
<1>3. CASE CommitApproval(u) \/ CommitRejection(u)
  <2>1. request[u].row \in Rows /\ Exists(request[u].row)
    BY <1>3 DEF CommitApproval, CommitRejection, TypeOK, RequestType, TablesInv,
                SessionsHaveRows
  <2>2. RowsStay
    <3>1. \E status \in {"approved", "rejected"} :
            step' = [step EXCEPT ![request[u].row] =
                       [step[request[u].row] EXCEPT
                          !.status = status, !.decision = status,
                          !.stale = FALSE]]
      BY <1>3 DEF CommitApproval, CommitRejection
    <3> QED  BY <2>1, <3>1 DEF TypeOK, StepType, RowsStay, Exists
  <2>3. RequestsStay
    BY <1>3, IdleRequestsStay
       DEF CommitApproval, CommitRejection, TypeOK, RequestType, RequestState,
           RequestsStay
  <2> QED  BY <1>0, <1>1, <2>2, <2>3 DEF Stays
<1> QED  BY <1>2, <1>3
LEMMA AskKeepsTables ==
  ASSUME TypeOK, TypeOK', TablesInv, NEW u \in Users, Ask(u)
  PROVE  TablesInv' /\ RowsStay
<1>1. UNCHANGED <<run, step, worker>>
  BY DEF Ask, BeginStart, BeginRetry, BeginCancel, BeginDecision
<1>2. RowsStay /\ RunsStay /\ WorkersStay
  BY <1>1 DEF RowsStay, RunsStay, WorkersStay, TablesInv, SessionsHaveRows,
              Exists, IsBusy
<1>3. CASE BeginStart(u) \/ BeginRetry(u) \/ BeginCancel(u)
  <2>1. RequestsStay
    BY <1>3 DEF BeginStart, BeginRetry, BeginCancel, TypeOK, RequestType,
                RequestState, RequestsStay
  <2> QED  BY <1>2, <2>1, TablesFrame
<1>4. ASSUME NEW verdict \in {"approve", "reject"}, BeginDecision(u, verdict)
      PROVE  TablesInv'
  <2>1. PICK x \in Rows :
          /\ step[x].status = "waiting_approval"
          /\ request' = [request EXCEPT ![u] =
               [pc |-> verdict, run |-> x[1], row |-> x,
                status |-> run[x[1]].status]]
    BY <1>4 DEF BeginDecision
  <2>2. Exists(x) /\ step[x].tool \in GatedTools
    BY <2>1 DEF TablesInv, RowShape, Exists
  <2>3. \A v \in Users : \/ request'[v] = request[v]
                         \/ v = u /\ request'[v].pc = verdict /\ request'[v].row = x
    BY <2>1 DEF TypeOK
  <2>4. SessionsHaveRows'
    BY <1>1, <2>2, <2>3 DEF TablesInv, SessionsHaveRows, Exists, IsBusy
  <2>5. SeedsAreFirst'
    BY <1>1, <2>3 DEF TablesInv, SeedsAreFirst, Exists
  <2> QED  BY <1>1, <2>4, <2>5 DEF TablesInv, RowShape, Exists
<1> QED  BY <1>2, <1>3, <1>4 DEF Ask

\* A new run has no rows, no sessions and no other request about its seed.
LEMMA CreateRunKeepsTables ==
  ASSUME TypeOK, TypeOK', TablesInv, NEW u \in Users, CreateRun(u)
  PROVE  TablesInv' /\ RowsStay
<1>1. UNCHANGED <<step, worker>> /\ RowsStay
  BY SameTable DEF CreateRun
<1>2. RunsStay /\ WorkersStay
  BY <1>1 DEF CreateRun, TypeOK, RunType, RunsStay, WorkersStay, TablesInv,
              SessionsHaveRows, Exists, IsBusy
<1>3. CASE Done(u)
  BY <1>1, <1>2, <1>3, IdleRequestsStay, TablesFrame
<1>4. CASE ~Done(u)
  <2>1. PICK r \in Runs :
          /\ run[r].status = "absent"
          /\ run' = [run EXCEPT ![r].status = "pending"]
          /\ request' = [request EXCEPT ![u].pc = "seed", ![u].run = r]
    BY <1>4 DEF CreateRun
  <2>2. /\ run'[r].status = "pending"
        /\ \A q \in Runs : q # r => run'[q] = run[q]
    BY <2>1 DEF TypeOK, RunType
  <2>3. /\ request'[u].pc = "seed" /\ request'[u].run = r
        /\ \A v \in Users : v # u => request'[v] = request[v]
    BY <2>1 DEF TypeOK, RequestType, RequestState
  <2>4. \A n \in Numbers : <<r, n>> \in Rows /\ ~Exists(<<r, n>>)
    BY <2>1 DEF TablesInv, RowShape, Rows
  <2>5. RowShape'
    BY <1>1, <1>2 DEF TablesInv, RowShape, RunsStay, Exists, Rows
  <2>6. SessionsHaveRows'
    BY <1>1, <2>3 DEF TablesInv, SessionsHaveRows, Exists, IsBusy
  <2>7. SeedsAreFirst'
    <3>1. ASSUME NEW v \in Users, request'[v].pc = "seed"
          PROVE  /\ run'[request'[v].run].status # "absent"
                 /\ \A n \in Numbers : ~Exists(<<request[v].run, n>>)'
      <4>1. CASE v = u
        BY <1>1, <2>2, <2>3, <2>4, <4>1 DEF Exists
      <4>2. CASE v # u
        <5>1. request'[v] = request[v] /\ request[v].run \in Runs
          BY <2>3, <3>1, <4>2 DEF TypeOK, RequestType
        <5> QED  BY <1>1, <1>2, <3>1, <5>1
                 DEF RunsStay, TablesInv, SeedsAreFirst, Exists
      <4> QED  BY <4>1, <4>2
    <3>2. ASSUME NEW v \in Users, v # u, request[v].pc = "seed"
          PROVE  request[v].run # r
      BY <2>1, <3>2 DEF TablesInv, SeedsAreFirst
    <3> QED  BY <2>3, <3>1, <3>2 DEF TablesInv, SeedsAreFirst
  <2> QED  BY <1>1, <2>5, <2>6, <2>7 DEF TablesInv
<1> QED  BY <1>3, <1>4
\* The insertions: a row appears where there was none.
LEMMA RowInserted ==
  ASSUME TypeOK, TypeOK', TablesInv, NEW x \in Rows, ~Exists(x), NEW row,
         step' = [step EXCEPT ![x] = row], UNCHANGED run,
         row.status \notin {"absent", "waiting_approval"},
         row.tool # None <=> row.type = "tool_call",
         run[x[1]].status # "absent",
         \A u \in Users : request'[u].pc = "seed" => request'[u].run # x[1],
         WorkersStay, RequestsStay
  PROVE  TablesInv'
<1>1. step'[x] = row /\ \A y \in Rows : y # x => step'[y] = step[y]
  BY DEF TypeOK
<1>2. \A y \in Rows : Exists(y) => Exists(y)' /\ step'[y] = step[y]
  BY <1>1 DEF Exists
<1>3. RowShape'
  BY <1>1 DEF TablesInv, RowShape, Exists
<1>4. \A w \in Workers : IsBusy(w)' => worker'[w].row \in Rows
  BY DEF TypeOK, WorkerType, IsBusy
<1>5. \A u \in Users : request'[u].pc \in {"approve", "reject"} =>
        /\ request'[u] = request[u] /\ request[u].row \in Rows
  BY DEF RequestsStay, TypeOK, RequestType
<1>6. SessionsHaveRows'
  BY <1>2, <1>4, <1>5 DEF TablesInv, SessionsHaveRows, WorkersStay, Exists
<1>7. \A u \in Users : request'[u].pc = "seed" =>
        /\ request'[u] = request[u] /\ request[u].run \in Runs
        /\ request[u].run # x[1]
  BY DEF RequestsStay, TypeOK, RequestType
<1>8. SeedsAreFirst'
  <2>1. \A r \in Runs, n \in Numbers :
          <<r, n>> \in Rows /\ <<r, n>>[1] = r
    BY DEF Rows
  <2>2. \A r \in Runs, n \in Numbers :
          r # x[1] => (Exists(<<r, n>>)' <=> Exists(<<r, n>>))
    BY <1>1, <2>1 DEF Exists
  <2> QED  BY <1>7, <2>2 DEF TablesInv, SeedsAreFirst
<1> QED  BY <1>3, <1>6, <1>8 DEF TablesInv

\* Create inserts a call only where the tool was none.
LEMMA CreateInserts ==
  ASSUME TypeOK, TypeOK', TablesInv, NEW w \in Workers, Create(w)
  PROVE  /\ TablesInv'
         /\ \/ RowsStay
            \/ \E x \in Rows : /\ ~Exists(x)
                               /\ step' = [step EXCEPT ![x] = step'[x]]
<1> DEFINE x == <<RunOf(w), worker[w].number>>
           next == worker[w].next
<1>1. IsBusy(w) /\ worker[w] \in WorkerType
  BY DEF Create, IsBusy, Busy, TypeOK
<1>2. x \in Rows /\ x[1] = RunOf(w)
  BY <1>1, BusyHasRun, BoundsAssumption
     DEF Create, WorkerType, WorkerState, Numbers, Rows
<1>3. WorkersStay
  <2>1. CASE Abort(w) \/ worker' = [worker EXCEPT ![w] = IdleWorker]
    BY <2>1, AbortStays DEF Abort
  <2>2. CASE worker' = [worker EXCEPT ![w] =
               [worker[w] EXCEPT !.next = "think",
                                 !.number = worker[w].number + 1]]
    <3> DEFINE v == [worker[w] EXCEPT !.next = "think",
                                      !.number = worker[w].number + 1]
    <3>1. v.row = worker[w].row
      BY <1>1 DEF WorkerType, WorkerState
    <3>2. Exists(v.row)
      BY <1>1, <3>1, BusyHasRun
    <3> HIDE DEF v
    <3> QED  BY <2>2, <3>2, SessionStays DEF v
  <2>3. CASE Astray(w)
    BY <1>1, <2>3, GotoStays
  <2> QED  BY <2>1, <2>2, <2>3 DEF Create
<1>4. RequestsStay
  BY DEF Create, RequestsStay
<1>5. CASE Exists(x)
  <2>1. RowsStay /\ RunsStay
    BY <1>5, SameTable DEF Create, RunsStay
  <2> QED  BY <1>3, <1>4, <2>1, TablesFrame
<1>6. CASE ~Exists(x)
  <2> DEFINE row == CASE next = "tool_result" -> NewRow(next, "completed", None)
                      [] next \in Tools -> NewRow("tool_call", "pending", next)
                      [] OTHER -> NewRow(next, "pending", None)
  <2>1. step' = [step EXCEPT ![x] = row]
    BY <1>6 DEF Create
  <2>2. /\ row.status \notin {"absent", "waiting_approval"}
        /\ row.tool # None <=> row.type = "tool_call"
    <3>1. ASSUME NEW type, NEW status, NEW tool
          PROVE  /\ NewRow(type, status, tool).type = type
                 /\ NewRow(type, status, tool).status = status
                 /\ NewRow(type, status, tool).tool = tool
      BY DEF NewRow, NoRow
    <3>2. /\ next \in {"think", "summary", "tool_result"} \cup Tools
          /\ Tools \cap {"think", "summary", "tool_result"} = {}
          /\ None \notin Tools
      BY <1>1, ToolsAssumption, NoneAssumption DEF Create, WorkerType
    <3>3. CASE next = "tool_result"
      <4>1. row = NewRow("tool_result", "completed", None)
        BY <3>2, <3>3
      <4> QED  BY <3>1, <4>1
    <3>4. CASE next \in Tools
      <4>1. row = NewRow("tool_call", "pending", next)
        BY <3>2, <3>4
      <4> QED  BY <3>1, <3>2, <3>4, <4>1
    <3>5. CASE next \in {"think", "summary"}
      <4>1. row = NewRow(next, "pending", None)
        BY <3>2, <3>5
      <4> QED  BY <3>1, <3>5, <4>1
    <3> QED  BY <3>2, <3>3, <3>4, <3>5
  <2>3. run[x[1]].status # "absent" /\ UNCHANGED run
    BY <1>1, <1>2, BusyHasRun DEF Create
  <2>4. \A u \in Users : request'[u].pc = "seed" => request'[u].run # x[1]
    <3>1. /\ worker[w].row = <<RunOf(w), worker[w].row[2]>>
          /\ worker[w].row[2] \in Numbers /\ Exists(worker[w].row)
      BY <1>1, BusyHasRun DEF Rows
    <3> QED  BY <1>2, <3>1 DEF Create, TablesInv, SeedsAreFirst
  <2>5. step'[x] = row
    BY <1>2, <2>1 DEF TypeOK
  <2> HIDE DEF row, x
  <2>6. TablesInv'
    BY <1>2, <1>3, <1>4, <1>6, <2>1, <2>2, <2>3, <2>4, RowInserted
  <2> QED  BY <1>2, <1>6, <2>1, <2>5, <2>6
<1> QED  BY <1>5, <1>6

LEMMA SeedInserts ==
  ASSUME TypeOK, TypeOK', TablesInv, NEW u \in Users, SeedThink(u)
  PROVE  /\ TablesInv'
         /\ \E x \in Rows : /\ ~Exists(x)
                            /\ step' = [step EXCEPT ![x] =
                                          NewRow("think", "pending", None)]
<1> DEFINE x == <<request[u].run, 1>>
           row == NewRow("think", "pending", None)
<1>1. x \in Rows /\ x[1] = request[u].run /\ x[2] \in Numbers
  BY BoundsAssumption DEF SeedThink, TypeOK, RequestType, Rows, Numbers
<1>2. ~Exists(x) /\ run[x[1]].status # "absent"
  BY <1>1 DEF SeedThink, TablesInv, SeedsAreFirst
<1>3. step' = [step EXCEPT ![x] = row]
  BY DEF SeedThink
<1>4. row.status = "pending" /\ row.type = "think" /\ row.tool = None
  BY DEF NewRow, NoRow
<1>5. RequestsStay
  BY IdleRequestsStay DEF SeedThink
<1>6. WorkersStay
  BY DEF SeedThink, TablesInv, SessionsHaveRows, WorkersStay, IsBusy
<1>7. \A v \in Users : request'[v].pc = "seed" => request'[v].run # x[1]
  BY DEF SeedThink, Done, TypeOK, TablesInv, SeedsAreFirst, IdleRequest
<1> HIDE DEF x, row
<1>8. UNCHANGED run
  BY DEF SeedThink
<1>9. TablesInv'
  BY <1>1, <1>2, <1>3, <1>4, <1>5, <1>6, <1>7, <1>8, RowInserted
<1> QED  BY <1>1, <1>2, <1>3, <1>9 DEF row
LEMMA InitTables == Init => TablesInv
BY DEF Init, TablesInv, RowShape, SessionsHaveRows, SeedsAreFirst, Exists, NoRow,
       IdleWorker, IdleRequest, IsBusy, Busy

\* What every step does to the table of steps: it keeps every call, or inserts
\* one row.
LEMMA StepTables ==
  ASSUME TypeOK, TablesInv, [Next]_vars
  PROVE  /\ TablesInv'
         /\ \/ RowsStay
            \/ \E x \in Rows : /\ ~Exists(x)
                               /\ step' = [step EXCEPT ![x] = step'[x]]
                               /\ UNCHANGED <<granted, execs>>
<1>1. TypeOK'
  BY StepTyped
<1>2. CASE \E w \in Workers : Create(w)
  BY <1>1, <1>2, CreateInserts DEF Create
<1>3. CASE \E w \in Workers : Claim(w) \/ (Process(w) /\ ~Create(w))
                              \/ Crash(w) \/ Restart(w)
  <2>1. Stays
    BY <1>3, ClaimStays, LoadStays, ThinkStays, ToolCallStays, AfterToolStays,
       RecoveryStays DEF Process
  <2> QED  BY <1>1, <2>1, TablesFrame DEF Stays
<1>4. CASE \E x \in Rows : Expire(x)
  BY <1>1, <1>4, ExpireStays, TablesFrame DEF Stays
<1>5. CASE \E u \in Users : Ask(u) \/ Proceed(u) \/ RequestDies(u)
  <2>1. PICK u \in Users : Ask(u) \/ Proceed(u) \/ RequestDies(u)
    BY <1>5
  <2>2. CASE Ask(u) \/ CreateRun(u)
    BY <1>1, <2>2, AskKeepsTables, CreateRunKeepsTables
  <2>3. CASE SeedThink(u)
    <3>1. PICK x \in Rows : /\ ~Exists(x)
                            /\ step' = [step EXCEPT ![x] =
                                          NewRow("think", "pending", None)]
      BY <1>1, <2>3, SeedInserts
    <3>2. step' = [step EXCEPT ![x] = step'[x]]
      BY <3>1 DEF TypeOK
    <3> QED  BY <1>1, <2>3, <3>1, <3>2, SeedInserts DEF SeedThink
  <2>4. CASE \/ CommitCancel(u) \/ CommitApproval(u) \/ CommitRejection(u)
             \/ CommitRunStatus(u) \/ RequestDies(u)
    BY <1>1, <2>4, ProceedStays, TablesFrame DEF Stays
  <2> QED  BY <2>1, <2>2, <2>3, <2>4 DEF Proceed
<1>6. CASE UNCHANGED vars
  BY <1>6 DEF vars, TablesInv, RowShape, SessionsHaveRows, SeedsAreFirst,
              RowsStay, Exists, IsBusy
<1> QED  BY <1>2, <1>3, <1>4, <1>5, <1>6 DEF Next

LEMMA TablesHold == Spec => []TablesInv
BY InitTables, StepTables, TypeCorrect, PTL DEF Spec

-----------------------------------------------------------------------------
(* The runtime implements GatedCalls. *)

\* A step that keeps the calls, the approvals and what was carried out.
LEMMA PromiseStutters ==
  ASSUME \A x \in Rows : step'[x].tool = step[x].tool,
         UNCHANGED <<granted, execs>>
  PROVE  UNCHANGED Promise!vars
BY DEF Promise!vars

\* An inserted row proposes its call, if it is one.
LEMMA InsertionProposes ==
  ASSUME TypeOK, TypeOK', ApprovalInv, TablesInv, NEW x \in Rows, ~Exists(x),
         step' = [step EXCEPT ![x] = step'[x]], UNCHANGED <<granted, execs>>
  PROVE  [Promise!Next]_(Promise!vars)
<1>1. step[x].tool = None
  BY DEF ApprovalInv, TablesInv, RowShape
<1>2. \A y \in Rows : y # x => step'[y] = step[y]
  BY DEF TypeOK
<1>3. step'[x].tool \in Tools \cup {None}
  BY DEF TypeOK, StepType
<1>4. CASE step'[x].tool = None
  BY <1>1, <1>2, <1>4, PromiseStutters
<1>5. CASE step'[x].tool \in Tools
  <2>1. [y \in Rows |-> step'[y].tool] =
          [[y \in Rows |-> step[y].tool] EXCEPT ![x] = step'[x].tool]
    BY <1>2
  <2>2. Promise!Propose(x)
    BY <1>1, <1>5, <2>1 DEF Promise!Propose
  <2> QED  BY <2>2 DEF Promise!Next
<1> QED  BY <1>3, <1>4, <1>5

\* The gate: what is carried out is a call, and approved if it needs to be.
LEMMA ExecuteCarriesOut ==
  ASSUME TypeOK, ApprovalInv, TablesInv, NEW w \in Workers, Execute(w)
  PROVE  [Promise!Next]_(Promise!vars)
<1> DEFINE x == worker[w].row
<1>1. IsBusy(w) /\ step[x].type = "tool_call" /\ x \in Rows
  BY BusyHasRun DEF Execute, Executing, IsBusy, Busy, Row
<1>2. step[x].tool \in Tools
  BY <1>1 DEF TypeOK, StepType, TablesInv, RowShape
<1>3. step[x].tool \in GatedTools => x \in granted
  BY <1>1 DEF Execute, Unapproved, Row, ApprovalInv
<1>4. UNCHANGED <<step, granted>>
  BY DEF Execute
<1>5. CASE execs' = execs
  BY <1>4, <1>5, PromiseStutters
<1>6. CASE execs' # execs
  <2>1. execs' = [execs EXCEPT ![x] = @ + 1]
    BY <1>6 DEF Execute
  <2> HIDE DEF x
  <2>2. Promise!CarryOut(x)
    BY <1>1, <1>2, <1>3, <1>4, <2>1 DEF Promise!CarryOut
  <2> QED  BY <1>1, <2>2 DEF Promise!Next
<1> QED  BY <1>5, <1>6

LEMMA ApprovalIsOfGated ==
  ASSUME TypeOK, TablesInv, RowsStay, NEW u \in Users, CommitApproval(u)
  PROVE  [Promise!Next]_(Promise!vars)
<1>1. /\ request[u].row \in Rows
      /\ step[request[u].row].tool \in GatedTools
      /\ granted' = granted \cup {request[u].row} /\ UNCHANGED execs
  BY DEF CommitApproval, TypeOK, RequestType, TablesInv, SessionsHaveRows
<1>2. \A x \in Rows : step'[x].tool = step[x].tool
  BY DEF RowsStay
<1>3. [x \in Rows |-> step'[x].tool] = [x \in Rows |-> step[x].tool]
  BY <1>2
<1>4. Promise!Approve(request[u].row)
  BY <1>1, <1>3 DEF Promise!Approve
<1> QED  BY <1>1, <1>4 DEF Promise!Next

LEMMA StepIsPromised ==
  ASSUME TypeOK, ApprovalInv, TablesInv, [Next]_vars
  PROVE  [Promise!Next]_(Promise!vars)
<1>1. TypeOK'
  BY StepTyped
<1>2. ASSUME NEW x \in Rows, ~Exists(x),
             step' = [step EXCEPT ![x] = step'[x]], UNCHANGED <<granted, execs>>
      PROVE  [Promise!Next]_(Promise!vars)
  BY <1>1, <1>2, InsertionProposes
<1>3. CASE \E w \in Workers : Execute(w)
  BY <1>3, ExecuteCarriesOut
<1>4. CASE RowsStay /\ \E u \in Users : CommitApproval(u)
  BY <1>4, ApprovalIsOfGated
<1>5. CASE RowsStay /\ UNCHANGED <<granted, execs>>
  BY <1>5, PromiseStutters DEF RowsStay
<1>6. \/ \E w \in Workers : Execute(w)
      \/ \E u \in Users : CommitApproval(u)
      \/ UNCHANGED <<granted, execs>>
  BY DEF Next, vars, Claim, Process, Load, StartRun, Fail, Think, ThinkAstray,
         ThinkError, ToolError, AskApproval, ToolRan, ToolInvalid, Create,
         Summarize, Crash, Restart, RecoverClaims, RecoverRuns, Expire, Ask,
         BeginStart, BeginRetry, BeginCancel, BeginDecision, Proceed, CreateRun,
         SeedThink, CommitCancel, CommitRejection, CommitRunStatus, RequestDies
<1>7. \/ RowsStay
      \/ \E x \in Rows : /\ ~Exists(x)
                         /\ step' = [step EXCEPT ![x] = step'[x]]
                         /\ UNCHANGED <<granted, execs>>
  BY StepTables
<1> QED  BY <1>2, <1>3, <1>4, <1>5, <1>6, <1>7

\* The runtime implements GatedCalls, whatever the number of workers, users and
\* crashes and however late they are: a step is one call for ever, an approval
\* is of a call that needs one, and a call that needs one is carried out after.
THEOREM RuntimeKeepsPromise == Spec => CallsAreGated
<1>1. Init => Promise!Init
  BY DEF Init, Promise!Init, NoRow
<1>2. TypeOK /\ ApprovalInv /\ TablesInv /\ [Next]_vars
        => [Promise!Next]_(Promise!vars)
  BY StepIsPromised
<1>3. Spec => []ApprovalInv
  BY InitGuarded, StepGuarded, TypeCorrect, PTL DEF Spec
<1> QED  BY <1>1, <1>2, <1>3, TablesHold, TypeCorrect, PTL
         DEF Spec, CallsAreGated, Promise!Spec
-----------------------------------------------------------------------------
(* A cancellation that nobody works against sticks. *)

LEMMA QuietStep ==
  ASSUME TypeOK, [Next]_vars, NEW r \in Runs,
         run[r].status = "cancelled", ~Outdated(r)
  PROVE  run'[r].status = "cancelled" /\ ~Outdated(r)'
<1> DEFINE Calm(w) == ~(IsBusy(w)' /\ RunOf(w)' = r)
           Meek(u) == request'[u].run = r =>
                        /\ request'[u].pc \notin {"seed", "cancel", "resume", "pause"}
                        /\ request'[u].pc \in {"approve", "reject"} =>
                             request'[u].status = "cancelled"
<1>1. \A w \in Workers : IsBusy(w) => RunOf(w) # r
  BY DEF Outdated
<1>2. \A u \in Users : request[u].run = r =>
        /\ request[u].pc \notin {"seed", "cancel", "resume", "pause"}
        /\ request[u].pc \in {"approve", "reject"} =>
             request[u].status = "cancelled"
  BY DEF Outdated
<1>3. ASSUME run'[r].status = "cancelled", \A w \in Workers : Calm(w),
             \A u \in Users : Meek(u)
      PROVE  run'[r].status = "cancelled" /\ ~Outdated(r)'
  BY <1>3 DEF Outdated
<1>4. ASSUME UNCHANGED request  PROVE \A u \in Users : Meek(u)
  BY <1>2, <1>4
<1>5. ASSUME UNCHANGED worker  PROVE \A w \in Workers : Calm(w)
  BY <1>1, <1>5 DEF IsBusy, RunOf
\* A claim is of a runnable run.
<1>6. ASSUME NEW w \in Workers, Claim(w)
      PROVE  run'[r].status = "cancelled" /\ ~Outdated(r)'
  <2>1. PICK x \in NextClaims : worker' = [worker EXCEPT ![w] =
          [IdleWorker EXCEPT !.pc = "claimed", !.row = x]]
    BY <1>6 DEF Claim
  <2>2. x[1] # r
    BY <2>1 DEF NextClaims, Claimable, Abandoned, Runnable, RunnableStatuses
  <2>3. \A v \in Workers : v # w => worker'[v] = worker[v]
    BY <2>1 DEF TypeOK
  <2>4. worker'[w].row = x
    BY <2>1 DEF TypeOK, IdleWorker
  <2>5. \A v \in Workers : Calm(v)
    BY <1>1, <2>2, <2>3, <2>4 DEF IsBusy, RunOf
  <2> HIDE DEF Calm, Meek
  <2> QED  BY <1>3, <1>4, <1>6, <2>5 DEF Claim
\* A worker that is busy is so with another run, and stays with it.
<1>7. ASSUME NEW w \in Workers, Process(w)
      PROVE  run'[r].status = "cancelled" /\ ~Outdated(r)'
  <2>1. /\ IsBusy(w) /\ RunOf(w) # r /\ UNCHANGED request
        /\ worker[w] \in WorkerState
    BY <1>1, <1>7, WorkerAt
       DEF Process, Load, StartRun, Fail, Think, ThinkAstray, ThinkError,
           ToolError, AskApproval, Execute, ToolRan, ToolInvalid, Create,
           Summarize, Executing, IsBusy, Busy
  <2>2. run'[r] = run[r]
    BY <1>7, <2>1
       DEF Process, Load, StartRun, Fail, Think, ThinkAstray, ThinkError,
           ToolError, AskApproval, Execute, ToolRan, ToolInvalid, Create,
           Summarize, Complete, TypeOK
  <2>3. \E v : /\ worker' = [worker EXCEPT ![w] = v]
               /\ v.pc \in Busy => v.row = worker[w].row
    <3>0. IdleWorker.pc \notin Busy
      BY DEF IdleWorker, Busy
    <3>1. CASE Abort(w)
      BY <3>0, <3>1 DEF Abort
    <3>2. CASE \E next : GoCreate(w, next)
      BY <3>2 DEF GoCreate, Goto, IdleWorker
    <3>3. CASE \E pc, status : worker' = [worker EXCEPT ![w] =
                                 [Goto(w, pc) EXCEPT !.status = status]]
      BY <3>3 DEF Goto, IdleWorker
    <3>4. CASE \E pc : worker' = [worker EXCEPT ![w].pc = pc, ![w].prior = {}]
      <4>1. PICK pc : worker' = [worker EXCEPT ![w] =
                                   [worker[w] EXCEPT !.pc = pc, !.prior = {}]]
        BY <3>4 DEF TypeOK
      <4>2. [worker[w] EXCEPT !.pc = pc, !.prior = {}].row = worker[w].row
        BY <2>1 DEF WorkerState
      <4> QED  BY <4>1, <4>2
    <3>5. CASE worker' = [worker EXCEPT ![w] = Remember(w, "executing")]
      <4>1. Remember(w, "executing").row = worker[w].row
        BY <2>1 DEF Remember, WorkerState
      <4> QED  BY <3>5, <4>1
    <3>6. CASE \E pc, decision : worker' = [worker EXCEPT ![w] =
                 [Remember(w, pc) EXCEPT !.decision = decision]]
      <4>1. PICK pc, decision : worker' = [worker EXCEPT ![w] =
                   [Remember(w, pc) EXCEPT !.decision = decision]]
        BY <3>6
      <4>2. [Remember(w, pc) EXCEPT !.decision = decision].row = worker[w].row
        BY <2>1 DEF Remember, WorkerState
      <4> QED  BY <4>1, <4>2
    <3>7. CASE Create(w)
      <4>1. CASE worker' = [worker EXCEPT ![w] = IdleWorker]
        BY <3>0, <4>1
      <4>2. CASE worker' = [worker EXCEPT ![w] =
                   [worker[w] EXCEPT !.next = "think",
                                     !.number = worker[w].number + 1]]
        <5>1. [worker[w] EXCEPT !.next = "think",
                 !.number = worker[w].number + 1].row = worker[w].row
          BY <2>1 DEF WorkerState
        <5> QED  BY <4>2, <5>1
      <4>3. CASE Astray(w)
        BY <3>3, <4>3, AstrayGoes
      <4> QED  BY <3>7, <4>1, <4>2, <4>3 DEF Create, Abort
    <3>8. CASE Load(w)
      <4>1. \/ Abort(w)
            \/ \E pc, decision : worker' = [worker EXCEPT ![w] =
                 [Remember(w, pc) EXCEPT !.decision = decision]]
        BY <3>8 DEF Load
      <4> QED  BY <3>1, <3>6, <4>1
    <3> QED  BY <1>7, <3>1, <3>2, <3>3, <3>4, <3>5, <3>7, <3>8, AstrayGoes
             DEF Process, StartRun, Fail, Think, ThinkAstray, ThinkError,
                 ToolError, AskApproval, Execute, ToolRan, ToolInvalid,
                 Summarize
  <2>4. \A v \in Workers : Calm(v)
    BY <1>1, <2>1, <2>3 DEF TypeOK, IsBusy, RunOf
  <2> HIDE DEF Calm, Meek
  <2> QED  BY <1>3, <1>4, <2>1, <2>2, <2>4
<1>8. ASSUME NEW w \in Workers, Crash(w) \/ Restart(w)
      PROVE  run'[r].status = "cancelled" /\ ~Outdated(r)'
  <2>1. \E pc \in {"down", "booting", "idle"} :
          worker' = [worker EXCEPT ![w] = [IdleWorker EXCEPT !.pc = pc]]
    BY <1>8 DEF Crash, Restart, RecoverClaims, RecoverRuns, IdleWorker
  <2>2. \A v \in Workers : Calm(v)
    BY <1>1, <2>1 DEF TypeOK, IdleWorker, IsBusy, RunOf, Busy
  <2>3. run'[r].status = "cancelled"
    BY <1>8 DEF Crash, Restart, RecoverClaims, RecoverRuns, Stalled
  <2> HIDE DEF Calm, Meek
  <2> QED  BY <1>3, <1>4, <1>8, <2>2, <2>3
           DEF Crash, Restart, RecoverClaims, RecoverRuns
\* A request about a cancelled run only decides a step of it.
<1>9. ASSUME NEW u \in Users, Ask(u) \/ Proceed(u) \/ RequestDies(u)
      PROVE  run'[r].status = "cancelled" /\ ~Outdated(r)'
  <2>1. UNCHANGED worker
    BY <1>9 DEF Ask, BeginStart, BeginRetry, BeginCancel, BeginDecision, Proceed,
                CreateRun, SeedThink, CommitCancel, CommitApproval,
                CommitRejection, CommitRunStatus, RequestDies
  <2>2. run'[r].status = "cancelled"
    BY <1>2, <1>9
       DEF Ask, BeginStart, BeginRetry, BeginCancel, BeginDecision, Proceed,
           CreateRun, SeedThink, CommitCancel, CommitApproval, CommitRejection,
           CommitRunStatus, RequestDies, TypeOK, RunType
  <2>3. \A v \in Users : v # u => request'[v] = request[v]
    BY <1>9 DEF Ask, BeginStart, BeginRetry, BeginCancel, BeginDecision, Proceed,
                CreateRun, SeedThink, CommitCancel, CommitApproval,
                CommitRejection, CommitRunStatus, RequestDies, Done, TypeOK
  <2>4. Meek(u)
    <3>1. request[u] \in RequestState
      BY DEF TypeOK, RequestType
    <3>2. CASE Done(u)
      BY <3>2 DEF Done, TypeOK, IdleRequest
    <3>3. CASE BeginStart(u) \/ BeginRetry(u)
      BY <1>2, <3>1, <3>3
         DEF BeginStart, BeginRetry, TypeOK, RequestType, RequestState
    <3>4. CASE BeginCancel(u)
      BY <3>1, <3>4
         DEF BeginCancel, Active, ActiveStatuses, TypeOK, RequestType, RequestState
    <3>5. CASE BeginDecision(u, "approve") \/ BeginDecision(u, "reject")
      BY <3>1, <3>5 DEF BeginDecision, TypeOK, RequestType, RequestState
    <3>6. CASE CreateRun(u)
      BY <3>1, <3>2, <3>6 DEF CreateRun, TypeOK, RequestType, RequestState
    <3>7. CASE CommitApproval(u) \/ CommitRejection(u)
      BY <1>2, <3>1, <3>2, <3>7
         DEF CommitApproval, CommitRejection, TypeOK, RequestType, RequestState
    <3> QED  BY <1>9, <3>2, <3>3, <3>4, <3>5, <3>6, <3>7
             DEF Ask, Proceed, SeedThink, CommitCancel, CommitRunStatus,
                 RequestDies
  <2>5. \A v \in Users : Meek(v)
    BY <1>2, <2>3, <2>4
  <2> HIDE DEF Calm, Meek
  <2> QED  BY <1>3, <1>5, <2>1, <2>2, <2>5
<1>10. ASSUME UNCHANGED <<run, worker, request>>
       PROVE  run'[r].status = "cancelled" /\ ~Outdated(r)'
  <2> HIDE DEF Calm, Meek
  <2> QED  BY <1>3, <1>4, <1>5, <1>10
<1> QED  BY <1>6, <1>7, <1>8, <1>9, <1>10 DEF Next, vars, Expire

\* Once every session that still works with a run as it was before it was
\* cancelled has ended, no claim, no recovery and no late decision revives it.
THEOREM CancellationSticks == Spec => CancelSticksOnceQuiet
<1>1. TypeOK /\ [Next]_vars =>
        [\A r \in Runs : run[r].status = "cancelled" /\ ~Outdated(r) =>
           run'[r].status = "cancelled" /\ ~Outdated(r)']_vars
  BY QuietStep
<1> QED  BY <1>1, TypeCorrect, PTL DEF Spec, CancelSticksOnceQuiet

-----------------------------------------------------------------------------
(***************************************************************************)
(* What AgentRuntime keeps as long as claims expire only when their worker *)
(* is gone and one user asks at a time: an investigation is executed by    *)
(* one worker, step after step, within its budget, and its run pauses and  *)
(* ends with a step to show for it.  Without either hypothesis it is not   *)
(* so: a late worker, or a second decision on the same step, forks the     *)
(* investigation.                                                          *)
(***************************************************************************)

OneUserInTime == ~Untimely /\ \A u, v \in Users : u = v

-----------------------------------------------------------------------------
(* Who owns a run. *)

Open(x) == step[x].status \in OpenStatuses

\* A run has at most one open step.
OneOpen == \A x, y \in Rows : x[1] = y[1] /\ Open(x) /\ Open(y) => x = y

\* A worker that goes on with its run, rather than failing it.
Holding(w) == IsBusy(w) /\ worker[w].pc # "failing"

OneHolder == \A v, w \in Workers :
               Holding(v) /\ Holding(w) /\ RunOf(v) = RunOf(w) => v = w

\* The step of such a worker is running, until it is completed; one that asked
\* for its approval may fail it meanwhile.
Advanced(w) ==
  /\ worker[w].pc # "create" => Row(w).status \in {"running", "failed"}
  /\ worker[w].pc = "create" => Row(w).status \in {"completed", "failed"}

Owns(w) ==
  /\ Advanced(w)
  /\ \A y \in Rows : y[1] = RunOf(w) /\ Open(y) => y = worker[w].row

\* The step of a busy worker can be claimed only after an approval.
Keeps(w) ==
  /\ Row(w).status # "pending"
  /\ Row(w).status = "running" =>
       ~Row(w).stale /\ (Row(w).worker = w \/ worker[w].row \in granted)
  /\ Row(w).status = "approved" => worker[w].row \in granted

Shared == \A v, w \in Workers :
            /\ v # w /\ IsBusy(v) /\ IsBusy(w) /\ worker[v].row = worker[w].row
            => worker[v].row \in granted

\* A decision is about a step that still waits, or was failed by the worker that
\* asked for it, of a run that nobody goes on with and that is as the request
\* loaded it, or failed; a rejection pauses the run of a step it rejected.
Deciding == {"approve", "reject", "pause"}

Fresh(u) ==
  /\ request[u].row \in Rows /\ request[u].run = request[u].row[1]
  /\ \A w \in Workers : Holding(w) => RunOf(w) # request[u].run
  /\ \A y \in Rows : y[1] = request[u].run /\ Open(y) => y = request[u].row
  /\ request[u].pc # "pause" =>
       /\ step[request[u].row].status \in {"waiting_approval", "failed"}
       /\ run[request[u].run].status \in {request[u].status, "failed"}
  /\ request[u].pc = "pause" =>
       /\ step[request[u].row].status \in {"rejected", "failed"}
       /\ step[request[u].row].decision = "rejected"

DecisionsAreFresh == \A u \in Users : request[u].pc \in Deciding => Fresh(u)

OrderInv ==
  /\ OneOpen
  /\ OneHolder
  /\ \A w \in Workers : Holding(w) => Owns(w)
  /\ \A w \in Workers : IsBusy(w) => Keeps(w)
  /\ Shared
  /\ DecisionsAreFresh

LEMMA InitOrder == Init => OrderInv
BY DEF Init, OrderInv, OneOpen, OneHolder, Holding, Shared, DecisionsAreFresh,
       Deciding, Open, OpenStatuses, NoRow, IdleWorker, IdleRequest, IsBusy, Busy

LEMMA RowIsPair == ASSUME NEW x \in Rows PROVE x[1] \in Runs /\ x[2] \in Numbers
                                               /\ x = <<x[1], x[2]>>
BY DEF Rows

\* A worker with a claim is alone with its run: its step is running, completed
\* or failed, and no request decides about the run.
LEMMA HolderAlone ==
  ASSUME TypeOK, TablesInv, OrderInv, NEW w \in Workers, Holding(w)
  PROVE  /\ worker[w].row \in Rows /\ worker[w].row[1] = RunOf(w)
         /\ RunOf(w) \in Runs
         /\ Row(w).status \in {"running", "completed", "failed"}
         /\ \A u \in Users : request[u].pc \in Deciding =>
              /\ request[u].row \in Rows /\ request[u].run \in Runs
              /\ request[u].run = request[u].row[1]
              /\ request[u].run # RunOf(w) /\ request[u].row # worker[w].row
<1>1. /\ worker[w].row \in Rows /\ worker[w].row[1] = RunOf(w)
      /\ RunOf(w) \in Runs
  BY BusyHasRun DEF Holding
<1>2. Row(w).status \in {"running", "completed", "failed"}
  BY DEF OrderInv, Owns, Advanced
<1>3. ASSUME NEW u \in Users, request[u].pc \in Deciding
      PROVE  /\ request[u].row \in Rows /\ request[u].run \in Runs
             /\ request[u].run = request[u].row[1]
             /\ request[u].run # RunOf(w) /\ request[u].row # worker[w].row
  <2>1. Fresh(u)
    BY <1>3 DEF OrderInv, DecisionsAreFresh
  <2> QED  BY <1>1, <2>1, RowIsPair DEF Fresh
<1> QED  BY <1>1, <1>2, <1>3

\* A row that is left as it is, or closed, keeps what is said of its workers.
LEMMA KeptRow ==
  ASSUME TypeOK, TablesInv, OrderInv, NEW v \in Workers, IsBusy(v),
         worker'[v].row = worker[v].row, granted \subseteq granted',
         \/ step'[worker[v].row] = step[worker[v].row]
         \/ step'[worker[v].row].status
              \in {"completed", "failed", "waiting_approval", "rejected"}
  PROVE  Keeps(v)'
<1>1. Keeps(v) /\ Row(v)' = step'[worker[v].row]
  BY DEF OrderInv, Row
<1>2. CASE step'[worker[v].row] = step[worker[v].row]
  BY <1>1, <1>2 DEF Keeps, Row
<1>3. CASE step'[worker[v].row].status
             \in {"completed", "failed", "waiting_approval", "rejected"}
  BY <1>1, <1>3 DEF Keeps
<1> QED  BY <1>2, <1>3

\* A worker with a claim changes its own row, its run and itself.
LEMMA OwnStep ==
  ASSUME TypeOK, TablesInv, OrderInv, NEW w \in Workers, Holding(w),
         \A y \in Rows : y # worker[w].row => step'[y] = step[y],
         \A v \in Workers : v # w => worker'[v] = worker[v],
         \A r \in Runs : r # RunOf(w) => run'[r] = run[r],
         UNCHANGED <<request, granted>>,
         \/ step'[worker[w].row] = step[worker[w].row]
         \/ step'[worker[w].row].status
              \in {"completed", "failed", "waiting_approval"},
         IsBusy(w)' => worker'[w].row = worker[w].row,
         Holding(w)' => Advanced(w)'
  PROVE  OrderInv'
<1>1. PICK x \in Rows : x = worker[w].row /\ x[1] = RunOf(w)
  BY HolderAlone
<1>2. /\ IsBusy(w)
      /\ \A y \in Rows : y[1] = RunOf(w) /\ y # x => ~Open(y) /\ ~Open(y)'
      /\ \A y \in Rows : y[1] # RunOf(w) => step'[y] = step[y]
  BY <1>1 DEF OrderInv, Owns, Open, Holding
<1>3. OneOpen'
  BY <1>1, <1>2 DEF OrderInv, OneOpen, Open
<1>4. \A v \in Workers : /\ IsBusy(v)' => /\ IsBusy(v)
                                          /\ worker'[v].row = worker[v].row
                                          /\ RunOf(v)' = RunOf(v)
                         /\ Holding(v)' => Holding(v) /\ RunOf(v)' = RunOf(v)
  BY <1>2 DEF IsBusy, RunOf, Holding
<1>5. OneHolder'
  BY <1>4 DEF OrderInv, OneHolder
<1>6. ASSUME NEW v \in Workers, Holding(v)'  PROVE Owns(v)'
  <2>1. CASE v = w
    <3>1. Advanced(w)' /\ RunOf(w)' = RunOf(w) /\ worker'[w].row = x
      BY <1>1, <1>4, <1>6, <2>1 DEF Holding
    <3>2. \A y \in Rows : y[1] = RunOf(w)' /\ Open(y)' => y = worker'[w].row
      BY <1>2, <3>1
    <3> QED  BY <2>1, <3>1, <3>2 DEF Owns
  <2>2. CASE v # w
    <3>1. worker'[v] = worker[v] /\ Holding(v) /\ RunOf(v) # RunOf(w)
          /\ RunOf(v)' = RunOf(v)
      BY <1>4, <1>6, <2>2 DEF OrderInv, OneHolder, Holding
    <3>2. worker[v].row \in Rows /\ worker[v].row[1] = RunOf(v) /\ Owns(v)
      BY <3>1, HolderAlone DEF OrderInv
    <3>3. Row(v)' = Row(v)
      BY <1>2, <3>1, <3>2 DEF Row
    <3>4. Advanced(v)'
      BY <3>1, <3>2, <3>3 DEF Owns, Advanced
    <3>5. \A y \in Rows : y[1] = RunOf(v) => (Open(y)' <=> Open(y))
      BY <1>2, <3>1 DEF Open
    <3>6. \A y \in Rows : y[1] = RunOf(v)' /\ Open(y)' => y = worker'[v].row
      BY <3>1, <3>2, <3>5 DEF Owns
    <3> QED  BY <3>4, <3>6 DEF Owns
  <2> QED  BY <2>1, <2>2
<1>7. ASSUME NEW v \in Workers, IsBusy(v)'  PROVE Keeps(v)'
  <2>1. IsBusy(v) /\ worker'[v].row = worker[v].row /\ worker[v].row \in Rows
    BY <1>4, <1>7, BusyHasRun
  <2>2. \/ step'[worker[v].row] = step[worker[v].row]
        \/ step'[worker[v].row].status
             \in {"completed", "failed", "waiting_approval"}
    BY <2>1
  <2> QED  BY <2>1, <2>2, KeptRow
<1>8. Shared'
  BY <1>4 DEF OrderInv, Shared
<1>9. ASSUME NEW u \in Users, request'[u].pc \in Deciding  PROVE Fresh(u)'
  <2>1. /\ request'[u] = request[u] /\ Fresh(u) /\ request[u].row \in Rows
        /\ request[u].run \in Runs /\ request[u].run = request[u].row[1]
        /\ request[u].run # RunOf(w)
    BY <1>9, HolderAlone DEF OrderInv, DecisionsAreFresh
  <2>2. /\ step'[request[u].row] = step[request[u].row]
        /\ run'[request[u].run] = run[request[u].run]
        /\ \A y \in Rows : y[1] = request[u].run => (Open(y)' <=> Open(y))
    BY <1>2, <2>1 DEF Open
  <2>3. \A v \in Workers : Holding(v)' => RunOf(v)' # request[u].run
    BY <1>4, <2>1 DEF Fresh
  <2> QED  BY <2>1, <2>2, <2>3 DEF Fresh
<1>10. DecisionsAreFresh'
  BY <1>9 DEF DecisionsAreFresh
<1> QED  BY <1>3, <1>5, <1>6, <1>7, <1>8, <1>10 DEF OrderInv

\* _fail_run, by a worker that may have lost its step: it only closes it.
LEMMA FailOrder ==
  ASSUME TypeOK, TablesInv, OrderInv, NEW w \in Workers, Fail(w)
  PROVE  OrderInv'
<1>0. IsBusy(w)
  BY DEF Fail, IsBusy, Busy
<1>1. PICK x \in Rows : x = worker[w].row /\ x[1] = RunOf(w) /\ RunOf(w) \in Runs
  BY <1>0, BusyHasRun
<1>2. /\ step'[x].status = "failed" /\ step'[x].decision = step[x].decision
      /\ \A y \in Rows : y # x => step'[y] = step[y]
  BY <1>1 DEF Fail, TypeOK, StepType
<1>3. /\ \A r \in Runs : run'[r].status \in {run[r].status, "failed"}
      /\ UNCHANGED <<request, granted>>
  BY <1>1 DEF Fail, Written, TypeOK, RunType
<1>4. /\ ~IsBusy(w)' /\ \A v \in Workers : v # w => worker'[v] = worker[v]
  BY DEF Fail, Abort, TypeOK, IsBusy, IdleWorker, Busy
<1>5. \A y \in Rows : Open(y)' => Open(y)
  BY <1>2 DEF Open, OpenStatuses
<1>6. \A v \in Workers : /\ IsBusy(v)' => IsBusy(v) /\ worker'[v] = worker[v]
                                          /\ RunOf(v)' = RunOf(v)
                         /\ Holding(v)' => Holding(v)
  BY <1>4 DEF IsBusy, Holding, RunOf
<1>7. OneOpen' /\ OneHolder'
  BY <1>5, <1>6 DEF OrderInv, OneOpen, OneHolder, Holding
<1>8. ASSUME NEW v \in Workers, Holding(v)'  PROVE Owns(v)'
  <2>1. /\ Holding(v) /\ worker'[v] = worker[v] /\ RunOf(v)' = RunOf(v)
        /\ Owns(v) /\ worker[v].row \in Rows
    BY <1>6, <1>8, HolderAlone DEF OrderInv, Holding
  <2>2. Row(v)'.status \in {Row(v).status, "failed"}
    BY <1>2, <2>1 DEF Row
  <2>3. Advanced(v)'
    BY <2>1, <2>2 DEF Owns, Advanced
  <2> QED  BY <1>5, <2>1, <2>3 DEF Owns
<1>9. ASSUME NEW v \in Workers, IsBusy(v)'  PROVE Keeps(v)'
  <2>1. IsBusy(v) /\ worker'[v].row = worker[v].row /\ worker[v].row \in Rows
    BY <1>6, <1>9, BusyHasRun
  <2> QED  BY <1>2, <1>3, <2>1, KeptRow
<1>10. Shared'
  BY <1>3, <1>6 DEF OrderInv, Shared
<1>11. ASSUME NEW u \in Users, request'[u].pc \in Deciding  PROVE Fresh(u)'
  <2>1. request'[u] = request[u] /\ Fresh(u) /\ request[u].run \in Runs
    BY <1>3, <1>11, RowIsPair DEF OrderInv, DecisionsAreFresh, Fresh
  <2>2. /\ step'[request[u].row].status \in {step[request[u].row].status, "failed"}
        /\ step'[request[u].row].decision = step[request[u].row].decision
    BY <1>2, <2>1 DEF Fresh
  <2>3. run'[request[u].run].status \in {run[request[u].run].status, "failed"}
    BY <1>3, <2>1
  <2> QED  BY <1>5, <1>6, <2>1, <2>2, <2>3 DEF Fresh, Holding
<1> QED  BY <1>7, <1>8, <1>9, <1>10, <1>11 DEF OrderInv, DecisionsAreFresh

\* The forms that a step of a worker takes.
LEMMA AstrayEffect ==
  ASSUME TypeOK, NEW w \in Workers, Astray(w)
  PROVE  /\ worker'[w].pc = "failing" /\ worker'[w].row = worker[w].row
         /\ worker'[w].decision = "none"
         /\ worker'[w].status = run'[RunOf(w)].status
         /\ \A v \in Workers : v # w => worker'[v] = worker[v]
BY DEF Astray, Goto, IdleWorker, TypeOK

LEMMA AstrayOrder ==
  ASSUME TypeOK, TablesInv, OrderInv, NEW w \in Workers, Holding(w), Astray(w),
         \A y \in Rows : y # worker[w].row => step'[y] = step[y],
         \A r \in Runs : r # RunOf(w) => run'[r] = run[r],
         UNCHANGED <<request, granted>>,
         \/ step'[worker[w].row] = step[worker[w].row]
         \/ step'[worker[w].row].status
              \in {"completed", "failed", "waiting_approval"}
  PROVE  OrderInv'
<1>1. ~Holding(w)'
  BY AstrayEffect DEF Holding
<1> QED  BY <1>1, AstrayEffect, OwnStep

LEMMA AbortOrder ==
  ASSUME TypeOK, TablesInv, OrderInv, NEW w \in Workers, Holding(w), Abort(w),
         \A y \in Rows : y # worker[w].row => step'[y] = step[y],
         \A r \in Runs : r # RunOf(w) => run'[r] = run[r],
         UNCHANGED <<request, granted>>,
         \/ step'[worker[w].row] = step[worker[w].row]
         \/ step'[worker[w].row].status
              \in {"completed", "failed", "waiting_approval"}
  PROVE  OrderInv'
<1>1. ~IsBusy(w)' /\ \A v \in Workers : v # w => worker'[v] = worker[v]
  BY DEF Abort, TypeOK, IsBusy, IdleWorker, Busy
<1>2. ~Holding(w)'
  BY <1>1 DEF Holding
<1> QED  BY <1>1, <1>2, OwnStep

\* The row stays as it is.
LEMMA SessionOrder ==
  ASSUME TypeOK, TablesInv, OrderInv, NEW w \in Workers, Holding(w),
         worker[w].pc # "create", UNCHANGED <<step, request, granted>>,
         \A r \in Runs : r # RunOf(w) => run'[r] = run[r], NEW v,
         worker' = [worker EXCEPT ![w] = v],
         v.row = worker[w].row, v.pc # "create"
  PROVE  OrderInv'
<1>1. worker'[w] = v /\ \A u \in Workers : u # w => worker'[u] = worker[u]
  BY DEF TypeOK
<1>2. Row(w)' = Row(w)
  BY <1>1 DEF Row
<1>3. Row(w).status \in {"running", "failed"}
  BY DEF OrderInv, Owns, Advanced
<1>4. Advanced(w)'
  BY <1>1, <1>2, <1>3 DEF Advanced
<1> QED  BY <1>1, <1>4, OwnStep

LEMMA LoadOrder ==
  ASSUME TypeOK, TablesInv, OrderInv, NEW w \in Workers, Load(w) \/ StartRun(w)
  PROVE  OrderInv'
<1>1. /\ Holding(w) /\ IsBusy(w) /\ worker[w].pc # "create"
      /\ UNCHANGED <<step, request, granted>>
  BY DEF Load, StartRun, Holding, IsBusy, Busy
<1>2. worker[w] \in WorkerState /\ RunOf(w) \in Runs
  BY <1>1, BusyHasRun
<1>3. \A r \in Runs : r # RunOf(w) => run'[r] = run[r]
  BY <1>2 DEF Load, StartRun, TypeOK
<1>4. CASE Abort(w)
  BY <1>1, <1>3, <1>4, AbortOrder
<1>5. CASE \E pc \in {"failing", "starting", "executing"} : \E decision :
             worker' = [worker EXCEPT ![w] =
               [Remember(w, pc) EXCEPT !.decision = decision]]
  <2>0. PICK pc \in {"failing", "starting", "executing"} : \E decision :
             worker' = [worker EXCEPT ![w] =
               [Remember(w, pc) EXCEPT !.decision = decision]]
    BY <1>5
  <2>1. PICK decision :
             worker' = [worker EXCEPT ![w] =
               [Remember(w, pc) EXCEPT !.decision = decision]]
    BY <2>0
  <2> DEFINE v == [Remember(w, pc) EXCEPT !.decision = decision]
  <2>2. v.row = worker[w].row /\ v.pc = pc
    BY <1>2 DEF Remember, WorkerState
  <2> HIDE DEF v
  <2> QED  BY <1>1, <1>2, <1>3, <2>1, <2>2, SessionOrder DEF v
<1>6. CASE worker' = [worker EXCEPT ![w] = Remember(w, "executing")]
  <2>1. /\ Remember(w, "executing").row = worker[w].row
        /\ Remember(w, "executing").pc = "executing"
    BY <1>2 DEF Remember, WorkerState
  <2> QED  BY <1>1, <1>2, <1>3, <1>6, <2>1, SessionOrder
<1>7. CASE Astray(w)
  BY <1>1, <1>3, <1>7, AstrayOrder
<1>8. Load(w) => \/ Abort(w)
                 \/ \E pc \in {"failing", "starting", "executing"} : \E decision :
                      worker' = [worker EXCEPT ![w] =
                        [Remember(w, pc) EXCEPT !.decision = decision]]
  BY DEF Load
<1> QED  BY <1>4, <1>5, <1>6, <1>7, <1>8 DEF StartRun

\* The claimed step has no worker but one that asked for its approval, got it
\* and is failing.
LEMMA ClaimOrder ==
  ASSUME TypeOK, TablesInv, OrderInv, NEW w \in Workers, Claim(w)
  PROVE  OrderInv'
<1>1. PICK x \in NextClaims :
        /\ step' = [step EXCEPT ![x].status = "running", ![x].worker = w,
                                ![x].stale = FALSE]
        /\ worker' = [worker EXCEPT ![w] =
                        [IdleWorker EXCEPT !.pc = "claimed", !.row = x]]
  BY DEF Claim
<1>2. /\ x \in Rows /\ Open(x)
      /\ step[x].status = "running" => step[x].stale
      /\ step[x].status \in {"pending", "approved", "running"}
  BY DEF NextClaims, Claimable, Abandoned, ClaimableStatuses, Open, OpenStatuses
<1>3. /\ step'[x].status = "running" /\ step'[x].worker = w /\ ~step'[x].stale
      /\ \A y \in Rows : y # x => step'[y] = step[y]
      /\ worker'[w].pc = "claimed" /\ worker'[w].row = x
      /\ \A v \in Workers : v # w => worker'[v] = worker[v]
  BY <1>1, <1>2 DEF TypeOK, StepType, IdleWorker
<1>4. UNCHANGED <<run, request, granted>> /\ ~IsBusy(w)
  BY DEF Claim, IsBusy, Busy
<1>5. \A y \in Rows : Open(y)' <=> Open(y)
  BY <1>2, <1>3 DEF Open, OpenStatuses
<1>6. ASSUME NEW v \in Workers, Holding(v)  PROVE RunOf(v) # x[1]
  <2> SUFFICES ASSUME RunOf(v) = x[1]  PROVE FALSE
    OBVIOUS
  <2>1. worker[v].row = x /\ Row(v).status \in {"running", "completed", "failed"}
    BY <1>2, <1>6, HolderAlone DEF OrderInv, Owns
  <2>2. Row(v).status = "running" => ~Row(v).stale
    BY <1>6 DEF OrderInv, Keeps, Holding
  <2> QED  BY <1>2, <2>1, <2>2 DEF Row
<1>7. ASSUME NEW v \in Workers, IsBusy(v), worker[v].row = x  PROVE x \in granted
  BY <1>2, <1>7 DEF OrderInv, Keeps, Row
<1>8. \A v \in Workers : v # w => /\ IsBusy(v)' = IsBusy(v)
                                  /\ Holding(v)' = Holding(v)
                                  /\ RunOf(v)' = RunOf(v)
  BY <1>3 DEF IsBusy, Holding, RunOf
<1>9. RunOf(w)' = x[1]
  BY <1>3 DEF RunOf
<1>10. OneOpen' /\ OneHolder'
  BY <1>5, <1>6, <1>8, <1>9 DEF OrderInv, OneOpen, OneHolder
<1>11. ASSUME NEW v \in Workers, Holding(v)'  PROVE Owns(v)'
  <2>1. CASE v = w
    BY <1>2, <1>3, <1>5, <1>9, <2>1 DEF OrderInv, OneOpen, Owns, Advanced, Row
  <2>2. CASE v # w
    <3>1. Owns(v) /\ worker'[v] = worker[v] /\ RunOf(v)' = RunOf(v) /\ Holding(v)
      BY <1>3, <1>8, <1>11, <2>2 DEF OrderInv
    <3>2. Row(v)' = Row(v)
      BY <1>3, <1>6, <3>1, HolderAlone DEF Row
    <3>3. Advanced(v)'
      BY <3>1, <3>2 DEF Owns, Advanced
    <3> QED  BY <1>5, <3>1, <3>3 DEF Owns
  <2> QED  BY <2>1, <2>2
<1>12. ASSUME NEW v \in Workers, IsBusy(v)'  PROVE Keeps(v)'
  <2>1. CASE v = w
    BY <1>3, <2>1 DEF Keeps, Row
  <2>2. CASE v # w /\ worker[v].row = x
    <3>1. worker'[v].row = x /\ x \in granted'
      BY <1>3, <1>4, <1>7, <1>8, <1>12, <2>2
    <3> QED  BY <1>3, <3>1 DEF Keeps, Row
  <2>3. CASE v # w /\ worker[v].row # x
    <3>1. IsBusy(v) /\ worker'[v].row = worker[v].row /\ worker[v].row \in Rows
      BY <1>3, <1>8, <1>12, <2>3, BusyHasRun
    <3> QED  BY <1>3, <1>4, <2>3, <3>1, KeptRow
  <2> QED  BY <2>1, <2>2, <2>3
<1>13. Shared'
  BY <1>3, <1>4, <1>7, <1>8 DEF OrderInv, Shared
<1>14. ASSUME NEW u \in Users, request'[u].pc \in Deciding  PROVE Fresh(u)'
  <2>1. /\ request'[u] = request[u] /\ Fresh(u) /\ request[u].row \in Rows
        /\ step[request[u].row].status \in {"waiting_approval", "failed", "rejected"}
    BY <1>4, <1>14 DEF OrderInv, DecisionsAreFresh, Fresh
  <2>2. request[u].row # x
    BY <1>2, <2>1
  <2>3. request[u].run # x[1]
    BY <1>2, <2>1, <2>2 DEF Fresh
  <2>4. \A v \in Workers : Holding(v)' => RunOf(v)' # request[u].run
    BY <1>8, <1>9, <2>1, <2>3 DEF Fresh
  <2>5. step'[request[u].row] = step[request[u].row]
    BY <1>3, <2>1, <2>2
  <2> QED  BY <1>4, <1>5, <2>1, <2>4, <2>5 DEF Fresh
<1> QED  BY <1>10, <1>11, <1>12, <1>13, <1>14 DEF OrderInv, DecisionsAreFresh

\* The row is given another status.
LEMMA StatusEffect ==
  ASSUME TypeOK, NEW x \in Rows, NEW status,
         step' = [step EXCEPT ![x].status = status, ![x].stale = FALSE]
  PROVE  /\ step'[x].status = status /\ step'[x].type = step[x].type
         /\ step'[x].tool = step[x].tool
         /\ step'[x].decision = step[x].decision
         /\ \A y \in Rows : y # x => step'[y] = step[y]
BY DEF TypeOK, StepType

LEMMA CompleteEffect ==
  ASSUME TypeOK, TablesInv, NEW w \in Workers, IsBusy(w), NEW n, NEW m,
         Complete(w, n, m)
  PROVE  /\ step'[worker[w].row].status = "completed"
         /\ step'[worker[w].row].type = Row(w).type
         /\ step'[worker[w].row].tool = Row(w).tool
         /\ step'[worker[w].row].decision = Row(w).decision
         /\ \A y \in Rows : y # worker[w].row => step'[y] = step[y]
         /\ \A r \in Runs : r # RunOf(w) => run'[r] = run[r]
         /\ run'[RunOf(w)].used = worker[w].used + n
         /\ run'[RunOf(w)].transforms = worker[w].transforms + m
         /\ run'[RunOf(w)].status = run[RunOf(w)].status
<1>1. worker[w].row \in Rows /\ RunOf(w) \in Runs
  BY BusyHasRun
<1>2. \A r \in Runs : r # RunOf(w) => run'[r] = run[r]
  BY <1>1 DEF Complete, TypeOK
<1>3. /\ run'[RunOf(w)].used = worker[w].used + n
      /\ run'[RunOf(w)].transforms = worker[w].transforms + m
      /\ run'[RunOf(w)].status = run[RunOf(w)].status
  BY <1>1 DEF Complete, TypeOK, RunType
<1> QED  BY <1>1, <1>2, <1>3, StatusEffect DEF Complete, Row

LEMMA GoCreateOrder ==
  ASSUME TypeOK, TablesInv, OrderInv, NEW w \in Workers, Holding(w), NEW n, NEW m,
         Complete(w, n, m), NEW next, GoCreate(w, next) \/ Astray(w),
         UNCHANGED <<request, granted>>
  PROVE  OrderInv'
<1>0. IsBusy(w)
  BY DEF Holding
<1>1. CASE GoCreate(w, next)
  <2>1. /\ worker'[w].pc = "create" /\ worker'[w].row = worker[w].row
        /\ \A v \in Workers : v # w => worker'[v] = worker[v]
    BY <1>1 DEF GoCreate, Goto, IdleWorker, TypeOK
  <2>2. Row(w)'.status = "completed"
    BY <1>0, <2>1, CompleteEffect DEF Row
  <2>3. Advanced(w)'
    BY <2>1, <2>2 DEF Advanced
  <2> QED  BY <1>0, <2>1, <2>3, CompleteEffect, OwnStep
<1>2. CASE Astray(w)
  BY <1>0, <1>2, CompleteEffect, AstrayOrder
<1> QED  BY <1>1, <1>2

LEMMA ThinkOrder ==
  ASSUME TypeOK, TablesInv, OrderInv, NEW w \in Workers,
         Fail(w) \/ Think(w) \/ ThinkAstray(w) \/ ThinkError(w)
  PROVE  OrderInv'
<1>1. CASE Fail(w)
  BY <1>1, FailOrder
<1>2. CASE Think(w) \/ ThinkAstray(w)
  <2>1. Holding(w) /\ UNCHANGED <<request, granted>> /\ Complete(w, 1, 0)
    BY <1>2 DEF Think, ThinkAstray, Executing, Holding, IsBusy, Busy
  <2>2. \E next : GoCreate(w, next) \/ Astray(w)
    BY <1>2 DEF Think, ThinkAstray
  <2> QED  BY <2>1, <2>2, GoCreateOrder
<1>3. CASE ThinkError(w)
  <2> DEFINE v == [worker[w] EXCEPT !.pc = "failing", !.prior = {}]
  <2>1. worker' = [worker EXCEPT ![w] = v]
    BY <1>3 DEF ThinkError, TypeOK
  <2>2. Holding(w) /\ worker[w].pc # "create"
    BY <1>3 DEF ThinkError, Executing, Holding, IsBusy, Busy
  <2>3. v.row = worker[w].row /\ v.pc = "failing"
    BY <2>2, BusyHasRun DEF Holding, WorkerState
  <2> HIDE DEF v
  <2> QED  BY <1>3, <2>1, <2>2, <2>3, SessionOrder DEF ThinkError
<1> QED  BY <1>1, <1>2, <1>3

LEMMA ToolCallOrder ==
  ASSUME TypeOK, TablesInv, OrderInv, NEW w \in Workers,
         ToolError(w) \/ AskApproval(w) \/ Execute(w)
  PROVE  OrderInv'
<1>1. /\ Holding(w) /\ IsBusy(w) /\ worker[w].pc # "create"
      /\ UNCHANGED <<request, granted>>
  BY DEF ToolError, AskApproval, Execute, Executing, Holding, IsBusy, Busy
<1>2. /\ worker[w] \in WorkerState /\ worker[w].row \in Rows /\ RunOf(w) \in Runs
      /\ step[worker[w].row] \in StepType
  BY <1>1, BusyHasRun DEF TypeOK
<1>3. CASE ToolError(w) \/ Execute(w)
  <2>1. PICK pc \in {"ran", "invalid", "failing"} :
          worker' = [worker EXCEPT ![w] =
                       [worker[w] EXCEPT !.pc = pc, !.prior = {}]]
    BY <1>3 DEF ToolError, Execute, TypeOK
  <2> DEFINE v == [worker[w] EXCEPT !.pc = pc, !.prior = {}]
  <2>2. v.row = worker[w].row /\ v.pc # "create"
    BY <1>2 DEF WorkerState
  <2>3. UNCHANGED <<run, step>>
    BY <1>3 DEF ToolError, Execute
  <2> HIDE DEF v
  <2> QED  BY <1>1, <2>1, <2>2, <2>3, SessionOrder DEF v
<1>4. CASE AskApproval(w)
  <2> DEFINE v == [step[worker[w].row] EXCEPT !.status = "waiting_approval",
                     !.worker = None, !.stale = FALSE, !.decision = "none"]
  <2>1. v.status = "waiting_approval"
    BY <1>2 DEF StepType
  <2>2. step' = step \/ step' = [step EXCEPT ![worker[w].row] = v]
    BY <1>4 DEF AskApproval
  <2> HIDE DEF v
  <2>3. /\ \A y \in Rows : y # worker[w].row => step'[y] = step[y]
        /\ \/ step'[worker[w].row] = step[worker[w].row]
           \/ step'[worker[w].row].status = "waiting_approval"
    BY <1>2, <2>1, <2>2 DEF TypeOK
  <2>4. \A r \in Runs : r # RunOf(w) => run'[r] = run[r]
    BY <1>2, <1>4 DEF AskApproval, TypeOK
  <2>5. Abort(w) \/ Astray(w)
    BY <1>4 DEF AskApproval
  <2> QED  BY <1>1, <2>3, <2>4, <2>5, AbortOrder, AstrayOrder
<1> QED  BY <1>3, <1>4

LEMMA AfterToolOrder ==
  ASSUME TypeOK, TablesInv, OrderInv, NEW w \in Workers,
         ToolRan(w) \/ ToolInvalid(w) \/ Summarize(w)
  PROVE  OrderInv'
<1>1. Holding(w) /\ IsBusy(w) /\ UNCHANGED <<request, granted>>
  BY DEF ToolRan, ToolInvalid, Summarize, Executing, Holding, IsBusy, Busy
<1>2. worker[w].row \in Rows /\ RunOf(w) \in Runs
  BY <1>1, BusyHasRun
<1>3. CASE ToolRan(w) \/ ToolInvalid(w)
  <2>1. /\ \E n, m : Complete(w, n, m)
        /\ GoCreate(w, "tool_result") \/ Astray(w)
    BY <1>3 DEF ToolRan, ToolInvalid
  <2> QED  BY <1>1, <2>1, GoCreateOrder
<1>4. CASE Summarize(w)
  <2>1. /\ \A y \in Rows : y # worker[w].row => step'[y] = step[y]
        /\ step'[worker[w].row].status = "completed"
    BY <1>2, <1>4, StatusEffect DEF Summarize
  <2>2. \A r \in Runs : r # RunOf(w) => run'[r] = run[r]
    BY <1>2, <1>4 DEF Summarize, TypeOK
  <2>3. Abort(w) \/ Astray(w)
    BY <1>4 DEF Summarize
  <2> QED  BY <1>1, <2>1, <2>2, <2>3, AbortOrder, AstrayOrder
<1> QED  BY <1>3, <1>4

\* A row is inserted in a run that has no open one.
LEMMA InsertOrder ==
  ASSUME TypeOK, TablesInv, OrderInv, NEW x \in Rows, ~Exists(x), NEW row,
         step' = [step EXCEPT ![x] = row], UNCHANGED <<run, granted>>,
         \A y \in Rows : y[1] = x[1] => ~Open(y),
         \A v \in Workers : IsBusy(v)' =>
           IsBusy(v) /\ worker'[v].row = worker[v].row,
         \A v \in Workers : Holding(v)' =>
           /\ Holding(v) /\ worker'[v].pc = worker[v].pc
           /\ RunOf(v) = x[1] => row.status \notin OpenStatuses,
         \A u \in Users : request'[u].pc \in Deciding =>
           request'[u] = request[u] /\ request[u].run # x[1]
  PROVE  OrderInv'
<1>1. step'[x] = row /\ \A y \in Rows : y # x => step'[y] = step[y]
  BY DEF TypeOK
<1>2. \A v \in Workers : IsBusy(v)' => RunOf(v)' = RunOf(v)
  BY DEF RunOf
<1>3. \A v \in Workers : Holding(v)' => RunOf(v)' = RunOf(v)
  BY <1>2 DEF Holding
<1>4. OneOpen' /\ OneHolder' /\ Shared'
  BY <1>1, <1>3 DEF OrderInv, OneOpen, OneHolder, Shared, Open
<1>5. ASSUME NEW v \in Workers, IsBusy(v)'
      PROVE  /\ IsBusy(v) /\ worker[v].row \in Rows /\ worker[v].row # x
             /\ Row(v)' = Row(v)
  <2>1. IsBusy(v) /\ worker[v].row \in Rows /\ worker[v].row # x
    BY <1>5, BusyHasRun
  <2> QED  BY <1>1, <1>5, <2>1 DEF Row
<1>6. ASSUME NEW v \in Workers, Holding(v)'  PROVE Owns(v)'
  <2>1. /\ Owns(v) /\ worker'[v].row = worker[v].row /\ worker'[v].pc = worker[v].pc
        /\ Row(v)' = Row(v)
    BY <1>5, <1>6 DEF OrderInv, Holding
  <2>2. Advanced(v)'
    BY <2>1 DEF Owns, Advanced
  <2>3. \A y \in Rows : y[1] = RunOf(v) /\ Open(y)' => Open(y)
    BY <1>1, <1>6 DEF Open
  <2> QED  BY <1>3, <1>6, <2>1, <2>2, <2>3 DEF Owns
<1>7. ASSUME NEW v \in Workers, IsBusy(v)'  PROVE Keeps(v)'
  <2>1. step'[worker[v].row] = step[worker[v].row]
    BY <1>1, <1>5, <1>7
  <2> QED  BY <1>5, <1>7, <2>1, KeptRow
<1>8. ASSUME NEW u \in Users, request'[u].pc \in Deciding  PROVE Fresh(u)'
  <2>1. /\ request'[u] = request[u] /\ Fresh(u) /\ request[u].run # x[1]
        /\ request[u].row # x
    BY <1>8 DEF OrderInv, DecisionsAreFresh, Fresh
  <2>2. step'[request[u].row] = step[request[u].row]
    BY <1>1, <2>1 DEF Fresh
  <2>3. \A y \in Rows : y[1] = request[u].run /\ Open(y)' => Open(y)
    BY <1>1, <2>1 DEF Open
  <2> QED  BY <1>3, <2>1, <2>2, <2>3 DEF Fresh
<1> QED  BY <1>4, <1>6, <1>7, <1>8 DEF OrderInv, DecisionsAreFresh

\* The row that Create inserts, where there is none.
LEMMA CreateEffect ==
  ASSUME TypeOK, TablesInv, NEW w \in Workers, Create(w),
         ~Exists(<<RunOf(w), worker[w].number>>)
  PROVE  \E x \in Rows : \E row :
           /\ x[1] = RunOf(w) /\ ~Exists(x) /\ step' = [step EXCEPT ![x] = row]
           /\ row.decision = "none" /\ row.status \in {"pending", "completed"}
           /\ \/ /\ row.status = "completed" /\ row.tool = None
                 /\ row.type = "tool_result" /\ worker[w].next = "tool_result"
              \/ worker[w].next # "tool_result" /\ row.status = "pending"
<1> DEFINE x == <<RunOf(w), worker[w].number>>
           next == worker[w].next
           row == CASE next = "tool_result" -> NewRow(next, "completed", None)
                    [] next \in Tools -> NewRow("tool_call", "pending", next)
                    [] OTHER -> NewRow(next, "pending", None)
<1>1. IsBusy(w) /\ worker[w] \in WorkerType
  BY DEF Create, IsBusy, Busy, TypeOK
<1>2. x \in Rows /\ x[1] = RunOf(w)
  BY <1>1, BusyHasRun, BoundsAssumption
     DEF Create, WorkerType, WorkerState, Numbers, Rows
<1>3. step' = [step EXCEPT ![x] = row]
  BY DEF Create
<1>4. ASSUME NEW type, NEW status, NEW tool
      PROVE  /\ NewRow(type, status, tool).status = status
             /\ NewRow(type, status, tool).type = type
             /\ NewRow(type, status, tool).tool = tool
             /\ NewRow(type, status, tool).decision = "none"
  BY DEF NewRow, NoRow
<1>5. /\ next \in {"think", "summary", "tool_result"} \cup Tools
      /\ Tools \cap {"think", "summary", "tool_result"} = {}
  BY <1>1, ToolsAssumption DEF Create, WorkerType
<1>6. CASE next = "tool_result"
  <2>1. row = NewRow("tool_result", "completed", None)
    BY <1>5, <1>6
  <2>2. /\ row.status = "completed" /\ row.decision = "none"
        /\ row.type = "tool_result" /\ row.tool = None
    BY <1>4, <2>1
  <2> HIDE DEF row, x
  <2> QED  BY <1>2, <1>3, <1>6, <2>2 DEF x
<1>7. CASE next # "tool_result"
  <2>1. row = NewRow("tool_call", "pending", next) \/ row = NewRow(next, "pending", None)
    BY <1>5, <1>7
  <2>2. row.status = "pending" /\ row.decision = "none"
    BY <1>4, <2>1
  <2> HIDE DEF row, x
  <2> QED  BY <1>2, <1>3, <1>7, <2>2 DEF x
<1> QED  BY <1>6, <1>7

LEMMA CreateOrder ==
  ASSUME TypeOK, TablesInv, OrderInv, NEW w \in Workers, Create(w)
  PROVE  OrderInv'
<1>1. /\ Holding(w) /\ IsBusy(w) /\ worker[w].pc = "create"
      /\ UNCHANGED <<run, request, granted>>
  BY DEF Create, Holding, IsBusy, Busy
<1>2. Row(w).status \in {"completed", "failed"} /\ Owns(w)
  BY <1>1 DEF OrderInv, Owns, Advanced
<1>3. CASE Exists(<<RunOf(w), worker[w].number>>)
  BY <1>1, <1>3, AbortOrder DEF Create
<1>4. CASE ~Exists(<<RunOf(w), worker[w].number>>)
  <2>0. PICK x \in Rows : \E row :
           /\ x[1] = RunOf(w) /\ ~Exists(x) /\ step' = [step EXCEPT ![x] = row]
           /\ worker[w].next = "tool_result" <=> row.status = "completed"
           /\ row.status \in {"pending", "completed"}
    BY <1>4, CreateEffect
  <2>1. PICK row :
           /\ x[1] = RunOf(w) /\ ~Exists(x) /\ step' = [step EXCEPT ![x] = row]
           /\ worker[w].next = "tool_result" <=> row.status = "completed"
           /\ row.status \in {"pending", "completed"}
    BY <2>0
  <2>2. \A y \in Rows : y[1] = x[1] => ~Open(y)
    BY <1>2, <2>1 DEF Owns, Open, Row, OpenStatuses
  <2>3. \/ worker' = [worker EXCEPT ![w] =
              [worker[w] EXCEPT !.next = "think", !.number = worker[w].number + 1]]
           /\ row.status = "completed"
        \/ worker' = [worker EXCEPT ![w] = IdleWorker]
        \/ Astray(w)
    BY <1>4, <2>1 DEF Create
  <2>4. worker[w] \in WorkerState
    BY <1>1, BusyHasRun
  <2>5. /\ \A v \in Workers : v # w => worker'[v] = worker[v]
        /\ \/ /\ worker'[w].row = worker[w].row /\ worker'[w].pc = worker[w].pc
              /\ row.status = "completed"
           \/ ~IsBusy(w)'
           \/ worker'[w].row = worker[w].row /\ ~Holding(w)'
    <3>1. CASE worker' = [worker EXCEPT ![w] = IdleWorker]
      BY <3>1 DEF TypeOK, IdleWorker, IsBusy, Busy
    <3>2. CASE Astray(w)
      BY <3>2, AstrayEffect DEF Holding
    <3>3. CASE worker' = [worker EXCEPT ![w] =
                 [worker[w] EXCEPT !.next = "think", !.number = worker[w].number + 1]]
               /\ row.status = "completed"
      BY <2>4, <3>3 DEF TypeOK, WorkerState
    <3> QED  BY <2>3, <3>1, <3>2, <3>3
  <2>6. \A v \in Workers : IsBusy(v)' => IsBusy(v) /\ worker'[v].row = worker[v].row
    BY <1>1, <2>5 DEF IsBusy
  <2>7. ASSUME NEW v \in Workers, Holding(v)'
        PROVE  /\ Holding(v) /\ worker'[v].pc = worker[v].pc
               /\ RunOf(v) = x[1] => row.status \notin OpenStatuses
    <3>1. CASE v # w
      <4>1. Holding(v) /\ worker'[v] = worker[v]
        BY <2>5, <2>7, <3>1 DEF Holding, IsBusy
      <4> QED  BY <1>1, <2>1, <3>1, <4>1 DEF OrderInv, OneHolder
    <3>2. CASE v = w
      BY <1>1, <2>5, <2>7, <3>2 DEF Holding, OpenStatuses
    <3> QED  BY <3>1, <3>2
  <2>8. \A u \in Users : request'[u].pc \in Deciding =>
          request'[u] = request[u] /\ request[u].run # x[1]
    BY <1>1, <2>1, HolderAlone
  <2> QED  BY <1>1, <2>1, <2>2, <2>6, <2>7, <2>8, InsertOrder
<1> QED  BY <1>3, <1>4

LEMMA SeedOrder ==
  ASSUME TypeOK, TablesInv, OrderInv, NEW u \in Users, SeedThink(u)
  PROVE  OrderInv'
<1> DEFINE x == <<request[u].run, 1>>
           row == NewRow("think", "pending", None)
<1>1. x \in Rows /\ x[1] = request[u].run /\ request[u].pc = "seed"
      /\ UNCHANGED <<run, worker, granted>>
  BY BoundsAssumption DEF SeedThink, TypeOK, RequestType, Rows, Numbers
<1>2. \A y \in Rows : y[1] = x[1] => ~Exists(y)
  BY <1>1, RowIsPair DEF TablesInv, SeedsAreFirst
<1>3. step' = [step EXCEPT ![x] = row]
  BY DEF SeedThink
<1>4. \A y \in Rows : y[1] = x[1] => ~Open(y)
  BY <1>2 DEF Exists, Open, OpenStatuses
<1>5. \A v \in Workers : IsBusy(v)' =>
        IsBusy(v) /\ worker'[v].row = worker[v].row /\ RunOf(v) # x[1]
  BY <1>1, <1>2, BusyHasRun DEF IsBusy
<1>6. \A v \in Workers : Holding(v)' =>
        Holding(v) /\ worker'[v].pc = worker[v].pc /\ RunOf(v) # x[1]
  BY <1>1, <1>5 DEF Holding, IsBusy
<1>7. ASSUME NEW v \in Users, request'[v].pc \in Deciding
      PROVE  request'[v] = request[v] /\ request[v].run # x[1]
  <2>1. request'[v] = request[v]
    BY <1>7 DEF SeedThink, Done, IdleRequest, TypeOK, Deciding
  <2>2. Fresh(v)
    BY <1>7, <2>1 DEF OrderInv, DecisionsAreFresh
  <2>3. Exists(request[v].row)
    BY <2>2 DEF Fresh, Exists
  <2> QED  BY <1>2, <2>1, <2>2, <2>3 DEF Fresh
<1>8. ~Exists(x)
  BY <1>1, <1>2
<1> HIDE DEF x, row
<1> QED  BY <1>1, <1>3, <1>4, <1>5, <1>6, <1>7, <1>8, InsertOrder

\* Crashes, recovery and time: a step whose worker lives is left alone.
LEMMA RecoveryOrder ==
  ASSUME TypeOK, TablesInv, OrderInv, NEW w \in Workers, Crash(w) \/ Restart(w)
  PROVE  OrderInv'
<1>1. \E pc \in {"down", "booting", "idle"} :
        worker' = [worker EXCEPT ![w] = [IdleWorker EXCEPT !.pc = pc]]
  BY DEF Crash, Restart, RecoverClaims, RecoverRuns, IdleWorker
<1>2. \A v \in Workers : IsBusy(v)' => IsBusy(v) /\ worker'[v] = worker[v]
  BY <1>1 DEF TypeOK, IsBusy, IdleWorker, Busy
<1>3. UNCHANGED <<request, granted>>
  BY DEF Crash, Restart, RecoverClaims, RecoverRuns
<1>4. \A y \in Rows :
        \/ step'[y] = step[y]
        \/ /\ step[y].status = "running" /\ step[y].stale
           /\ step'[y].status = "pending"
  BY DEF Crash, Restart, RecoverClaims, RecoverRuns, TypeOK, StepType
<1>5. \A y \in Rows : Open(y)' <=> Open(y)
  BY <1>4 DEF Open, OpenStatuses
<1>6. \A v \in Workers : Holding(v)' => Holding(v) /\ RunOf(v)' = RunOf(v)
  BY <1>2 DEF Holding, RunOf
<1>7. OneOpen' /\ OneHolder' /\ Shared'
  BY <1>2, <1>3, <1>5, <1>6 DEF OrderInv, OneOpen, OneHolder, Shared
<1>8. ASSUME NEW v \in Workers, IsBusy(v)'
      PROVE  /\ IsBusy(v) /\ worker[v].row \in Rows /\ worker'[v] = worker[v]
             /\ step'[worker[v].row] = step[worker[v].row] /\ Row(v)' = Row(v)
  <2>1. IsBusy(v) /\ worker[v].row \in Rows /\ worker'[v] = worker[v] /\ Keeps(v)
    BY <1>2, <1>8, BusyHasRun DEF OrderInv
  <2>2. step'[worker[v].row] = step[worker[v].row]
    BY <1>4, <2>1 DEF Keeps, Row
  <2> QED  BY <2>1, <2>2 DEF Row
<1>9. ASSUME NEW v \in Workers, Holding(v)'  PROVE Owns(v)'
  <2>1. worker'[v] = worker[v] /\ Row(v)' = Row(v) /\ Owns(v) /\ RunOf(v)' = RunOf(v)
    BY <1>6, <1>8, <1>9 DEF OrderInv, Holding
  <2>2. Advanced(v)'
    BY <2>1 DEF Owns, Advanced
  <2> QED  BY <1>5, <2>1, <2>2 DEF Owns
<1>10. ASSUME NEW v \in Workers, IsBusy(v)'  PROVE Keeps(v)'
  BY <1>3, <1>8, <1>10, KeptRow
<1>11. \A r \in Runs : run'[r].status \in {run[r].status, "failed"}
  <2>1. CASE Crash(w) \/ RecoverClaims(w)
    BY <2>1 DEF Crash, RecoverClaims
  <2>2. CASE RecoverRuns(w)
    BY <2>2 DEF RecoverRuns, TypeOK, RunType
  <2> QED  BY <2>1, <2>2 DEF Restart
<1>12. ASSUME NEW u \in Users, request'[u].pc \in Deciding  PROVE Fresh(u)'
  <2>1. request'[u] = request[u] /\ Fresh(u) /\ request[u].run \in Runs
    BY <1>3, <1>12, RowIsPair DEF OrderInv, DecisionsAreFresh, Fresh
  <2>2. step'[request[u].row] = step[request[u].row]
    BY <1>4, <2>1 DEF Fresh
  <2> QED  BY <1>5, <1>6, <1>11, <2>1, <2>2 DEF Fresh
<1> QED  BY <1>7, <1>9, <1>10, <1>12 DEF OrderInv, DecisionsAreFresh

LEMMA ExpireOrder ==
  ASSUME TypeOK, TablesInv, OrderInv, ~Untimely, NEW x \in Rows, Expire(x)
  PROVE  OrderInv'
<1>1. UNCHANGED <<run, worker, request, granted>>
  BY DEF Expire
<1>2. /\ \A y \in Rows : y # x => step'[y] = step[y]
      /\ \A y \in Rows : /\ step'[y].status = step[y].status
                         /\ step'[y].decision = step[y].decision
  BY DEF Expire, TypeOK, StepType
<1>3. \A y \in Rows : Open(y)' <=> Open(y)
  BY <1>2 DEF Open
<1>4. OneOpen' /\ OneHolder' /\ Shared'
  BY <1>1, <1>3 DEF OrderInv, OneOpen, OneHolder, Shared, Holding, IsBusy, RunOf
<1>5. ASSUME NEW v \in Workers, IsBusy(v)'
      PROVE  /\ IsBusy(v) /\ worker[v].row \in Rows /\ worker'[v] = worker[v]
             /\ step'[worker[v].row] = step[worker[v].row] /\ Row(v)' = Row(v)
  <2>1. IsBusy(v) /\ worker[v].row \in Rows /\ worker[v].row # x
    BY <1>1, <1>5, BusyHasRun DEF Expire, WorksOn, IsBusy
  <2> QED  BY <1>1, <1>2, <2>1 DEF Row
<1>6. ASSUME NEW v \in Workers, Holding(v)'  PROVE Owns(v)'
  <2>1. /\ worker'[v] = worker[v] /\ Row(v)' = Row(v) /\ Owns(v)
        /\ RunOf(v)' = RunOf(v)
    BY <1>5, <1>6 DEF OrderInv, Holding, RunOf
  <2>2. Advanced(v)'
    BY <2>1 DEF Owns, Advanced
  <2> QED  BY <1>3, <2>1, <2>2 DEF Owns
<1>7. ASSUME NEW v \in Workers, IsBusy(v)'  PROVE Keeps(v)'
  BY <1>1, <1>5, <1>7, KeptRow
<1>8. ASSUME NEW u \in Users, request'[u].pc \in Deciding  PROVE Fresh(u)'
  <2>1. request'[u] = request[u] /\ Fresh(u)
    BY <1>1, <1>8 DEF OrderInv, DecisionsAreFresh
  <2>2. \A v \in Workers : Holding(v)' => Holding(v) /\ RunOf(v)' = RunOf(v)
    BY <1>1 DEF Holding, IsBusy, RunOf
  <2> QED  BY <1>1, <1>2, <1>3, <2>1, <2>2 DEF Fresh
<1> QED  BY <1>4, <1>6, <1>7, <1>8 DEF OrderInv, DecisionsAreFresh

\* Requests.  The one user's request is the only one there is.
LEMMA RequestFrame ==
  ASSUME TypeOK, TablesInv, OrderInv, NEW u \in Users, \A v \in Users : v = u,
         UNCHANGED <<step, worker, granted>>,
         request'[u].pc \in Deciding => Fresh(u)'
  PROVE  OrderInv'
<1>1. DecisionsAreFresh'
  BY DEF DecisionsAreFresh
<1>2. \A v \in Workers : Owns(v) => Owns(v)'
  BY DEF Owns, Advanced, Open, Row, RunOf
<1>3. \A v \in Workers : Keeps(v) => Keeps(v)'
  BY DEF Keeps, Row
<1> QED  BY <1>1, <1>2, <1>3 DEF OrderInv, OneOpen, OneHolder, Shared, Holding,
                                 Open, IsBusy, RunOf

LEMMA DoneOrder ==
  ASSUME TypeOK, TablesInv, OrderInv, NEW u \in Users, \A v \in Users : v = u,
         UNCHANGED <<step, worker, granted>>, Done(u)
  PROVE  OrderInv'
<1>1. request'[u].pc \notin Deciding
  BY DEF Done, TypeOK, IdleRequest, Deciding
<1> QED  BY <1>1, RequestFrame

LEMMA AskOrder ==
  ASSUME TypeOK, TablesInv, OrderInv, NEW u \in Users, \A v \in Users : v = u,
         Ask(u) \/ CreateRun(u)
  PROVE  OrderInv'
<1>1. UNCHANGED <<step, worker, granted>>
  BY DEF Ask, BeginStart, BeginRetry, BeginCancel, BeginDecision, CreateRun
<1>2. request[u] \in RequestState
  BY DEF TypeOK, RequestType
<1>3. CASE Done(u)
  BY <1>1, <1>3, DoneOrder
<1>4. CASE request'[u].pc \in {"start", "cancel", "seed"}
  BY <1>1, <1>4, RequestFrame DEF Deciding
<1>5. CASE \E verdict \in {"approve", "reject"} : BeginDecision(u, verdict)
  <2>1. PICK verdict \in {"approve", "reject"}, x \in Rows :
          /\ step[x].status = "waiting_approval" /\ UNCHANGED run
          /\ request' = [request EXCEPT ![u] =
               [pc |-> verdict, run |-> x[1], row |-> x,
                status |-> run[x[1]].status]]
    BY <1>5 DEF BeginDecision
  <2>2. request'[u] = [pc |-> verdict, run |-> x[1], row |-> x,
                       status |-> run[x[1]].status]
    BY <2>1 DEF TypeOK
  <2>3. Open(x) /\ \A y \in Rows : y[1] = x[1] /\ Open(y) => y = x
    BY <2>1 DEF OrderInv, OneOpen, Open, OpenStatuses
  <2>4. ASSUME NEW v \in Workers, Holding(v)  PROVE RunOf(v) # x[1]
    BY <2>1, <2>3, <2>4, HolderAlone DEF OrderInv, Owns, Row
  <2>5. \A v \in Workers : Holding(v)' => Holding(v) /\ RunOf(v)' = RunOf(v)
    BY <1>1 DEF Holding, IsBusy, RunOf
  <2>6. \A y \in Rows : Open(y)' <=> Open(y)
    BY <1>1 DEF Open
  <2>7. /\ request'[u].run = x[1] /\ request'[u].row = x /\ request'[u].pc # "pause"
        /\ request'[u].status = run[x[1]].status
    BY <2>2
  <2>8. Fresh(u)'
    BY <1>1, <2>1, <2>3, <2>4, <2>5, <2>6, <2>7 DEF Fresh
  <2> QED  BY <1>1, <2>8, RequestFrame
<1>6. BeginStart(u) \/ BeginRetry(u) \/ BeginCancel(u) =>
        request'[u].pc \in {"start", "cancel"}
  BY <1>2 DEF BeginStart, BeginRetry, BeginCancel, TypeOK, RequestState
<1>7. CreateRun(u) => Done(u) \/ request'[u].pc = "seed"
  BY <1>2 DEF CreateRun, TypeOK, RequestState
<1> QED  BY <1>3, <1>4, <1>5, <1>6, <1>7 DEF Ask

\* A decided step is the only one of its run that is open.
LEMMA DecisionOrder ==
  ASSUME TypeOK, TablesInv, OrderInv, NEW u \in Users, \A v \in Users : v = u,
         CommitApproval(u) \/ CommitRejection(u)
  PROVE  OrderInv'
<1>0. request[u].pc \in Deciding /\ Fresh(u) /\ request[u] \in RequestState
  BY DEF CommitApproval, CommitRejection, OrderInv, DecisionsAreFresh, Deciding,
         TypeOK, RequestType
<1>1. PICK x \in Rows : /\ x = request[u].row /\ x[1] = request[u].run
                        /\ step[x] \in StepType
  BY <1>0 DEF Fresh, TypeOK
<1>2. PICK status \in {"approved", "rejected"} :
        /\ step' = [step EXCEPT ![x] = [step[x] EXCEPT !.status = status,
                                          !.decision = status, !.stale = FALSE]]
        /\ status = "approved" => CommitApproval(u)
        /\ status = "rejected" => CommitRejection(u)
  BY <1>1 DEF CommitApproval, CommitRejection
<1>3. /\ \A y \in Rows : y # x => step'[y] = step[y]
      /\ step'[x].status = status /\ step'[x].decision = status
  BY <1>1, <1>2 DEF TypeOK, StepType
<1>4. /\ UNCHANGED <<run, worker>> /\ granted \subseteq granted'
      /\ status = "approved" => x \in granted'
  BY <1>1, <1>2 DEF CommitApproval, CommitRejection
<1>5. /\ \A y \in Rows : y[1] = x[1] /\ Open(y)' => y = x
      /\ \A y \in Rows : y[1] # x[1] => (Open(y)' <=> Open(y))
      /\ \A v \in Workers : Holding(v) => RunOf(v) # x[1]
  BY <1>0, <1>1, <1>3 DEF Fresh, Open
<1>6. \A v \in Workers : /\ IsBusy(v)' = IsBusy(v) /\ Holding(v)' = Holding(v)
                         /\ RunOf(v)' = RunOf(v)
  BY <1>4 DEF IsBusy, Holding, RunOf
<1>7. OneOpen' /\ OneHolder' /\ Shared'
  BY <1>4, <1>5, <1>6 DEF OrderInv, OneOpen, OneHolder, Shared
<1>8. ASSUME NEW v \in Workers, Holding(v)'  PROVE Owns(v)'
  <2>1. /\ Holding(v) /\ Owns(v) /\ RunOf(v) # x[1] /\ RunOf(v)' = RunOf(v)
        /\ worker[v].row \in Rows /\ worker[v].row[1] = RunOf(v)
    BY <1>5, <1>6, <1>8, HolderAlone DEF OrderInv
  <2>2. Row(v)' = Row(v)
    BY <1>3, <1>4, <2>1 DEF Row
  <2>3. Advanced(v)'
    BY <1>4, <2>1, <2>2 DEF Owns, Advanced
  <2> QED  BY <1>4, <1>5, <2>1, <2>3 DEF Owns
<1>9. ASSUME NEW v \in Workers, IsBusy(v)'  PROVE Keeps(v)'
  <2>1. IsBusy(v) /\ worker[v].row \in Rows /\ worker'[v].row = worker[v].row
    BY <1>4, <1>6, <1>9, BusyHasRun
  <2>2. CASE worker[v].row = x /\ status = "approved"
    BY <1>3, <1>4, <2>1, <2>2 DEF Keeps, Row
  <2>3. CASE ~(worker[v].row = x /\ status = "approved")
    <3>1. \/ step'[worker[v].row] = step[worker[v].row]
          \/ step'[worker[v].row].status = "rejected"
      BY <1>2, <1>3, <2>1, <2>3
    <3> QED  BY <1>4, <2>1, <3>1, KeptRow
  <2> QED  BY <2>2, <2>3
<1>10. ASSUME NEW v \in Users, request'[v].pc \in Deciding  PROVE Fresh(v)'
  <2>1. v = u
    OBVIOUS
  <2>2. /\ status = "rejected" /\ request'[u].pc = "pause"
        /\ request'[u].run = x[1] /\ request'[u].row = x
    <3>1. CASE CommitApproval(u)
      BY <1>0, <1>10, <2>1, <3>1 DEF CommitApproval, Done, IdleRequest, TypeOK,
                                     RequestState, Deciding
    <3>2. CASE CommitRejection(u)
      <4>1. status = "rejected"
        BY <1>2, <3>2 DEF CommitApproval, CommitRejection
      <4> QED  BY <1>0, <1>1, <1>10, <2>1, <3>2, <4>1
               DEF CommitRejection, Done, IdleRequest, TypeOK, RequestState, Deciding
    <3> QED  BY <3>1, <3>2
  <2>3. \A w \in Workers : Holding(w)' => RunOf(w)' # x[1]
    BY <1>5, <1>6
  <2> QED  BY <1>3, <1>5, <2>1, <2>2, <2>3 DEF Fresh
<1> QED  BY <1>7, <1>8, <1>9, <1>10 DEF OrderInv, DecisionsAreFresh

LEMMA StepOrder ==
  ASSUME OneUserInTime, TypeOK, TablesInv, OrderInv, [Next]_vars
  PROVE  OrderInv'
<1>1. CASE \E w \in Workers : Claim(w) \/ Process(w) \/ Crash(w) \/ Restart(w)
  BY <1>1, ClaimOrder, LoadOrder, ThinkOrder, ToolCallOrder, AfterToolOrder,
     CreateOrder, RecoveryOrder DEF Process
<1>2. CASE \E x \in Rows : Expire(x)
  BY <1>2, ExpireOrder DEF OneUserInTime
<1>3. CASE \E u \in Users : Ask(u) \/ Proceed(u) \/ RequestDies(u)
  <2>1. PICK u \in Users : Ask(u) \/ Proceed(u) \/ RequestDies(u)
    BY <1>3
  <2>2. \A v \in Users : v = u
    BY DEF OneUserInTime
  <2>3. CASE CommitCancel(u) \/ CommitRunStatus(u) \/ RequestDies(u)
    BY <2>2, <2>3, DoneOrder DEF CommitCancel, CommitRunStatus, RequestDies
  <2> QED  BY <2>1, <2>2, <2>3, AskOrder, SeedOrder, DecisionOrder DEF Proceed
<1>4. CASE UNCHANGED vars
  <2>1. UNCHANGED <<run, step, worker, request, granted>>
    BY <1>4 DEF vars
  <2>2. \A v \in Workers : Owns(v) => Owns(v)'
    BY <2>1 DEF Owns, Advanced, Open, Row, RunOf
  <2>3. \A v \in Workers : Keeps(v) => Keeps(v)'
    BY <2>1 DEF Keeps, Row
  <2>4. \A v \in Users : Fresh(v) => Fresh(v)'
    BY <2>1 DEF Fresh, Holding, IsBusy, RunOf, Open
  <2> QED  BY <2>1, <2>2, <2>3, <2>4
           DEF OrderInv, OneOpen, OneHolder, Shared, Holding, Open,
               DecisionsAreFresh, IsBusy, RunOf
<1> QED  BY <1>1, <1>2, <1>3, <1>4 DEF Next

LEMMA OrderHolds ==
  ASSUME OneUserInTime
  PROVE  Spec => []OrderInv
<1>1. TypeOK /\ TablesInv /\ OrderInv /\ [Next]_vars => OrderInv'
  BY StepOrder
<1> QED  BY <1>1, InitOrder, TypeCorrect, TablesHold, PTL DEF Spec

-----------------------------------------------------------------------------
(* An investigation is executed by one worker, step after step. *)

\* Of the steps that are open or about to be created there is at most one.
LEMMA OneThread ==
  ASSUME OneUserInTime, TypeOK, TablesInv, OrderInv, NEW r \in Runs,
         NEW a \in Threads(r), NEW b \in Threads(r)
  PROVE  a = b
<1> DEFINE Steps == {<<r, n>> : n \in {m \in Numbers : step[<<r, m>>].status \in OpenStatuses}}
           Creators == {w \in Workers : worker[w].pc = "create" /\ RunOf(w) = r}
           Seeders == {u \in Users : request[u].pc = "seed" /\ request[u].run = r}
<1>1. Threads(r) = Steps \cup Creators \cup Seeders
  BY DEF Threads
<1>2. \A x \in Steps : x \in Rows /\ x[1] = r /\ Open(x) /\ Exists(x)
  <2> SUFFICES ASSUME NEW n \in Numbers, step[<<r, n>>].status \in OpenStatuses
               PROVE  /\ <<r, n>> \in Rows /\ <<r, n>>[1] = r
                      /\ Open(<<r, n>>) /\ Exists(<<r, n>>)
    OBVIOUS
  <2> QED  BY DEF Rows, Open, Exists, OpenStatuses
<1>3. \A x, y \in Steps : x = y
  BY <1>2 DEF OrderInv, OneOpen
<1>4. \A w \in Creators : IsBusy(w) /\ Holding(w) /\ w \in Workers /\ RunOf(w) = r
  BY DEF Holding, IsBusy, Busy
<1>5. \A v, w \in Creators : v = w
  BY <1>4 DEF OrderInv, OneHolder
<1>6. \A u, v \in Seeders : u = v
  BY DEF OneUserInTime
<1>7. Creators # {} => Steps = {}
  <2> SUFFICES ASSUME NEW w \in Creators, NEW x \in Steps  PROVE FALSE
    OBVIOUS
  <2>1. Row(w).status \in {"completed", "failed"} /\ Owns(w)
    BY <1>4 DEF OrderInv, Owns, Advanced
  <2>2. x = worker[w].row
    BY <1>2, <1>4, <2>1 DEF Owns
  <2> QED  BY <1>2, <2>1, <2>2 DEF Row, Open, OpenStatuses
<1>8. Seeders # {} => Steps = {} /\ Creators = {}
  <2> SUFFICES ASSUME NEW u \in Seeders  PROVE Steps = {} /\ Creators = {}
    OBVIOUS
  <2>1. \A x \in Rows : x[1] = r => ~Exists(x)
    BY RowIsPair DEF TablesInv, SeedsAreFirst
  <2>2. Steps = {}
    BY <1>2, <2>1
  <2>3. Creators = {}
    BY <1>4, <2>1, BusyHasRun
  <2> QED  BY <2>2, <2>3
<1> HIDE DEF Steps, Creators, Seeders
<1> QED  BY <1>1, <1>3, <1>5, <1>6, <1>7, <1>8

\* A set whose members are all the same has at most one.
LEMMA AtMostOne ==
  ASSUME NEW S, \A a, b \in S : a = b
  PROVE  Cardinality(S) <= 1
<1>1. CASE S = {}
  BY <1>1, FS_EmptySet
<1>2. CASE S # {}
  <2>1. PICK a : a \in S
    BY <1>2
  <2>2. S = {a}
    BY <2>1
  <2> QED  BY <2>2, FS_Singleton
<1> QED  BY <1>1, <1>2

\* As long as claims expire only when their worker is gone, and one user asks
\* at a time, an investigation never forks, and no two workers are on a step,
\* but for one that is about to fail what has been approved meanwhile.
THEOREM NeverForks ==
  ASSUME OneUserInTime
  PROVE  Spec => []OneAtATime
<1>1. TypeOK /\ TablesInv /\ OrderInv => OneAtATime
  <2> SUFFICES ASSUME TypeOK, TablesInv, OrderInv  PROVE OneAtATime
    OBVIOUS
  <2>1. SingleThreaded
    BY OneThread, AtMostOne DEF SingleThreaded
  <2>2. ASSUME NEW v \in Workers, NEW w \in Workers, v # w, IsBusy(v), IsBusy(w),
               worker[v].row = worker[w].row
        PROVE  /\ "failing" \in {worker[v].pc, worker[w].pc}
               /\ worker[v].row \in granted
    <3>1. worker[v].row \in granted
      BY <2>2 DEF OrderInv, Shared
    <3>2. RunOf(v) = RunOf(w)
      BY <2>2 DEF RunOf
    <3> QED  BY <2>2, <3>1, <3>2 DEF OrderInv, OneHolder, Holding
  <2> QED  BY <2>1, <2>2 DEF OneAtATime, ExclusiveExecution
<1> QED  BY <1>1, OrderHolds, TypeCorrect, TablesHold, PTL
-----------------------------------------------------------------------------
(* The budget, and the repetition of transforms. *)

CallDone(x) == step[x].type = "tool_call" /\ step[x].status = "completed"

\* What a worker read of its run, it can rely on: nobody else has written it
\* since, and nobody else has completed a call.
Solvent(w) ==
  /\ worker[w].pc \in {"starting", "executing", "ran", "invalid"} =>
       /\ worker[w].used = run[RunOf(w)].used
       /\ worker[w].transforms = run[RunOf(w)].transforms
       /\ run[RunOf(w)].used < MaxSteps
       /\ Row(w).tool \in Transforms =>
            run[RunOf(w)].transforms < MaxTransforms
  /\ worker[w].pc = "executing" =>
       \A y \in Rows : y[1] = RunOf(w) /\ CallDone(y) => y[2] \in worker[w].prior
  /\ worker[w].pc \in {"ran", "invalid"} /\ Row(w).tool \in Transforms =>
       \A y \in Rows : y[1] = RunOf(w) /\ CallDone(y) =>
                         step[y].tool # Row(w).tool

DoneOnce == \A x, y \in Rows :
              /\ x[1] = y[1] /\ CallDone(x) /\ CallDone(y)
              /\ step[x].tool = step[y].tool /\ step[x].tool \in Transforms
              => x = y

LedgerInv ==
  /\ BudgetKept
  /\ DoneOnce
  /\ \A w \in Workers : IsBusy(w) => Solvent(w)

LEMMA InitLedger == Init => LedgerInv
BY BoundsAssumption
   DEF Init, LedgerInv, BudgetKept, DoneOnce, CallDone, NoRun, NoRow, IdleWorker,
       IsBusy, Busy

\* Run r, its rows and its worker change; the rest is left as it is.
LEMMA LedgerFrame ==
  ASSUME TypeOK, TypeOK', TablesInv, LedgerInv, NEW r \in Runs,
         \A q \in Runs : q # r => run'[q].used = run[q].used
                                  /\ run'[q].transforms = run[q].transforms,
         run'[r].used <= MaxSteps /\ run'[r].transforms <= MaxTransforms,
         \A x \in Rows : /\ Exists(x) => step'[x].tool = step[x].tool
                         /\ x[1] # r /\ CallDone(x)' => CallDone(x),
         \A x, y \in Rows :
           /\ x[1] = r /\ y[1] = r /\ CallDone(x)' /\ CallDone(y)'
           /\ step'[x].tool = step'[y].tool /\ step'[x].tool \in Transforms
           => x = y,
         \A w \in Workers : IsBusy(w)' => \/ RunOf(w)' = r /\ Solvent(w)'
                                          \/ RunOf(w)' # r /\ worker'[w] = worker[w]
  PROVE  LedgerInv'
<1>1. \A x \in Rows : CallDone(x) => Exists(x)
  BY DEF CallDone, Exists
<1>2. BudgetKept'
  BY DEF LedgerInv, BudgetKept
<1>3. DoneOnce'
  BY <1>1 DEF LedgerInv, DoneOnce
<1>4. ASSUME NEW w \in Workers, IsBusy(w)'  PROVE Solvent(w)'
  <2>1. CASE RunOf(w)' = r
    BY <1>4, <2>1
  <2>2. CASE RunOf(w)' # r
    <3>1. /\ worker'[w] = worker[w] /\ IsBusy(w) /\ RunOf(w)' = RunOf(w)
          /\ RunOf(w) # r
      BY <1>4, <2>2 DEF IsBusy, RunOf
    <3>2. /\ worker[w].row \in Rows /\ Exists(worker[w].row) /\ RunOf(w) \in Runs
          /\ Solvent(w)
      BY <3>1, BusyHasRun DEF LedgerInv
    <3>3. Row(w)'.tool = Row(w).tool
      BY <3>1, <3>2 DEF Row
    <3>4. \A y \in Rows : y[1] = RunOf(w) /\ CallDone(y)' =>
            CallDone(y) /\ step'[y].tool = step[y].tool
      BY <1>1, <3>1
    <3>5. /\ run'[RunOf(w)].used = run[RunOf(w)].used
          /\ run'[RunOf(w)].transforms = run[RunOf(w)].transforms
      BY <3>1, <3>2
    <3> QED  BY <3>1, <3>2, <3>3, <3>4, <3>5 DEF Solvent
  <2> QED  BY <2>1, <2>2
<1> QED  BY <1>2, <1>3, <1>4 DEF LedgerInv

\* Usage stays, nothing is completed, and no worker gets to rely on more.
LEMMA LedgerKept ==
  ASSUME TypeOK, TypeOK', TablesInv, LedgerInv,
         \A q \in Runs : run'[q].used = run[q].used
                         /\ run'[q].transforms = run[q].transforms,
         \A x \in Rows : /\ Exists(x) => step'[x].tool = step[x].tool
                         /\ CallDone(x)' => CallDone(x),
         \A w \in Workers : IsBusy(w)' =>
           \/ worker'[w] = worker[w]
           \/ worker'[w].pc \notin {"starting", "executing", "ran", "invalid"}
           \/ Solvent(w)'
  PROVE  LedgerInv'
<1>1. \A x \in Rows : CallDone(x) => Exists(x)
  BY DEF CallDone, Exists
<1>2. BudgetKept' /\ DoneOnce'
  BY <1>1 DEF LedgerInv, BudgetKept, DoneOnce
<1>3. ASSUME NEW w \in Workers, IsBusy(w)'  PROVE Solvent(w)'
  <2>1. CASE worker'[w] = worker[w]
    <3>1. IsBusy(w) /\ RunOf(w)' = RunOf(w)
      BY <1>3, <2>1 DEF IsBusy, RunOf
    <3>2. /\ worker[w].row \in Rows /\ Exists(worker[w].row) /\ RunOf(w) \in Runs
          /\ Solvent(w)
      BY <3>1, BusyHasRun DEF LedgerInv
    <3>3. Row(w)'.tool = Row(w).tool
      BY <2>1, <3>2 DEF Row
    <3> QED  BY <1>1, <2>1, <3>1, <3>2, <3>3 DEF Solvent
  <2>2. CASE worker'[w].pc \notin {"starting", "executing", "ran", "invalid"}
    BY <2>2 DEF Solvent
  <2> QED  BY <1>3, <2>1, <2>2
<1> QED  BY <1>2, <1>3 DEF LedgerInv
\* A step of a worker that completes nothing and leaves the usage.
LEMMA OwnLedger ==
  ASSUME TypeOK, TypeOK', TablesInv, LedgerInv, NEW w \in Workers, IsBusy(w),
         RowsStay,
         \A y \in Rows : step'[y].status = "completed" =>
                          step[y].status = "completed",
         \A q \in Runs : run'[q].used = run[q].used
                         /\ run'[q].transforms = run[q].transforms,
         \A v \in Workers : v # w => worker'[v] = worker[v],
         worker'[w].pc \in {"starting", "executing", "ran", "invalid"} => Solvent(w)'
  PROVE  LedgerInv'
<1>1. \A x \in Rows : /\ Exists(x) => step'[x].tool = step[x].tool
                      /\ CallDone(x)' => CallDone(x)
  BY DEF RowsStay, CallDone
<1> QED  BY <1>1, LedgerKept

LEMMA LoadLedger ==
  ASSUME TypeOK, TypeOK', TablesInv, LedgerInv, NEW w \in Workers, Load(w)
  PROVE  LedgerInv'
<1> DEFINE x == worker[w].row
<1>1. IsBusy(w) /\ UNCHANGED <<run, step>>
  BY DEF Load, IsBusy, Busy
<1>2. /\ worker[w] \in WorkerState /\ RunOf(w) \in Runs /\ x[1] = RunOf(w)
      /\ x \in Rows /\ run[RunOf(w)] \in RunType
  BY <1>1, BusyHasRun
<1>3. RowsStay
  BY <1>1, SameTable
<1>4. \A v \in Workers : v # w => worker'[v] = worker[v]
  BY DEF Load, Abort, TypeOK
<1>5. CASE Abort(w)
  <2>1. worker'[w].pc = "idle"
    BY <1>5 DEF Abort, TypeOK, IdleWorker
  <2> QED  BY <1>1, <1>3, <1>4, <2>1, OwnLedger
<1>6. CASE ~Abort(w)
  <2>1. PICK outOfTime \in BOOLEAN :
          worker' = [worker EXCEPT ![w] =
            [Remember(w, IF outOfTime \/ OverBudget(x) THEN "failing"
                         ELSE IF run[x[1]].status = "pending"
                              THEN "starting" ELSE "executing")
             EXCEPT !.decision = step[x].decision]]
    BY <1>6 DEF Load
  <2> DEFINE pc == IF outOfTime \/ OverBudget(x) THEN "failing"
                   ELSE IF run[x[1]].status = "pending"
                        THEN "starting" ELSE "executing"
  <2>2. /\ worker'[w].pc = pc /\ worker'[w].row = x
        /\ worker'[w].used = run[RunOf(w)].used
        /\ worker'[w].transforms = run[RunOf(w)].transforms
        /\ worker'[w].prior = IF pc = "executing" THEN CompletedCalls(x) ELSE {}
    BY <1>1, <1>2, <2>1 DEF Remember, TypeOK, WorkerState
  <2>3. pc \in {"failing", "starting", "executing"}
    OBVIOUS
  <2>4. ASSUME pc # "failing"  PROVE Solvent(w)'
    <3>1. ~OverBudget(x)
      BY <2>4
    <3>2. /\ run[RunOf(w)].used < MaxSteps
          /\ step[x].tool \in Transforms =>
               run[RunOf(w)].transforms < MaxTransforms
      BY <1>2, <3>1, BoundsAssumption DEF OverBudget, RunType
    <3>3. RunOf(w)' = RunOf(w) /\ Row(w)' = step[x]
      BY <1>1, <2>2 DEF RunOf, Row
    <3>4. \A y \in Rows : y[1] = RunOf(w) /\ CallDone(y) /\ y # x =>
                            y[2] \in CompletedCalls(x)
      BY <1>2, RowIsPair DEF CompletedCalls, CallDone
    <3>5. worker[w].pc = "claimed"
      BY DEF Load
    <3>6. pc = "executing" =>
            \A y \in Rows : y[1] = RunOf(w) /\ CallDone(y) => y[2] \in worker'[w].prior
      <4>1. CASE CallDone(x)
        BY <1>6, <4>1 DEF Load, CallDone, Row
      <4>2. CASE ~CallDone(x)
        BY <2>2, <3>4, <4>2
      <4> QED  BY <4>1, <4>2
    <3> HIDE DEF pc
    <3> QED  BY <1>1, <2>2, <2>3, <3>2, <3>3, <3>6 DEF Solvent, CallDone
  <2> HIDE DEF pc
  <2> QED  BY <1>1, <1>3, <1>4, <2>2, <2>3, <2>4, OwnLedger
<1> QED  BY <1>5, <1>6

LEMMA StartRunLedger ==
  ASSUME TypeOK, TypeOK', TablesInv, OrderInv, LedgerInv, NEW w \in Workers, StartRun(w)
  PROVE  LedgerInv'
<1> DEFINE x == worker[w].row
<1>1. IsBusy(w) /\ UNCHANGED step /\ worker[w].pc = "starting"
  BY DEF StartRun, IsBusy, Busy
<1>2. /\ worker[w] \in WorkerState /\ RunOf(w) \in Runs /\ x[1] = RunOf(w)
      /\ x \in Rows
  BY <1>1, BusyHasRun
<1>3. RowsStay
  BY <1>1, SameTable
<1>4. /\ \A v \in Workers : v # w => worker'[v] = worker[v]
      /\ \A q \in Runs : run'[q].used = run[q].used
                         /\ run'[q].transforms = run[q].transforms
  <2>1. Abort(w) \/ Astray(w) \/ worker' = [worker EXCEPT ![w] = Remember(w, "executing")]
    BY DEF StartRun
  <2>2. \A v \in Workers : v # w => worker'[v] = worker[v]
    BY <2>1, AstrayEffect DEF Abort, TypeOK
  <2> QED  BY <1>2, <2>2 DEF StartRun, TypeOK, RunType
<1>5. CASE Abort(w)
  <2>1. worker'[w].pc = "idle"
    BY <1>5 DEF Abort, TypeOK, IdleWorker
  <2> QED  BY <1>1, <1>3, <1>4, <2>1, OwnLedger
<1>6. CASE worker' = [worker EXCEPT ![w] = Remember(w, "executing")]
  <2>1. /\ worker'[w].pc = "executing" /\ worker'[w].row = x
        /\ worker'[w].used = run'[RunOf(w)].used
        /\ worker'[w].transforms = run'[RunOf(w)].transforms
        /\ worker'[w].prior = CompletedCalls(x)
    BY <1>1, <1>2, <1>6 DEF Remember, TypeOK, WorkerState
  <2>2. Solvent(w) /\ RunOf(w)' = RunOf(w) /\ Row(w)' = Row(w)
    BY <1>1, <2>1 DEF LedgerInv, RunOf, Row
  <2>3. \A y \in Rows : y[1] = RunOf(w) /\ CallDone(y) /\ y # x =>
                          y[2] \in CompletedCalls(x)
    BY <1>2, RowIsPair DEF CompletedCalls, CallDone
  <2>4. ~CallDone(x)
    BY <1>1 DEF Holding, OrderInv, Owns, Advanced, Row, CallDone
  <2>5. Solvent(w)'
    BY <1>1, <1>2, <1>4, <2>1, <2>2, <2>3, <2>4 DEF Solvent, CallDone
  <2> QED  BY <1>1, <1>3, <1>4, <2>5, OwnLedger
<1>7. CASE Astray(w)
  <2>1. worker'[w].pc = "failing"
    BY <1>7, AstrayEffect
  <2> QED  BY <1>1, <1>3, <1>4, <2>1, OwnLedger
<1> QED  BY <1>5, <1>6, <1>7 DEF StartRun

\* Steps after which the worker relies on nothing.
LEMMA ForgetLedger ==
  ASSUME TypeOK, TypeOK', TablesInv, OrderInv, LedgerInv, NEW w \in Workers,
         \/ Fail(w) \/ ThinkError(w) \/ ToolError(w) \/ AskApproval(w)
  PROVE  LedgerInv'
<1>1. IsBusy(w)
  BY DEF Fail, ThinkError, ToolError, AskApproval, Executing, IsBusy, Busy
<1>2. /\ worker[w].row \in Rows /\ RunOf(w) \in Runs /\ worker[w] \in WorkerState
      /\ step[worker[w].row] \in StepType
  BY <1>1, BusyHasRun DEF TypeOK
<1>3. RowsStay
  BY ThinkStays, ToolCallStays DEF Stays
<1>4. \A q \in Runs : run'[q].used = run[q].used
                      /\ run'[q].transforms = run[q].transforms
  BY <1>2 DEF Fail, ThinkError, ToolError, AskApproval, TypeOK, RunType
<1>5. /\ \A v \in Workers : v # w => worker'[v] = worker[v]
      /\ worker'[w].pc \in {"failing", "idle"}
  <2>1. CASE Abort(w) \/ Astray(w)
    BY <2>1, AstrayEffect DEF Abort, IdleWorker, TypeOK
  <2>2. CASE ThinkError(w) \/ ToolError(w)
    BY <1>2, <2>2 DEF ThinkError, ToolError, TypeOK, WorkerState
  <2> QED  BY <2>1, <2>2 DEF Fail, AskApproval
<1>6. \A y \in Rows : step'[y].status = "completed" => step[y].status = "completed"
  <2>1. CASE Fail(w)
    <3>1. step' = [step EXCEPT ![worker[w].row].status = "failed",
                               ![worker[w].row].stale = FALSE]
      BY <2>1 DEF Fail
    <3>2. /\ step'[worker[w].row].status = "failed"
          /\ \A y \in Rows : y # worker[w].row => step'[y] = step[y]
      BY <1>2, <3>1, StatusEffect
    <3> QED  BY <3>2
  <2>2. CASE ThinkError(w) \/ ToolError(w)
    BY <2>2 DEF ThinkError, ToolError
  <2>3. CASE AskApproval(w)
    <3> DEFINE v == [step[worker[w].row] EXCEPT
                       !.status = "waiting_approval", !.worker = None,
                       !.stale = FALSE, !.decision = "none"]
    <3>1. step' = step \/ step' = [step EXCEPT ![worker[w].row] = v]
      BY <2>3 DEF AskApproval
    <3>2. v.status = "waiting_approval"
      BY <1>2 DEF StepType
    <3> HIDE DEF v
    <3> QED  BY <1>2, <3>1, <3>2 DEF TypeOK
  <2> QED  BY <2>1, <2>2, <2>3
<1> QED  BY <1>1, <1>3, <1>4, <1>5, <1>6, OwnLedger

\* The policy: a transform that is let through has not been completed.
LEMMA ExecuteLedger ==
  ASSUME TypeOK, TypeOK', TablesInv, OrderInv, LedgerInv, NEW w \in Workers,
         Execute(w)
  PROVE  LedgerInv'
<1> DEFINE x == worker[w].row
<1>1. IsBusy(w) /\ worker[w].pc = "executing" /\ UNCHANGED <<run, step>>
  BY DEF Execute, Executing, IsBusy, Busy
<1>2. x \in Rows /\ x[1] = RunOf(w) /\ worker[w] \in WorkerState /\ RunOf(w) \in Runs
  BY <1>1, BusyHasRun
<1>3. PICK pc : /\ pc \in {"ran", "invalid", "failing"}
                /\ worker' = [worker EXCEPT ![w] =
                                [worker[w] EXCEPT !.pc = pc, !.prior = {}]]
  BY DEF Execute, TypeOK
<1>4. /\ worker'[w].pc = pc /\ worker'[w].row = x
      /\ worker'[w].used = worker[w].used
      /\ worker'[w].transforms = worker[w].transforms
      /\ \A v \in Workers : v # w => worker'[v] = worker[v]
  BY <1>2, <1>3 DEF TypeOK, WorkerState
<1>5. RunOf(w)' = RunOf(w) /\ Row(w)' = Row(w) /\ Solvent(w)
  BY <1>1, <1>4 DEF RunOf, Row, LedgerInv
<1>6. ASSUME Row(w).tool \in Transforms, NEW y \in Rows, y[1] = RunOf(w), CallDone(y)
      PROVE  step[y].tool # Row(w).tool
  <2>1. y[2] \in worker[w].prior /\ y[2] \in Numbers /\ y = <<RunOf(w), y[2]>>
    BY <1>1, <1>5, <1>6, RowIsPair DEF Solvent
  <2>2. {n \in worker[w].prior : step[<<RunOf(w), n>>].tool = Row(w).tool} = {}
    BY <1>6 DEF Execute, Allowed, PolicyMode
  <2> QED  BY <2>1, <2>2
<1>7. Solvent(w)'
  BY <1>1, <1>3, <1>4, <1>5, <1>6 DEF Solvent, CallDone
<1> QED  BY <1>1, <1>4, <1>7, SameTable, OwnLedger
\* A step is completed, on the budget that its worker read.
LEMMA CompletedLedger ==
  ASSUME TypeOK, TypeOK', TablesInv, OrderInv, LedgerInv, NEW w \in Workers,
         worker[w].pc \in {"executing", "ran", "invalid"}, RowsStay,
         NEW n \in {0, 1}, NEW m \in {0, 1},
         \A y \in Rows : y # worker[w].row => step'[y] = step[y],
         \A r \in Runs : r # RunOf(w) => run'[r] = run[r],
         run'[RunOf(w)].used = worker[w].used + n,
         run'[RunOf(w)].transforms = worker[w].transforms + m,
         m = 1 => Row(w).tool \in Transforms,
         Row(w).type = "tool_call" => worker[w].pc \in {"ran", "invalid"},
         \A v \in Workers : v # w => worker'[v] = worker[v],
         worker'[w].pc \in {"idle", "create", "failing"},
         IsBusy(w)' => worker'[w].row = worker[w].row
  PROVE  LedgerInv'
<1>0. PICK x \in Rows, r \in Runs : x = worker[w].row /\ r = RunOf(w)
  BY BusyHasRun DEF IsBusy, Busy
<1>1. /\ IsBusy(w) /\ Holding(w) /\ x = worker[w].row /\ r = RunOf(w) /\ x[1] = r
      /\ Solvent(w) /\ run[r] \in RunType
  BY <1>0, BusyHasRun DEF LedgerInv, Holding, IsBusy, Busy
<1>2. run'[r].used <= MaxSteps /\ run'[r].transforms <= MaxTransforms
  BY <1>1, BoundsAssumption DEF Solvent, LedgerInv, BudgetKept, RunType
<1>3. \A y \in Rows : /\ step'[y].tool = step[y].tool
                      /\ y # x => (CallDone(y)' <=> CallDone(y))
  BY <1>1 DEF RowsStay, CallDone
<1>4. ASSUME NEW y \in Rows, y[1] = r, y # x, CallDone(y), CallDone(x)',
             step[x].tool \in Transforms
      PROVE  step[y].tool # step[x].tool
  <2>1. step'[x].type = step[x].type
    BY DEF RowsStay
  <2>2. Row(w).type = "tool_call"
    BY <1>1, <1>4, <2>1 DEF CallDone, Row
  <2> QED  BY <1>1, <1>4, <2>2 DEF Solvent, Row
<1>5. \A y, z \in Rows :
        /\ y[1] = r /\ z[1] = r /\ CallDone(y)' /\ CallDone(z)'
        /\ step'[y].tool = step'[z].tool /\ step'[y].tool \in Transforms
        => y = z
  BY <1>1, <1>3, <1>4 DEF LedgerInv, DoneOnce
<1>6. ASSUME NEW v \in Workers, IsBusy(v)'
      PROVE  \/ RunOf(v)' = r /\ Solvent(v)'
             \/ RunOf(v)' # r /\ worker'[v] = worker[v]
  <2>1. CASE v = w
    <3>1. worker'[w].row = worker[w].row
      BY <1>6, <2>1
    <3>2. RunOf(w)' = r
      BY <1>1, <3>1 DEF RunOf
    <3>3. Solvent(w)'
      BY DEF Solvent
    <3> QED  BY <2>1, <3>2, <3>3
  <2>2. CASE v # w
    <3>1. worker'[v] = worker[v] /\ IsBusy(v) /\ RunOf(v)' = RunOf(v)
      BY <1>6, <2>2 DEF IsBusy, RunOf
    <3>2. CASE Holding(v)
      BY <1>1, <2>2, <3>1, <3>2 DEF OrderInv, OneHolder
    <3>3. CASE worker'[v].pc = "failing"
      BY <3>1, <3>3 DEF Solvent
    <3> QED  BY <3>1, <3>2, <3>3 DEF Holding
  <2> QED  BY <2>1, <2>2
<1> QED  BY <1>1, <1>2, <1>3, <1>5, <1>6, LedgerFrame

LEMMA ThinkLedger ==
  ASSUME TypeOK, TypeOK', TablesInv, OrderInv, LedgerInv, NEW w \in Workers,
         Think(w) \/ ThinkAstray(w)
  PROVE  LedgerInv'
<1>1. IsBusy(w) /\ worker[w].pc = "executing" /\ Row(w).type = "think"
      /\ Complete(w, 1, 0)
  BY DEF Think, ThinkAstray, Executing, IsBusy, Busy
<1>2. /\ worker'[w].pc \in {"create", "failing"}
      /\ worker'[w].row = worker[w].row
      /\ \A v \in Workers : v # w => worker'[v] = worker[v]
  <2>1. CASE Think(w)
    BY <2>1 DEF Think, GoCreate, Goto, IdleWorker, TypeOK
  <2>2. CASE ThinkAstray(w)
    BY <2>2, AstrayEffect DEF ThinkAstray
  <2> QED  BY <2>1, <2>2
<1>3. RowsStay
  BY ThinkStays DEF Stays
<1>4. run'[RunOf(w)].used = worker[w].used + 1
      /\ run'[RunOf(w)].transforms = worker[w].transforms + 0
  BY <1>1, CompleteEffect
<1> QED  BY <1>1, <1>2, <1>3, <1>4, CompleteEffect, CompletedLedger

LEMMA AfterToolLedger ==
  ASSUME TypeOK, TypeOK', TablesInv, OrderInv, LedgerInv, NEW w \in Workers,
         ToolRan(w) \/ ToolInvalid(w)
  PROVE  LedgerInv'
<1>1. /\ IsBusy(w) /\ worker[w].pc \in {"ran", "invalid"}
      /\ GoCreate(w, "tool_result") \/ Astray(w)
  BY DEF ToolRan, ToolInvalid, IsBusy, Busy
<1>2. /\ worker'[w].pc \in {"create", "failing"}
      /\ worker'[w].row = worker[w].row
      /\ \A v \in Workers : v # w => worker'[v] = worker[v]
  BY <1>1, AstrayEffect DEF GoCreate, Goto, IdleWorker, TypeOK
<1>3. RowsStay
  BY AfterToolStays DEF Stays
<1>4. PICK n \in {0, 1}, m \in {0, 1} :
        Complete(w, n, m) /\ (m = 1 => Row(w).tool \in Transforms)
  <2>1. CASE ToolRan(w) /\ Row(w).tool \in Transforms
    BY <2>1 DEF ToolRan
  <2>2. CASE ToolRan(w) /\ Row(w).tool \notin Transforms
    BY <2>2 DEF ToolRan
  <2>3. CASE ToolInvalid(w)
    BY <2>3 DEF ToolInvalid
  <2> QED  BY <2>1, <2>2, <2>3
<1>5. /\ run'[RunOf(w)].used = worker[w].used + n
      /\ run'[RunOf(w)].transforms = worker[w].transforms + m
      /\ \A y \in Rows : y # worker[w].row => step'[y] = step[y]
      /\ \A r \in Runs : r # RunOf(w) => run'[r] = run[r]
  BY <1>1, <1>4, CompleteEffect
<1> QED  BY <1>1, <1>2, <1>3, <1>4, <1>5, CompletedLedger

LEMMA SummarizeLedger ==
  ASSUME TypeOK, TypeOK', TablesInv, OrderInv, LedgerInv, NEW w \in Workers,
         Summarize(w)
  PROVE  LedgerInv'
<1>1. IsBusy(w) /\ worker[w].pc = "executing" /\ Row(w).type = "summary"
  BY DEF Summarize, Executing, IsBusy, Busy
<1>2. worker[w].row \in Rows /\ RunOf(w) \in Runs /\ worker[w] \in WorkerState
  BY <1>1, BusyHasRun
<1>3. /\ worker'[w].pc \in {"idle", "failing"}
      /\ worker'[w].pc = "failing" => worker'[w].row = worker[w].row
      /\ \A v \in Workers : v # w => worker'[v] = worker[v]
  BY AstrayEffect DEF Summarize, Abort, IdleWorker, TypeOK
<1>4. RowsStay
  BY AfterToolStays DEF Stays
<1>5. \A y \in Rows : y # worker[w].row => step'[y] = step[y]
  BY <1>2, StatusEffect DEF Summarize
<1>6. /\ \A r \in Runs : r # RunOf(w) => run'[r] = run[r]
      /\ run'[RunOf(w)].used = worker[w].used + 1
      /\ run'[RunOf(w)].transforms = worker[w].transforms
  BY <1>2 DEF Summarize, TypeOK, RunType
<1>7. worker[w].transforms + 0 = worker[w].transforms
  BY <1>2 DEF WorkerState
<1>8. IsBusy(w)' => worker'[w].row = worker[w].row
  BY <1>3 DEF IsBusy, Busy
<1> QED  BY <1>1, <1>3, <1>4, <1>5, <1>6, <1>7, <1>8, CompletedLedger

LEMMA CreateLedger ==
  ASSUME TypeOK, TypeOK', TablesInv, LedgerInv, NEW w \in Workers, Create(w)
  PROVE  LedgerInv'
<1>1. /\ worker[w] \in WorkerState /\ UNCHANGED run
      /\ \A v \in Workers : v # w => worker'[v] = worker[v]
  BY AstrayEffect DEF Create, Abort, TypeOK, WorkerType
<1>2. worker'[w].pc \in {"idle", "create", "failing"}
  <2>1. CASE worker' = [worker EXCEPT ![w] = IdleWorker]
    BY <2>1 DEF IdleWorker, TypeOK
  <2>2. CASE worker' = [worker EXCEPT ![w] =
               [worker[w] EXCEPT !.next = "think", !.number = worker[w].number + 1]]
    BY <1>1, <2>2 DEF Create, TypeOK, WorkerState
  <2> QED  BY <2>1, <2>2, AstrayEffect DEF Create, Abort
<1>3. \A x \in Rows : /\ Exists(x) => step'[x].tool = step[x].tool
                      /\ CallDone(x)' => CallDone(x)
  <2>1. CASE Exists(<<RunOf(w), worker[w].number>>)
    BY <2>1 DEF Create, CallDone
  <2>2. CASE ~Exists(<<RunOf(w), worker[w].number>>)
    <3>0. PICK x \in Rows : \E row :
            /\ ~Exists(x) /\ step' = [step EXCEPT ![x] = row]
            /\ row.status = "completed" => row.type = "tool_result"
      BY <2>2, CreateEffect
    <3>1. PICK row :
            /\ ~Exists(x) /\ step' = [step EXCEPT ![x] = row]
            /\ row.status = "completed" => row.type = "tool_result"
      BY <3>0
    <3>2. step'[x] = row /\ \A y \in Rows : y # x => step'[y] = step[y]
      BY <3>1 DEF TypeOK
    <3> QED  BY <3>1, <3>2 DEF CallDone, Exists
  <2> QED  BY <2>1, <2>2
<1> QED  BY <1>1, <1>2, <1>3, LedgerKept

LEMMA ClaimLedger ==
  ASSUME TypeOK, TypeOK', TablesInv, LedgerInv, NEW w \in Workers, Claim(w)
  PROVE  LedgerInv'
<1>1. PICK x \in NextClaims :
        step' = [step EXCEPT ![x].status = "running", ![x].worker = w,
                             ![x].stale = FALSE]
  BY DEF Claim
<1>2. x \in Rows /\ step[x].status # "completed"
  BY DEF NextClaims, Claimable, Abandoned, ClaimableStatuses
<1>3. /\ step'[x].status = "running" /\ step'[x].tool = step[x].tool
      /\ \A y \in Rows : y # x => step'[y] = step[y]
  BY <1>1, <1>2 DEF TypeOK, StepType
<1>4. /\ \A v \in Workers : v # w => worker'[v] = worker[v]
      /\ worker'[w].pc = "claimed" /\ UNCHANGED run
  BY DEF Claim, IdleWorker, TypeOK
<1> QED  BY <1>2, <1>3, <1>4, LedgerKept DEF CallDone

LEMMA RecoveryLedger ==
  ASSUME TypeOK, TypeOK', TablesInv, LedgerInv, NEW w \in Workers,
         Crash(w) \/ Restart(w)
  PROVE  LedgerInv'
<1>1. /\ \A v \in Workers : v # w => worker'[v] = worker[v]
      /\ worker'[w].pc \in {"idle", "down", "booting"}
  <2>1. PICK pc \in {"idle", "down", "booting"} :
          worker' = [worker EXCEPT ![w] = [IdleWorker EXCEPT !.pc = pc]]
    <3>1. IdleWorker = [IdleWorker EXCEPT !.pc = "idle"]
      BY DEF IdleWorker
    <3> QED  BY <3>1 DEF Crash, Restart, RecoverClaims, RecoverRuns
  <2> QED  BY <2>1 DEF IdleWorker, TypeOK
<1>2. \A q \in Runs : run'[q].used = run[q].used
                      /\ run'[q].transforms = run[q].transforms
  BY DEF Crash, Restart, RecoverClaims, RecoverRuns, TypeOK, RunType
<1>3. \A x \in Rows : /\ step'[x].tool = step[x].tool
                      /\ CallDone(x)' => CallDone(x)
  <2>1. CASE UNCHANGED step
    BY <2>1 DEF CallDone
  <2>2. CASE RecoverClaims(w)
    BY <2>2 DEF RecoverClaims, TypeOK, StepType, CallDone
  <2> QED  BY <2>1, <2>2 DEF Crash, Restart, RecoverRuns
<1> QED  BY <1>1, <1>2, <1>3, LedgerKept

LEMMA ExpireLedger ==
  ASSUME TypeOK, TypeOK', TablesInv, LedgerInv, NEW x \in Rows, Expire(x)
  PROVE  LedgerInv'
<1>1. \A y \in Rows : /\ step'[y].tool = step[y].tool
                      /\ CallDone(y)' => CallDone(y)
  BY DEF Expire, TypeOK, StepType, CallDone
<1> QED  BY <1>1, LedgerKept DEF Expire

LEMMA RequestLedger ==
  ASSUME TypeOK, TypeOK', TablesInv, OrderInv, LedgerInv, NEW u \in Users,
         Ask(u) \/ Proceed(u) \/ RequestDies(u)
  PROVE  LedgerInv'
<1>1. UNCHANGED worker
  BY DEF Ask, BeginStart, BeginRetry, BeginCancel, BeginDecision, Proceed,
         CreateRun, SeedThink, CommitCancel, CommitApproval, CommitRejection,
         CommitRunStatus, RequestDies
<1>2. \A q \in Runs : run'[q].used = run[q].used
                      /\ run'[q].transforms = run[q].transforms
  BY DEF Ask, BeginStart, BeginRetry, BeginCancel, BeginDecision, Proceed,
         CreateRun, SeedThink, CommitCancel, CommitApproval, CommitRejection,
         CommitRunStatus, RequestDies, TypeOK, RunType
<1>3. \A y \in Rows : /\ Exists(y) => step'[y].tool = step[y].tool
                      /\ CallDone(y)' => CallDone(y)
  <2>1. CASE SeedThink(u)
    <3> DEFINE row == NewRow("think", "pending", None)
    <3>1. PICK x \in Rows : ~Exists(x) /\ step' = [step EXCEPT ![x] = row]
      BY <2>1, SeedInserts
    <3>2. row.status = "pending"
      BY DEF NewRow, NoRow
    <3> HIDE DEF row
    <3>3. step'[x] = row /\ \A y \in Rows : y # x => step'[y] = step[y]
      BY <3>1 DEF TypeOK
    <3> QED  BY <3>1, <3>2, <3>3 DEF CallDone, Exists
  <2>2. CASE CommitApproval(u) \/ CommitRejection(u)
    <3> DEFINE x == request[u].row
    <3>1. x \in Rows
      BY <2>2 DEF CommitApproval, CommitRejection, TypeOK, RequestType
    <3>2. PICK status \in {"approved", "rejected"} :
            step' = [step EXCEPT ![x] = [step[x] EXCEPT !.status = status,
                                           !.decision = status, !.stale = FALSE]]
      BY <2>2 DEF CommitApproval, CommitRejection
    <3>3. /\ step'[x].status = status /\ step'[x].tool = step[x].tool
          /\ \A y \in Rows : y # x => step'[y] = step[y]
      BY <3>1, <3>2 DEF TypeOK, StepType
    <3> QED  BY <3>1, <3>3 DEF CallDone
  <2>3. CASE UNCHANGED step
    BY <2>3 DEF CallDone
  <2> QED  BY <2>1, <2>2, <2>3
           DEF Ask, BeginStart, BeginRetry, BeginCancel, BeginDecision, Proceed,
               CreateRun, CommitCancel, CommitRunStatus, RequestDies
<1> QED  BY <1>1, <1>2, <1>3, LedgerKept

LEMMA StepLedger ==
  ASSUME TypeOK, TypeOK', TablesInv, OrderInv, LedgerInv, [Next]_vars
  PROVE  LedgerInv'
<1>1. ASSUME NEW w \in Workers, Claim(w) \/ Process(w) \/ Crash(w) \/ Restart(w)
      PROVE  LedgerInv'
  BY <1>1, ClaimLedger, LoadLedger, StartRunLedger, ForgetLedger, ThinkLedger,
     ExecuteLedger, AfterToolLedger, SummarizeLedger, CreateLedger, RecoveryLedger
     DEF Process
<1>2. CASE UNCHANGED vars
  BY <1>2, LedgerKept DEF vars, CallDone
<1> QED  BY <1>1, <1>2, ExpireLedger, RequestLedger DEF Next

LEMMA LedgerHolds ==
  ASSUME OneUserInTime
  PROVE  Spec => []LedgerInv
<1>1. TypeOK /\ TypeOK' /\ TablesInv /\ OrderInv /\ LedgerInv /\ [Next]_vars
        => LedgerInv'
  BY StepLedger
<1> QED  BY <1>1, InitLedger, TypeCorrect, TablesHold, OrderHolds, PTL DEF Spec

\* An investigation stays within its budget of steps and of transforms, although
\* the usage is written back from what a worker read before it called a tool.
THEOREM StaysInBudget ==
  ASSUME OneUserInTime
  PROVE  Spec => []BudgetKept
<1>1. LedgerInv => BudgetKept
  BY DEF LedgerInv
<1> QED  BY <1>1, LedgerHolds, PTL

\* A transform is not completed twice with the same inputs in one run, although
\* the check against it is made on the list read before the step was started.
THEOREM TransformsOnce ==
  ASSUME OneUserInTime
  PROVE  Spec => []NoTransformTwice
<1>1. TypeOK /\ TablesInv /\ LedgerInv => NoTransformTwice
  <2> SUFFICES ASSUME TypeOK, TablesInv, LedgerInv, NEW r \in Runs,
                      NEW t \in Transforms
               PROVE  Cardinality(Completed(r, t)) <= 1
    BY DEF NoTransformTwice
  <2>1. t \in Tools /\ t # None
    BY ToolsAssumption, NoneAssumption
  <2>2. ASSUME NEW n \in Completed(r, t)
        PROVE  /\ n \in Numbers /\ <<r, n>> \in Rows /\ CallDone(<<r, n>>)
               /\ step[<<r, n>>].tool = t
    BY <2>1 DEF Completed, CallDone, Rows, TablesInv, RowShape, Exists
  <2>3. ASSUME NEW m \in Completed(r, t), NEW n \in Completed(r, t)
        PROVE  m = n
    <3>1. <<r, m>> = <<r, n>>
      BY <2>2 DEF LedgerInv, DoneOnce
    <3> QED  BY <3>1
  <2> HIDE DEF Completed
  <2> QED  BY <2>3, AtMostOne
<1> QED  BY <1>1, TypeCorrect, TablesHold, LedgerHolds, PTL
-----------------------------------------------------------------------------
(* What a decision settles. *)

Halts(x) == step[x].status = "waiting_approval" \/ step[x].decision = "rejected"
Sums(x) == step[x].type = "summary" /\ step[x].status = "completed"

\* A rejected step is not taken up again, and an approved one not asked about.
Settled(x) ==
  /\ step[x].decision = "rejected" => step[x].status \in {"rejected", "failed"}
  /\ x \in granted => /\ step[x].decision = "approved"
                      /\ step[x].status \notin {"waiting_approval", "absent"}
                      /\ step[x].tool \in GatedTools

\* A worker that goes on does so with a run that is neither paused nor completed
\* and knows of an approval; one that fails a step which waits, or which sums the
\* run up, fails the run, too.
Sound(w) ==
  /\ worker[w].decision # "rejected"
  /\ Holding(w) =>
       /\ Row(w).decision # "rejected"
       /\ run[RunOf(w)].status \notin {"paused", "completed"}
       /\ worker[w].pc \in {"starting", "executing"} =>
            /\ worker[w].status \notin {"paused", "completed"}
            /\ worker[w].row \in granted => worker[w].decision = "approved"
       /\ worker[w].pc \in {"ran", "invalid", "create"} => Row(w).type # "summary"
  /\ worker[w].pc = "failing" =>
       \/ worker[w].status # "failed"
       \/ Row(w).status # "waiting_approval" /\ ~Sums(worker[w].row)

Undecided(u) ==
  request[u].row \notin granted /\ step[request[u].row].decision # "rejected"

SettleInv ==
  /\ \A x \in Rows : Settled(x)
  /\ \A w \in Workers : IsBusy(w) => Sound(w)
  /\ \A u \in Users : request[u].pc \in {"approve", "reject"} => Undecided(u)

LEMMA InitSettle == Init => SettleInv
BY DEF Init, SettleInv, Settled, NoRow, IdleWorker, IdleRequest, IsBusy, Busy

\* What may happen around a busy worker.
Undisturbed(w) ==
  /\ IsBusy(w) /\ worker'[w] = worker[w]
  /\ step'[worker[w].row].type = Row(w).type
  /\ \/ step'[worker[w].row].status = Row(w).status
     \/ step'[worker[w].row].status \notin {"waiting_approval", "completed"}
     \/ step'[worker[w].row].status = "completed" /\ Row(w).type # "summary"
  /\ Holding(w) =>
       /\ step'[worker[w].row].decision = Row(w).decision
       /\ \/ run'[RunOf(w)].status = run[RunOf(w)].status
          \/ run'[RunOf(w)].status \notin {"paused", "completed"}
       /\ worker[w].row \in granted' => worker[w].row \in granted

LEMMA SettleFrame ==
  ASSUME TypeOK, TablesInv, SettleInv,
         \A x \in Rows : \/ Settled(x)'
                         \/ step'[x] = step[x] /\ (x \in granted' => x \in granted),
         \A w \in Workers : IsBusy(w)' => Sound(w)' \/ Undisturbed(w),
         \A u \in Users : request'[u].pc \in {"approve", "reject"} =>
           \/ Undecided(u)'
           \/ /\ request'[u] = request[u]
              /\ step'[request[u].row].decision = step[request[u].row].decision
              /\ request[u].row \in granted' => request[u].row \in granted
  PROVE  SettleInv'
<1>1. \A x \in Rows : Settled(x)'
  BY DEF SettleInv, Settled
<1>2. ASSUME NEW w \in Workers, IsBusy(w)', Undisturbed(w)  PROVE Sound(w)'
  <2>1. /\ worker'[w] = worker[w] /\ RunOf(w)' = RunOf(w) /\ Sound(w)
        /\ Holding(w)' = Holding(w) /\ Row(w)' = step'[worker[w].row]
    BY <1>2 DEF Undisturbed, SettleInv, Holding, IsBusy, RunOf, Row
  <2>2. Holding(w) =>
       /\ Row(w)'.decision # "rejected"
       /\ run'[RunOf(w)].status \notin {"paused", "completed"}
       /\ worker[w].pc \in {"starting", "executing"} =>
            /\ worker[w].status \notin {"paused", "completed"}
            /\ worker[w].row \in granted' => worker[w].decision = "approved"
       /\ worker[w].pc \in {"ran", "invalid", "create"} => Row(w)'.type # "summary"
    BY <1>2, <2>1 DEF Undisturbed, Sound
  <2>3. worker[w].pc = "failing" =>
       \/ worker[w].status # "failed"
       \/ Row(w)'.status # "waiting_approval" /\ ~Sums(worker[w].row)'
    BY <1>2, <2>1 DEF Undisturbed, Sound, Sums, Row
  <2> QED  BY <2>1, <2>2, <2>3 DEF Sound, Sums
<1>3. \A u \in Users : request'[u].pc \in {"approve", "reject"} => Undecided(u)'
  BY DEF SettleInv, Undecided
<1> QED  BY <1>1, <1>2, <1>3 DEF SettleInv

\* A worker with a claim changes its own row, its run and itself.
LEMMA OwnSettle ==
  ASSUME TypeOK, TablesInv, OrderInv, SettleInv, NEW w \in Workers, Holding(w),
         UNCHANGED <<request, granted>>, RowsStay,
         \A y \in Rows : y # worker[w].row => step'[y] = step[y],
         \A v \in Workers : v # w => worker'[v] = worker[v],
         \A r \in Runs : r # RunOf(w) => run'[r].status = run[r].status,
         \/ step'[worker[w].row] = Row(w)
         \/ /\ step'[worker[w].row].status \in {"completed", "failed"}
            /\ step'[worker[w].row].decision = Row(w).decision
         \/ /\ step'[worker[w].row].decision = "none"
            /\ worker[w].row \notin granted,
         IsBusy(w)' => Sound(w)'
  PROVE  SettleInv'
<1>1. PICK x \in Rows : /\ x = worker[w].row /\ x[1] = RunOf(w) /\ step[x] = Row(w)
                        /\ IsBusy(w) /\ Settled(x)
                        /\ Row(w).decision # "rejected"
  BY BusyHasRun DEF Holding, Row, SettleInv, Sound
<1>2. step'[x].type = step[x].type /\ step'[x].tool = step[x].tool
  BY DEF RowsStay
<1>3. Settled(x)'
  BY <1>1, <1>2 DEF Settled
<1>4. \A y \in Rows : \/ Settled(y)'
                      \/ step'[y] = step[y] /\ (y \in granted' => y \in granted)
  BY <1>1, <1>3
<1>5. ASSUME NEW v \in Workers, v # w, IsBusy(v)'  PROVE Undisturbed(v)
  <2>1. worker'[v] = worker[v] /\ IsBusy(v) /\ worker[v].row \in Rows
        /\ worker[v].row[1] = RunOf(v) /\ RunOf(v) \in Runs
    BY <1>5, BusyHasRun DEF IsBusy
  <2>2. Holding(v) => RunOf(v) # RunOf(w)
    BY <1>5 DEF OrderInv, OneHolder
  <2>3. CASE worker[v].row # x
    <3>1. step'[worker[v].row] = Row(v)
      BY <1>1, <2>1, <2>3 DEF Row
    <3> QED  BY <2>1, <2>2, <3>1 DEF Undisturbed
  <2>4. CASE worker[v].row = x
    <3>1. ~Holding(v) /\ Row(v) = step[x]
      BY <1>1, <2>1, <2>2, <2>4 DEF Row
    <3>2. x \in granted
      BY <1>1, <1>5, <2>1, <2>4 DEF OrderInv, Shared
    <3>3. step[x].type = "tool_call"
      BY <1>1, <3>2, NoneAssumption, ToolsAssumption DEF Settled, TablesInv, RowShape
    <3>4. Undisturbed(v) \/ step'[x].status = "completed"
      BY <1>1, <1>2, <2>1, <2>4, <3>1, <3>2 DEF Undisturbed, Settled
    <3> QED  BY <1>2, <2>1, <2>4, <3>1, <3>3, <3>4 DEF Undisturbed
  <2> QED  BY <2>3, <2>4
<1>6. ASSUME NEW u \in Users, request[u].pc \in {"approve", "reject"}
      PROVE  step'[request[u].row] = step[request[u].row]
  BY <1>6, HolderAlone DEF Deciding
<1>7. \A v \in Workers : IsBusy(v)' => Sound(v)' \/ Undisturbed(v)
  BY <1>5
<1>8. \A u \in Users : request'[u].pc \in {"approve", "reject"} =>
           \/ Undecided(u)'
           \/ /\ request'[u] = request[u]
              /\ step'[request[u].row].decision = step[request[u].row].decision
              /\ request[u].row \in granted' => request[u].row \in granted
  BY <1>6
<1> QED  BY <1>4, <1>7, <1>8, SettleFrame

\* A session that reads, decides or runs a tool, and leaves the rows as they are.
LEMMA SessionSettle ==
  ASSUME TypeOK, TablesInv, OrderInv, SettleInv, NEW w \in Workers,
         \/ Load(w) \/ StartRun(w) \/ ThinkError(w) \/ ToolError(w) \/ Execute(w)
  PROVE  SettleInv'
<1>1. /\ Holding(w) /\ IsBusy(w) /\ worker[w].pc # "create"
      /\ UNCHANGED <<step, request, granted>>
  BY DEF Load, StartRun, ThinkError, ToolError, Execute, Executing, Holding, IsBusy,
         Busy
<1>2. PICK x \in Rows : /\ x = worker[w].row /\ step[x] = Row(w) /\ RunOf(w) \in Runs
                        /\ worker[w] \in WorkerState /\ run[RunOf(w)] \in RunType
                        /\ RunOf(w) = x[1]
  BY <1>1, BusyHasRun DEF Row
<1>3. /\ Sound(w) /\ Settled(x) /\ step[x].status \in {"running", "failed"}
      /\ ~Sums(x)
  BY <1>1, <1>2 DEF SettleInv, OrderInv, Owns, Advanced, Sums
<1>4. \A v \in Workers : v # w => worker'[v] = worker[v]
  BY AstrayEffect DEF Load, StartRun, ThinkError, ToolError, Execute, Abort, TypeOK
<1>5. \A r \in Runs : r # RunOf(w) => run'[r].status = run[r].status
  BY <1>2 DEF Load, StartRun, ThinkError, ToolError, Execute, TypeOK
<1>6. ~Sums(x)' /\ step'[x] = step[x]
  BY <1>1, <1>3 DEF Sums
<1>7. ASSUME IsBusy(w)'  PROVE Sound(w)'
  <2>1. ~Abort(w)
    BY <1>7 DEF Abort, IdleWorker, IsBusy, Busy, TypeOK
  <2>2. CASE worker'[w].pc = "failing" /\ worker'[w].row = x
             /\ worker'[w].decision # "rejected"
    BY <1>2, <1>3, <1>6, <2>2 DEF Sound, Holding, Row
  <2>3. CASE Astray(w)
    BY <1>2, <2>2, <2>3, AstrayEffect
  <2>4. CASE Load(w)
    <3>1. PICK pc \in {"failing", "starting", "executing"} :
            worker' = [worker EXCEPT ![w] =
              [Remember(w, pc) EXCEPT !.decision = step[x].decision]]
      BY <1>2, <2>1, <2>4 DEF Load
    <3>2. /\ worker'[w].pc = pc /\ worker'[w].row = x
          /\ worker'[w].decision = step[x].decision
          /\ worker'[w].status = run'[RunOf(w)].status
      BY <1>2, <3>1 DEF Remember, WorkerState, TypeOK
    <3>3. UNCHANGED run
      BY <2>4 DEF Load
    <3>4. /\ step[x].decision # "rejected"
          /\ run[RunOf(w)].status \notin {"paused", "completed"}
          /\ x \in granted => step[x].decision = "approved"
      BY <1>1, <1>2, <1>3 DEF Sound, Settled
    <3>5. /\ RunOf(w)' = RunOf(w) /\ Row(w)' = step[x]
          /\ worker'[w].pc \in {"failing", "starting", "executing"}
      BY <1>2, <1>6, <3>2 DEF RunOf, Row
    <3> QED  BY <1>1, <1>3, <1>6, <3>2, <3>3, <3>4, <3>5 DEF Sound
  <2>5. CASE StartRun(w) /\ ~Astray(w)
    <3>1. worker' = [worker EXCEPT ![w] = Remember(w, "executing")]
          /\ run' = [run EXCEPT ![RunOf(w)].status = "running"]
          /\ worker[w].pc = "starting"
      BY <2>1, <2>5 DEF StartRun
    <3>2. /\ worker'[w].pc = "executing" /\ worker'[w].row = x
          /\ worker'[w].decision = worker[w].decision
          /\ worker'[w].status = run'[RunOf(w)].status
          /\ run'[RunOf(w)].status = "running"
      BY <1>2, <3>1 DEF Remember, WorkerState, TypeOK, RunType
    <3>3. /\ RunOf(w)' = RunOf(w) /\ Row(w)' = step[x]
      BY <1>2, <1>6, <3>2 DEF RunOf, Row
    <3> QED  BY <1>1, <1>2, <1>3, <3>1, <3>2, <3>3 DEF Sound
  <2>6. CASE ThinkError(w) \/ ToolError(w) \/ Execute(w)
    <3>1. PICK pc : /\ worker' = [worker EXCEPT ![w] =
                                    [worker[w] EXCEPT !.pc = pc, !.prior = {}]]
                    /\ \/ pc = "failing"
                       \/ Execute(w) /\ pc \in {"ran", "invalid"}
      BY <2>6 DEF ThinkError, ToolError, Execute, TypeOK
    <3>2. /\ worker'[w].pc = pc /\ worker'[w].row = x
          /\ worker'[w].decision = worker[w].decision
      BY <1>2, <3>1 DEF WorkerState, TypeOK
    <3>3. /\ RunOf(w)' = RunOf(w) /\ Row(w)' = step[x] /\ UNCHANGED run
      BY <1>2, <1>6, <2>6, <3>2 DEF RunOf, Row, ThinkError, ToolError, Execute
    <3>4. Execute(w) => step[x].type # "summary"
      BY <1>2 DEF Execute, Executing
    <3> QED  BY <1>1, <1>2, <1>3, <2>2, <3>1, <3>2, <3>3, <3>4 DEF Sound
  <2> QED  BY <2>3, <2>4, <2>5, <2>6
<1>8. \A y \in Rows : step'[y] = step[y]
  BY <1>1
<1> QED  BY <1>1, <1>2, <1>4, <1>5, <1>6, <1>7, <1>8, SameTable, OwnSettle

\* A step is completed: the worker creates the next one, or fails.
LEMMA CompleteSettle ==
  ASSUME TypeOK, TablesInv, OrderInv, SettleInv, NEW w \in Workers,
         \/ Think(w) \/ ThinkAstray(w) \/ ToolRan(w) \/ ToolInvalid(w)
  PROVE  SettleInv'
<1>1. /\ Holding(w) /\ IsBusy(w) /\ UNCHANGED <<request, granted>>
  BY DEF Think, ThinkAstray, ToolRan, ToolInvalid, Executing, Holding, IsBusy, Busy
<1>2. /\ \E n, m : Complete(w, n, m)
      /\ \/ \E next : GoCreate(w, next)
         \/ Astray(w)
  BY DEF Think, ThinkAstray, ToolRan, ToolInvalid
<1>3. /\ worker'[w].pc \in {"create", "failing"}
      /\ worker'[w].row = worker[w].row /\ worker'[w].decision = "none"
      /\ \A v \in Workers : v # w => worker'[v] = worker[v]
  BY <1>2, AstrayEffect DEF GoCreate, Goto, IdleWorker, TypeOK
<1>4. RowsStay
  BY ThinkStays, AfterToolStays DEF Stays
<1>5. /\ step'[worker[w].row].status = "completed"
      /\ step'[worker[w].row].type = Row(w).type
      /\ step'[worker[w].row].decision = Row(w).decision
      /\ \A y \in Rows : y # worker[w].row => step'[y] = step[y]
      /\ \A r \in Runs : r # RunOf(w) => run'[r] = run[r]
      /\ run'[RunOf(w)].status = run[RunOf(w)].status
  BY <1>1, <1>2, CompleteEffect
<1>6. Sound(w) /\ Row(w).type # "summary"
  BY <1>1 DEF SettleInv, Sound, Think, ThinkAstray, ToolRan, ToolInvalid, Executing
<1>7. RunOf(w)' = RunOf(w) /\ Row(w)' = step'[worker[w].row]
  BY <1>3 DEF RunOf, Row
<1>8. Sums(worker[w].row)' => step'[worker[w].row].type = "summary"
  BY <1>3 DEF Sums
<1>9. Sound(w)'
  BY <1>1, <1>3, <1>5, <1>6, <1>7, <1>8 DEF Sound
<1> QED  BY <1>1, <1>3, <1>4, <1>5, <1>9, OwnSettle

\* A worker asks the user, which it does of no approved step, or sums up.
LEMMA EndSettle ==
  ASSUME TypeOK, TablesInv, OrderInv, SettleInv, NEW w \in Workers,
         AskApproval(w) \/ Summarize(w)
  PROVE  SettleInv'
<1>1. /\ Holding(w) /\ IsBusy(w) /\ UNCHANGED <<request, granted>>
      /\ worker[w].pc = "executing"
  BY DEF AskApproval, Summarize, Executing, Holding, IsBusy, Busy
<1>2. /\ worker[w].row \in Rows /\ RunOf(w) \in Runs /\ worker[w] \in WorkerState
      /\ Row(w) = step[worker[w].row] /\ Row(w) \in StepType
      /\ run[RunOf(w)] \in RunType
  BY <1>1, BusyHasRun DEF Row, TypeOK
<1>3. /\ Sound(w) /\ worker[w].status \notin {"paused", "completed"}
      /\ worker[w].row \in granted => worker[w].decision = "approved"
  BY <1>1 DEF SettleInv, Sound
<1>4. RowsStay
  BY ToolCallStays, AfterToolStays DEF Stays
<1>5. Abort(w) \/ Astray(w)
  BY DEF AskApproval, Summarize
<1>6. \A v \in Workers : v # w => worker'[v] = worker[v]
  BY <1>5, AstrayEffect DEF Abort, TypeOK
<1>7. \A r \in Runs : r # RunOf(w) => run'[r].status = run[r].status
  BY <1>2 DEF AskApproval, Summarize, TypeOK
<1>8. ASSUME IsBusy(w)', run'[RunOf(w)].status # "failed"  PROVE Sound(w)'
  <2>1. Astray(w)
    BY <1>5, <1>8 DEF Abort, IdleWorker, IsBusy, Busy, TypeOK
  <2> QED  BY <1>8, <2>1, AstrayEffect DEF Sound, Holding
<1>9. CASE Summarize(w)
  <2>1. /\ step'[worker[w].row].status = "completed"
        /\ step'[worker[w].row].decision = Row(w).decision
        /\ \A y \in Rows : y # worker[w].row => step'[y] = step[y]
    BY <1>2, <1>9, StatusEffect DEF Summarize
  <2>2. run'[RunOf(w)].status = "completed"
    BY <1>2, <1>3, <1>9 DEF Summarize, Written, TypeOK, RunType
  <2> QED  BY <1>1, <1>4, <1>6, <1>7, <1>8, <2>1, <2>2, OwnSettle
<1>10. CASE AskApproval(w)
  <2> DEFINE v == [step[worker[w].row] EXCEPT !.status = "waiting_approval",
                     !.worker = None, !.stale = FALSE, !.decision = "none"]
  <2>1. worker[w].row \notin granted
    BY <1>3, <1>10 DEF AskApproval, Unapproved
  <2>2. v.decision = "none"
    BY <1>2 DEF StepType
  <2>3. \/ step' = step /\ run' = run /\ Abort(w)
        \/ /\ step' = step \/ step' = [step EXCEPT ![worker[w].row] = v]
           /\ run' = [run EXCEPT ![RunOf(w)].status =
                        Written(worker[w].status, "paused", @)]
    BY <1>10 DEF AskApproval
  <2> HIDE DEF v
  <2>4. /\ \A y \in Rows : y # worker[w].row => step'[y] = step[y]
        /\ \/ step'[worker[w].row] = Row(w)
           \/ step'[worker[w].row].decision = "none"
    BY <1>2, <2>2, <2>3 DEF TypeOK
  <2>5. Abort(w) \/ run'[RunOf(w)].status = "paused"
    BY <1>2, <1>3, <2>3 DEF Written, TypeOK, RunType
  <2>6. Abort(w) => ~IsBusy(w)'
    BY DEF Abort, IdleWorker, IsBusy, Busy, TypeOK
  <2>7. IsBusy(w)' => Sound(w)'
    BY <1>8, <2>5, <2>6
  <2> QED  BY <1>1, <1>4, <1>6, <1>7, <2>1, <2>4, <2>7, OwnSettle
<1> QED  BY <1>9, <1>10

LEMMA FailSettle ==
  ASSUME TypeOK, TablesInv, OrderInv, SettleInv, NEW w \in Workers, Fail(w)
  PROVE  SettleInv'
<1>1. PICK x \in Rows : x = worker[w].row /\ x[1] = RunOf(w) /\ Exists(x)
  BY BusyHasRun DEF Fail, IsBusy, Busy
<1>2. /\ step'[x].status = "failed" /\ step'[x].decision = step[x].decision
      /\ step'[x].type = step[x].type /\ step'[x].tool = step[x].tool
      /\ \A y \in Rows : y # x => step'[y] = step[y]
  BY <1>1, StatusEffect DEF Fail
<1>3. /\ \A r \in Runs : run'[r].status \in {run[r].status, "failed"}
      /\ UNCHANGED <<request, granted>>
  BY <1>1 DEF Fail, Written, TypeOK, RunType
<1>4. \A y \in Rows : \/ Settled(y)'
                      \/ step'[y] = step[y] /\ (y \in granted' => y \in granted)
  <2>1. Settled(x)'
    BY <1>1, <1>2, <1>3 DEF SettleInv, Settled
  <2> QED  BY <1>2, <1>3, <2>1
<1>5. ASSUME NEW v \in Workers, IsBusy(v)'  PROVE Undisturbed(v)
  <2>1. IsBusy(v) /\ worker'[v] = worker[v] /\ worker[v].row \in Rows
        /\ RunOf(v) \in Runs
    BY <1>5, BusyHasRun DEF Fail, Abort, IdleWorker, IsBusy, Busy, TypeOK
  <2>2. /\ step'[worker[v].row].type = Row(v).type
        /\ step'[worker[v].row].decision = Row(v).decision
        /\ step'[worker[v].row].status \in {Row(v).status, "failed"}
    BY <1>2, <2>1 DEF Row
  <2>3. run'[RunOf(v)].status \in {run[RunOf(v)].status, "failed"}
    BY <1>3, <2>1
  <2> QED  BY <1>3, <2>1, <2>2, <2>3 DEF Undisturbed
<1>6. \A u \in Users : request[u].pc \in {"approve", "reject"} =>
        step'[request[u].row].decision = step[request[u].row].decision
  <2>1. \A u \in Users : request[u].pc \in {"approve", "reject"} => request[u].row \in Rows
    BY DEF TypeOK, RequestType
  <2> QED  BY <1>2, <2>1
<1> QED  BY <1>3, <1>4, <1>5, <1>6, SettleFrame

\* A row is inserted, which no decision has been about.
LEMMA InsertSettle ==
  ASSUME TypeOK, TablesInv, OrderInv, SettleInv, NEW x \in Rows, ~Exists(x), NEW row,
         step' = [step EXCEPT ![x] = row], UNCHANGED <<run, granted>>,
         row.decision = "none",
         \A v \in Workers : IsBusy(v)' =>
           Sound(v)' \/ (IsBusy(v) /\ worker'[v] = worker[v]),
         \A u \in Users : request'[u].pc \in {"approve", "reject"} =>
           request'[u] = request[u]
  PROVE  SettleInv'
<1>1. step'[x] = row /\ \A y \in Rows : y # x => step'[y] = step[y]
  BY DEF TypeOK
<1>2. Settled(x)'
  BY <1>1 DEF SettleInv, Settled, Exists
<1>3. ASSUME NEW v \in Workers, IsBusy(v), worker'[v] = worker[v]
      PROVE  Undisturbed(v)
  <2>1. worker[v].row \in Rows /\ step'[worker[v].row] = Row(v)
    BY <1>1, <1>3, BusyHasRun DEF Row
  <2> QED  BY <1>3, <2>1 DEF Undisturbed
<1>4. \A u \in Users : request'[u].pc \in {"approve", "reject"} =>
        /\ request'[u] = request[u]
        /\ step'[request[u].row] = step[request[u].row]
  BY <1>1 DEF TablesInv, SessionsHaveRows, TypeOK, RequestType
<1>5. \A y \in Rows : \/ Settled(y)'
                      \/ step'[y] = step[y] /\ (y \in granted' => y \in granted)
  BY <1>1, <1>2
<1>6. \A v \in Workers : IsBusy(v)' => Sound(v)' \/ Undisturbed(v)
  BY <1>3
<1>7. \A u \in Users : request'[u].pc \in {"approve", "reject"} =>
           \/ Undecided(u)'
           \/ /\ request'[u] = request[u]
              /\ step'[request[u].row].decision = step[request[u].row].decision
              /\ request[u].row \in granted' => request[u].row \in granted
  BY <1>4
<1> QED  BY <1>5, <1>6, <1>7, SettleFrame

LEMMA CreateSettle ==
  ASSUME TypeOK, TablesInv, OrderInv, SettleInv, NEW w \in Workers, Create(w)
  PROVE  SettleInv'
<1>1. /\ Holding(w) /\ IsBusy(w) /\ worker[w].pc = "create"
      /\ UNCHANGED <<run, request, granted>>
  BY DEF Create, Holding, IsBusy, Busy
<1>2. /\ worker[w] \in WorkerState /\ worker[w].row \in Rows
      /\ Exists(worker[w].row)
      /\ Row(w) = step[worker[w].row]
  BY <1>1, BusyHasRun DEF Row
<1>3. Sound(w) /\ Row(w).type # "summary" /\ Row(w).status \in {"completed", "failed"}
  BY <1>1 DEF SettleInv, Sound, OrderInv, Owns, Advanced
<1>4. CASE Exists(<<RunOf(w), worker[w].number>>)
  <2>1. UNCHANGED step /\ Abort(w)
    BY <1>4 DEF Create
  <2>2. /\ ~IsBusy(w)' /\ \A v \in Workers : v # w => worker'[v] = worker[v]
    BY <2>1 DEF Abort, IdleWorker, IsBusy, Busy, TypeOK
  <2>3. \A y \in Rows : step'[y] = step[y]
    BY <2>1
  <2> QED  BY <1>1, <1>2, <2>1, <2>2, <2>3, SameTable, OwnSettle
<1>5. CASE ~Exists(<<RunOf(w), worker[w].number>>)
  <2>0. PICK x \in Rows : \E row :
          /\ ~Exists(x) /\ step' = [step EXCEPT ![x] = row] /\ row.decision = "none"
    BY <1>5, CreateEffect
  <2>1. PICK row :
          /\ ~Exists(x) /\ step' = [step EXCEPT ![x] = row] /\ row.decision = "none"
    BY <2>0
  <2>2. step'[worker[w].row] = Row(w)
    BY <1>2, <2>1 DEF TypeOK
  <2>3. \/ worker' = [worker EXCEPT ![w] = IdleWorker]
        \/ worker' = [worker EXCEPT ![w] =
             [worker[w] EXCEPT !.next = "think", !.number = worker[w].number + 1]]
        \/ Astray(w)
    BY <1>5 DEF Create
  <2>4. \A v \in Workers : v # w => worker'[v] = worker[v]
    BY <2>3, AstrayEffect DEF TypeOK
  <2>5. ASSUME IsBusy(w)'  PROVE Sound(w)'
    <3>1. CASE worker' = [worker EXCEPT ![w] = IdleWorker]
      BY <2>5, <3>1 DEF IdleWorker, TypeOK, IsBusy, Busy
    <3>2. CASE Astray(w)
      <4>1. /\ worker'[w].pc = "failing" /\ worker'[w].row = worker[w].row
            /\ worker'[w].decision = "none"
        BY <3>2, AstrayEffect
      <4>2. /\ Row(w)' = Row(w)
            /\ Sums(worker[w].row)' => step'[worker[w].row].type = "summary"
        BY <2>2, <4>1 DEF Row, Sums
      <4> QED  BY <1>3, <2>2, <4>1, <4>2 DEF Sound, Holding
    <3>3. CASE worker' = [worker EXCEPT ![w] =
                 [worker[w] EXCEPT !.next = "think", !.number = worker[w].number + 1]]
      <4>1. /\ worker'[w].pc = "create" /\ worker'[w].row = worker[w].row
            /\ worker'[w].decision = worker[w].decision
        BY <1>1, <1>2, <3>3 DEF TypeOK, WorkerState
      <4>2. Row(w)' = Row(w) /\ RunOf(w)' = RunOf(w)
        BY <2>2, <4>1 DEF Row, RunOf
      <4> QED  BY <1>1, <1>3, <4>1, <4>2 DEF Sound
    <3> QED  BY <2>3, <3>1, <3>2, <3>3
  <2>6. \A v \in Workers : IsBusy(v)' =>
          Sound(v)' \/ (IsBusy(v) /\ worker'[v] = worker[v])
    BY <2>4, <2>5 DEF IsBusy
  <2> QED  BY <1>1, <2>1, <2>6, InsertSettle
<1> QED  BY <1>4, <1>5

LEMMA ClaimSettle ==
  ASSUME TypeOK, TablesInv, OrderInv, OrderInv', SettleInv, NEW w \in Workers, Claim(w)
  PROVE  SettleInv'
<1>1. PICK x \in NextClaims :
        /\ step' = [step EXCEPT ![x].status = "running", ![x].worker = w,
                                ![x].stale = FALSE]
        /\ worker' = [worker EXCEPT ![w] =
                        [IdleWorker EXCEPT !.pc = "claimed", !.row = x]]
  BY DEF Claim
<1>2. /\ x \in Rows /\ step[x].status \in {"pending", "approved", "running"}
      /\ run[x[1]].status \in {"pending", "running"}
  BY DEF NextClaims, Claimable, Abandoned, ClaimableStatuses, Runnable,
         RunnableStatuses
<1>3. /\ step'[x].status = "running" /\ step'[x].decision = step[x].decision
      /\ step'[x].type = step[x].type /\ step'[x].tool = step[x].tool
      /\ \A y \in Rows : y # x => step'[y] = step[y]
      /\ worker'[w].pc = "claimed" /\ worker'[w].row = x
      /\ worker'[w].decision = "none"
      /\ \A v \in Workers : v # w => worker'[v] = worker[v]
  BY <1>1, <1>2 DEF TypeOK, StepType, IdleWorker
<1>4. UNCHANGED <<run, request, granted>>
  BY DEF Claim
<1>5. step[x].decision # "rejected" /\ Settled(x)'
  BY <1>2, <1>3, <1>4 DEF SettleInv, Settled
<1>6. Sound(w)'
  BY <1>2, <1>3, <1>4, <1>5 DEF Sound, Holding, RunOf, Row
<1>7. ASSUME NEW v \in Workers, v # w, IsBusy(v)'  PROVE Undisturbed(v)
  <2>1. IsBusy(v) /\ worker'[v] = worker[v] /\ worker[v].row \in Rows
    BY <1>3, <1>7, BusyHasRun DEF IsBusy
  <2>2. /\ step'[worker[v].row].type = Row(v).type
        /\ step'[worker[v].row].decision = Row(v).decision
        /\ step'[worker[v].row].status \in {Row(v).status, "running"}
    BY <1>3, <2>1 DEF Row
  <2> QED  BY <1>4, <2>1, <2>2 DEF Undisturbed
<1>8. \A u \in Users : request[u].pc \in {"approve", "reject"} =>
        step'[request[u].row].decision = step[request[u].row].decision
  <2>1. \A u \in Users : request[u].pc \in {"approve", "reject"} => request[u].row \in Rows
    BY DEF TypeOK, RequestType
  <2> QED  BY <1>3, <2>1
<1>9. \A v \in Workers : IsBusy(v)' => Sound(v)' \/ Undisturbed(v)
  BY <1>6, <1>7
<1>10. \A y \in Rows : \/ Settled(y)'
                       \/ step'[y] = step[y] /\ (y \in granted' => y \in granted)
  BY <1>3, <1>4, <1>5
<1> QED  BY <1>4, <1>8, <1>9, <1>10, SettleFrame

\* Crashes, recovery and time decide nothing.
LEMMA RecoverySettle ==
  ASSUME TypeOK, TablesInv, OrderInv, SettleInv,
         \/ \E w \in Workers : Crash(w) \/ Restart(w)
         \/ \E x \in Rows : Expire(x)
  PROVE  SettleInv'
<1>1. \A v \in Workers : IsBusy(v)' => IsBusy(v) /\ worker'[v] = worker[v]
  <2>1. CASE \E w \in Workers : Crash(w) \/ Restart(w)
    <3>1. PICK w \in Workers, pc \in {"idle", "down", "booting"} :
            worker' = [worker EXCEPT ![w] = [IdleWorker EXCEPT !.pc = pc]]
      <4>1. IdleWorker = [IdleWorker EXCEPT !.pc = "idle"]
        BY DEF IdleWorker
      <4> QED  BY <2>1, <4>1 DEF Crash, Restart, RecoverClaims, RecoverRuns
    <3> QED  BY <3>1 DEF IdleWorker, TypeOK, IsBusy, Busy
  <2>2. CASE \E x \in Rows : Expire(x)
    BY <2>2 DEF Expire, IsBusy
  <2> QED  BY <2>1, <2>2
<1>2. UNCHANGED <<request, granted>>
  BY DEF Crash, Restart, RecoverClaims, RecoverRuns, Expire
<1>3. \A y \in Rows :
        /\ step'[y].decision = step[y].decision /\ step'[y].type = step[y].type
        /\ step'[y].tool = step[y].tool
        /\ \/ step'[y].status = step[y].status
           \/ step[y].status = "running" /\ step'[y].status = "pending"
  <2>1. CASE UNCHANGED step
    BY <2>1
  <2>2. CASE \E w \in Workers : RecoverClaims(w)
    <3>1. SUFFICES ASSUME NEW y \in Rows
                   PROVE  /\ step'[y].decision = step[y].decision
                          /\ step'[y].type = step[y].type /\ step'[y].tool = step[y].tool
                          /\ \/ step'[y].status = step[y].status
                             \/ step[y].status = "running" /\ step'[y].status = "pending"
      OBVIOUS
    <3>2. step'[y] = IF step[y].status = "running" /\ step[y].stale
                     THEN [step[y] EXCEPT !.status = "pending", !.worker = None,
                                          !.stale = FALSE]
                     ELSE step[y]
      BY <2>2 DEF RecoverClaims
    <3>3. step[y] \in StepType
      BY DEF TypeOK
    <3> QED  BY <3>2, <3>3 DEF StepType
  <2>3. CASE \E x \in Rows : Expire(x)
    BY <2>3 DEF Expire, TypeOK, StepType
  <2> QED  BY <2>1, <2>2, <2>3 DEF Crash, Restart, RecoverRuns
<1>4. \A r \in Runs : run'[r].status \in {run[r].status, "failed"}
  <2>1. CASE \E w \in Workers : RecoverRuns(w)
    BY <2>1 DEF RecoverRuns, TypeOK, RunType
  <2> QED  BY <2>1 DEF Crash, Restart, RecoverClaims, Expire
<1>5. \A y \in Rows : Settled(y)'
  BY <1>2, <1>3 DEF SettleInv, Settled
<1>6. ASSUME NEW v \in Workers, IsBusy(v)'  PROVE Undisturbed(v)
  <2>1. IsBusy(v) /\ worker'[v] = worker[v] /\ worker[v].row \in Rows
        /\ RunOf(v) \in Runs
    BY <1>1, <1>6, BusyHasRun
  <2> QED  BY <1>2, <1>3, <1>4, <2>1 DEF Undisturbed, Row
<1>7. \A u \in Users : request[u].pc \in {"approve", "reject"} =>
        step'[request[u].row].decision = step[request[u].row].decision
  <2>1. \A u \in Users : request[u].pc \in {"approve", "reject"} => request[u].row \in Rows
    BY DEF TypeOK, RequestType
  <2> QED  BY <1>3, <2>1
<1> QED  BY <1>2, <1>5, <1>6, <1>7, SettleFrame

\* Requests.
LEMMA RequestSettle ==
  ASSUME TypeOK, TypeOK', TablesInv, OrderInv, SettleInv, NEW u \in Users,
         \A v \in Users : v = u, Ask(u) \/ Proceed(u) \/ RequestDies(u)
  PROVE  SettleInv'
<1>1. UNCHANGED worker
  BY DEF Ask, BeginStart, BeginRetry, BeginCancel, BeginDecision, Proceed,
         CreateRun, SeedThink, CommitCancel, CommitApproval, CommitRejection,
         CommitRunStatus, RequestDies
<1>2. CASE SeedThink(u)
  <2> DEFINE row == NewRow("think", "pending", None)
  <2>1. PICK x \in Rows : ~Exists(x) /\ step' = [step EXCEPT ![x] = row]
    BY <1>2, SeedInserts
  <2>2. row.decision = "none" /\ UNCHANGED <<run, granted>>
    BY <1>2 DEF NewRow, NoRow, SeedThink
  <2>3. request'[u].pc = "idle"
    BY <1>2 DEF SeedThink, Done, IdleRequest, TypeOK
  <2> HIDE DEF row
  <2>4. \A v \in Workers : IsBusy(v)' => IsBusy(v) /\ worker'[v] = worker[v]
    BY <1>1 DEF IsBusy
  <2> QED  BY <2>1, <2>2, <2>3, <2>4, InsertSettle
<1>3. CASE CommitApproval(u) \/ CommitRejection(u)
  <2>0. request[u].pc \in Deciding /\ Fresh(u) /\ Undecided(u)
        /\ request[u].pc \in {"approve", "reject"}
    BY <1>3 DEF CommitApproval, CommitRejection, OrderInv, DecisionsAreFresh, Deciding,
                SettleInv
  <2>1. PICK x \in Rows : /\ x = request[u].row /\ x[1] = request[u].run
                          /\ step[x] \in StepType /\ step[x].tool \in GatedTools
    BY <2>0 DEF Fresh, TypeOK, TablesInv, SessionsHaveRows
  <2>2. PICK status \in {"approved", "rejected"} :
          /\ step' = [step EXCEPT ![x] = [step[x] EXCEPT !.status = status,
                                            !.decision = status, !.stale = FALSE]]
          /\ granted' = IF status = "approved" THEN granted \cup {x} ELSE granted
          /\ UNCHANGED run
    BY <1>3, <2>1 DEF CommitApproval, CommitRejection
  <2>3. /\ \A y \in Rows : y # x => step'[y] = step[y]
        /\ step'[x].status = status /\ step'[x].decision = status
        /\ step'[x].type = step[x].type /\ step'[x].tool = step[x].tool
    BY <2>1, <2>2 DEF TypeOK, StepType
  <2>4. Settled(x)'
    BY <2>0, <2>1, <2>2, <2>3 DEF Settled, Undecided
  <2>5. ASSUME NEW v \in Workers, IsBusy(v)'  PROVE Undisturbed(v)
    <3>1. IsBusy(v) /\ worker'[v] = worker[v] /\ worker[v].row \in Rows
          /\ worker[v].row[1] = RunOf(v)
      BY <1>1, <2>5, BusyHasRun DEF IsBusy
    <3>2. Holding(v) => worker[v].row # x
      BY <2>0, <2>1, <3>1 DEF Fresh
    <3>3. /\ step'[worker[v].row].type = Row(v).type
          /\ step'[worker[v].row].status \in {Row(v).status, "approved", "rejected"}
          /\ worker[v].row # x => step'[worker[v].row] = Row(v)
      BY <2>3, <3>1 DEF Row
    <3> QED  BY <2>2, <3>1, <3>2, <3>3 DEF Undisturbed
  <2>6. request'[u].pc \notin {"approve", "reject"}
    BY <1>3 DEF CommitApproval, CommitRejection, Done, IdleRequest, TypeOK, RequestType,
                RequestState
  <2>7. \A y \in Rows : \/ Settled(y)'
                        \/ step'[y] = step[y] /\ (y \in granted' => y \in granted)
    BY <2>2, <2>3, <2>4
  <2>8. \A v \in Users : request'[v].pc \notin {"approve", "reject"}
    BY <2>6
  <2> QED  BY <2>5, <2>7, <2>8, SettleFrame
<1>4. CASE ~SeedThink(u) /\ ~CommitApproval(u) /\ ~CommitRejection(u)
  <2>1. UNCHANGED <<step, granted>>
    BY <1>4 DEF Ask, BeginStart, BeginRetry, BeginCancel, BeginDecision, Proceed,
                CreateRun, CommitCancel, CommitRunStatus, RequestDies
  <2>2. ASSUME NEW v \in Workers, IsBusy(v)'  PROVE Undisturbed(v)
    <3>1. IsBusy(v) /\ worker'[v] = worker[v] /\ worker[v].row \in Rows
          /\ RunOf(v) \in Runs
      BY <1>1, <2>2, BusyHasRun DEF IsBusy
    <3>2. Holding(v) => \/ run'[RunOf(v)].status = run[RunOf(v)].status
                        \/ run'[RunOf(v)].status \notin {"paused", "completed"}
      <4>1. CASE CommitRunStatus(u)
        <5>1. request[u].pc = "pause" => Fresh(u)
          BY DEF OrderInv, DecisionsAreFresh, Deciding
        <5>2. Holding(v) /\ request[u].pc = "pause" => RunOf(v) # request[u].run
          BY <5>1 DEF Fresh
        <5>3. request[u].run \in Runs
          BY <4>1 DEF CommitRunStatus, TypeOK, RequestType
        <5> QED  BY <3>1, <4>1, <5>2, <5>3 DEF CommitRunStatus, TypeOK, RunType
      <4>2. CASE CreateRun(u) \/ CommitCancel(u)
        BY <3>1, <4>2 DEF CreateRun, CommitCancel, TypeOK, RunType
      <4>3. CASE Ask(u) \/ RequestDies(u)
        BY <4>3 DEF Ask, BeginStart, BeginRetry, BeginCancel, BeginDecision, RequestDies
      <4> QED  BY <1>4, <4>1, <4>2, <4>3 DEF Proceed
    <3> QED  BY <2>1, <3>1, <3>2 DEF Undisturbed, Row
  <2>3. request'[u].pc \in {"approve", "reject"} => Undecided(u)'
    <3>1. CASE \E verdict \in {"approve", "reject"} : BeginDecision(u, verdict)
      <4>1. PICK verdict \in {"approve", "reject"}, x \in Rows :
              /\ step[x].status = "waiting_approval"
              /\ request' = [request EXCEPT ![u] =
                   [pc |-> verdict, run |-> x[1], row |-> x,
                    status |-> run[x[1]].status]]
        BY <3>1 DEF BeginDecision
      <4>2. request'[u].row = x
        BY <4>1 DEF TypeOK
      <4> QED  BY <2>1, <4>1, <4>2 DEF SettleInv, Settled, Undecided
    <3>2. CASE ~\E verdict \in {"approve", "reject"} : BeginDecision(u, verdict)
      BY <1>4, <3>2 DEF Ask, BeginStart, BeginRetry, BeginCancel, Proceed, CreateRun,
                CommitCancel, CommitRunStatus, RequestDies, Done, IdleRequest, TypeOK,
                RequestType, RequestState
    <3> QED  BY <3>1, <3>2
  <2>4. \A v \in Users : request'[v].pc \in {"approve", "reject"} => Undecided(v)'
    BY <2>3
  <2> QED  BY <2>1, <2>2, <2>4, SettleFrame
<1> QED  BY <1>2, <1>3, <1>4

LEMMA StepSettle ==
  ASSUME OneUserInTime, TypeOK, TypeOK', TablesInv, OrderInv, OrderInv', SettleInv,
         [Next]_vars
  PROVE  SettleInv'
<1>1. ASSUME NEW w \in Workers, Claim(w) \/ Process(w)  PROVE SettleInv'
  BY <1>1, ClaimSettle, SessionSettle, CompleteSettle, EndSettle, FailSettle,
     CreateSettle DEF Process
<1>2. ASSUME NEW u \in Users, Ask(u) \/ Proceed(u) \/ RequestDies(u)
      PROVE  SettleInv'
  BY <1>2, RequestSettle DEF OneUserInTime
<1>3. CASE UNCHANGED vars
  <2>1. \A v \in Workers : IsBusy(v)' => Undisturbed(v)
    BY <1>3 DEF vars, Undisturbed, IsBusy, Row
  <2> QED  BY <1>3, <2>1, SettleFrame DEF vars
<1> QED  BY <1>1, <1>2, <1>3, RecoverySettle DEF Next

LEMMA SettleHolds ==
  ASSUME OneUserInTime
  PROVE  Spec => []SettleInv
<1>1. TypeOK /\ TypeOK' /\ TablesInv /\ OrderInv /\ OrderInv' /\ SettleInv /\ [Next]_vars
        => SettleInv'
  BY StepSettle
<1> QED  BY <1>1, InitSettle, TypeCorrect, TablesHold, OrderHolds, PTL DEF Spec
-----------------------------------------------------------------------------
(* What a paused and a completed run are backed by. *)

LEMMA InitHalt == Init => StatusesAreBacked
BY DEF Init, StatusesAreBacked, PausedIsAccountedFor, CompletedRunsAreSummarized, NoRun

\* Nothing that backs a status is lost while the run has it, and a run whose
\* status changes has what backs the new one.
LEMMA HaltFrame ==
  ASSUME TypeOK, StatusesAreBacked, crashes' = crashes,
         \A x \in Rows :
           /\ run'[x[1]].status = "paused" /\ Halts(x) => Halts(x)'
           /\ run'[x[1]].status = "completed" /\ Sums(x) => Sums(x)',
         \A u \in Users : request[u].pc = "resume" => request'[u] = request[u],
         \A r \in Runs : run'[r].status # run[r].status =>
           /\ run'[r].status = "paused" => \E x \in Rows : x[1] = r /\ Halts(x)'
           /\ run'[r].status = "completed" => \E x \in Rows : x[1] = r /\ Sums(x)'
  PROVE  StatusesAreBacked'
<1>1. \A r \in Runs, n \in Numbers : <<r, n>> \in Rows /\ <<r, n>>[1] = r
  BY DEF Rows
<1>2. ASSUME NEW r \in Runs, run'[r].status = "paused", crashes' = 0
      PROVE  \/ \E n \in Numbers : Halts(<<r, n>>)'
             \/ \E u \in Users : request'[u].pc = "resume" /\ request'[u].run = r
  <2>1. CASE run[r].status = "paused"
    <3>1. \/ \E n \in Numbers : Halts(<<r, n>>)
          \/ \E u \in Users : request[u].pc = "resume" /\ request[u].run = r
      BY <1>2, <2>1 DEF StatusesAreBacked, PausedIsAccountedFor, Halts
    <3>2. \A n \in Numbers : Halts(<<r, n>>) => Halts(<<r, n>>)'
      BY <1>1, <1>2
    <3> QED  BY <3>1, <3>2
  <2>2. CASE run[r].status # "paused"
    <3>1. PICK x \in Rows : x[1] = r /\ Halts(x)'
      BY <1>2, <2>2
    <3>2. x[2] \in Numbers /\ x = <<r, x[2]>>
      BY <3>1, RowIsPair
    <3> QED  BY <3>1, <3>2
  <2> QED  BY <2>1, <2>2
<1>3. ASSUME NEW r \in Runs, run'[r].status = "completed"
      PROVE  \E n \in Numbers : Sums(<<r, n>>)'
  <2>1. CASE run[r].status = "completed"
    <3>1. PICK n \in Numbers : Sums(<<r, n>>)
      BY <2>1 DEF StatusesAreBacked, CompletedRunsAreSummarized, Sums
    <3> QED  BY <1>1, <1>3, <3>1
  <2>2. CASE run[r].status # "completed"
    <3>1. PICK x \in Rows : x[1] = r /\ Sums(x)'
      BY <1>3, <2>2
    <3>2. x[2] \in Numbers /\ x = <<r, x[2]>>
      BY <3>1, RowIsPair
    <3> QED  BY <3>1, <3>2
  <2> QED  BY <2>1, <2>2
<1> QED  BY <1>2, <1>3
         DEF StatusesAreBacked, PausedIsAccountedFor, CompletedRunsAreSummarized,
             Halts, Sums

\* The step of a worker that goes on neither halts the run nor sums it up: the
\* worker may change it, its run and itself.
LEMMA OwnHalt ==
  ASSUME TypeOK, TablesInv, OrderInv, SettleInv, StatusesAreBacked,
         NEW w \in Workers, Holding(w), UNCHANGED <<request, crashes>>,
         NEW x \in Rows, x = worker[w].row,
         \A y \in Rows : y # x => step'[y] = step[y],
         \A r \in Runs : run'[r].status # run[r].status =>
           /\ r = RunOf(w)
           /\ run'[r].status = "paused" => Halts(x)'
           /\ run'[r].status = "completed" => Sums(x)'
  PROVE  StatusesAreBacked'
<1>1. x[1] = RunOf(w) /\ step[x] = Row(w) /\ IsBusy(w)
  BY BusyHasRun DEF Holding, Row
<1>2. ~Halts(x) /\ ~Sums(x)
  <2>1. Sound(w) /\ Advanced(w)
    BY <1>1 DEF SettleInv, OrderInv, Owns
  <2> QED  BY <1>1, <2>1 DEF Sound, Advanced, Halts, Sums
<1>3. ASSUME NEW y \in Rows
      PROVE  (Halts(y) => Halts(y)') /\ (Sums(y) => Sums(y)')
  <2>1. y # x => step'[y] = step[y]
    BY <1>1
  <2> QED  BY <1>2, <2>1 DEF Halts, Sums
<1>4. ASSUME NEW r \in Runs, run'[r].status # run[r].status
      PROVE  /\ run'[r].status = "paused" => \E y \in Rows : y[1] = r /\ Halts(y)'
             /\ run'[r].status = "completed" => \E y \in Rows : y[1] = r /\ Sums(y)'
  BY <1>1, <1>4
<1> QED  BY <1>3, <1>4, HaltFrame

\* A session that reads or decides, and leaves the rows as they are, or that
\* completes a step.
LEMMA SessionHalt ==
  ASSUME TypeOK, TablesInv, OrderInv, SettleInv, StatusesAreBacked,
         NEW w \in Workers,
         \/ Load(w) \/ StartRun(w) \/ ThinkError(w) \/ ToolError(w) \/ Execute(w)
  PROVE  StatusesAreBacked'
<1>1. Holding(w) /\ UNCHANGED <<step, request, crashes>>
  BY DEF Load, StartRun, ThinkError, ToolError, Execute, Executing, Holding, IsBusy,
         Busy
<1>2. \A y \in Rows : step'[y] = step[y]
  BY <1>1
<1>3. RunOf(w) \in Runs /\ worker[w].row \in Rows
  BY <1>1, BusyHasRun DEF Holding
<1>4. \A r \in Runs : run'[r].status # run[r].status =>
                        r = RunOf(w) /\ run'[r].status = "running"
  BY <1>3 DEF Load, StartRun, ThinkError, ToolError, Execute, TypeOK, RunType
<1> QED  BY <1>1, <1>2, <1>3, <1>4, OwnHalt

LEMMA CompleteHalt ==
  ASSUME TypeOK, TablesInv, OrderInv, SettleInv, StatusesAreBacked,
         NEW w \in Workers,
         \/ Think(w) \/ ThinkAstray(w) \/ ToolRan(w) \/ ToolInvalid(w)
  PROVE  StatusesAreBacked'
<1>1. /\ Holding(w) /\ IsBusy(w) /\ UNCHANGED <<request, crashes>>
      /\ \E n, m : Complete(w, n, m)
  BY DEF Think, ThinkAstray, ToolRan, ToolInvalid, Executing, Holding, IsBusy, Busy
<1>2. /\ \A y \in Rows : y # worker[w].row => step'[y] = step[y]
      /\ \A r \in Runs : r # RunOf(w) => run'[r] = run[r]
      /\ run'[RunOf(w)].status = run[RunOf(w)].status
  BY <1>1, CompleteEffect
<1>3. \A r \in Runs : run'[r].status = run[r].status
  BY <1>2
<1>4. worker[w].row \in Rows
  BY <1>1, BusyHasRun
<1> QED  BY <1>1, <1>2, <1>3, <1>4, OwnHalt

\* The run is paused with the question, and completed with the summary.
LEMMA EndHalt ==
  ASSUME TypeOK, TablesInv, OrderInv, SettleInv, StatusesAreBacked,
         NEW w \in Workers, AskApproval(w) \/ Summarize(w)
  PROVE  StatusesAreBacked'
<1>1. /\ Holding(w) /\ IsBusy(w) /\ UNCHANGED <<request, crashes>>
      /\ worker[w].pc = "executing"
  BY DEF AskApproval, Summarize, Executing, Holding, IsBusy, Busy
<1>2. PICK x \in Rows : /\ x = worker[w].row /\ RunOf(w) \in Runs /\ step[x] = Row(w)
                        /\ step[x] \in StepType /\ run[RunOf(w)] \in RunType
  BY <1>1, BusyHasRun DEF Row, TypeOK
<1>3. worker[w].status \notin {"paused", "completed"} /\ worker[w].decision # "rejected"
  BY <1>1 DEF SettleInv, Sound
<1>4. \A r \in Runs : r # RunOf(w) => run'[r].status = run[r].status
  BY <1>2 DEF AskApproval, Summarize, TypeOK
<1>5. CASE Summarize(w)
  <2>1. /\ step'[x].status = "completed" /\ step'[x].type = "summary"
        /\ \A y \in Rows : y # x => step'[y] = step[y]
    BY <1>2, <1>5, StatusEffect DEF Summarize, Executing
  <2>2. run'[RunOf(w)].status = "completed"
    BY <1>2, <1>3, <1>5 DEF Summarize, Written, TypeOK, RunType
  <2>3. Sums(x)'
    BY <2>1 DEF Sums
  <2> QED  BY <1>1, <1>2, <1>4, <2>1, <2>2, <2>3, OwnHalt
<1>6. CASE AskApproval(w)
  <2> DEFINE v == [step[x] EXCEPT !.status = "waiting_approval",
                     !.worker = None, !.stale = FALSE, !.decision = "none"]
  <2>1. \/ step' = step /\ run' = run
        \/ /\ step' = [step EXCEPT ![x] = v]
           /\ run' = [run EXCEPT ![RunOf(w)].status =
                        Written(worker[w].status, "paused", @)]
    BY <1>2, <1>3, <1>6 DEF AskApproval
  <2>2. v.status = "waiting_approval"
    BY <1>2 DEF StepType
  <2> HIDE DEF v
  <2>3. CASE step' = step /\ run' = run
    <3>1. \A y \in Rows : step'[y] = step[y]
      BY <2>3
    <3>2. \A r \in Runs : run'[r].status = run[r].status
      BY <2>3
    <3> QED  BY <1>1, <1>2, <3>1, <3>2, OwnHalt
  <2>4. CASE /\ step' = [step EXCEPT ![x] = v]
             /\ run' = [run EXCEPT ![RunOf(w)].status =
                          Written(worker[w].status, "paused", @)]
    <3>1. /\ step'[x].status = "waiting_approval"
          /\ \A y \in Rows : y # x => step'[y] = step[y]
      BY <1>2, <2>2, <2>4 DEF TypeOK
    <3>2. run'[RunOf(w)].status = "paused"
      BY <1>2, <1>3, <2>4 DEF Written, TypeOK, RunType
    <3>3. Halts(x)'
      BY <3>1 DEF Halts
    <3> QED  BY <1>1, <1>2, <1>4, <3>1, <3>2, <3>3, OwnHalt
  <2> QED  BY <2>1, <2>3, <2>4
<1> QED  BY <1>5, <1>6

\* The failed step halts the run no longer, nor does it sum it up: then the run
\* fails with it.
LEMMA FailHalt ==
  ASSUME TypeOK, TablesInv, OrderInv, SettleInv, StatusesAreBacked,
         NEW w \in Workers, Fail(w)
  PROVE  StatusesAreBacked'
<1>1. PICK x \in Rows : /\ x = worker[w].row /\ x[1] = RunOf(w) /\ step[x] = Row(w)
                        /\ IsBusy(w) /\ worker[w].pc = "failing" /\ x[1] \in Runs
                        /\ UNCHANGED <<request, crashes>>
  BY BusyHasRun DEF Fail, IsBusy, Busy, Row
<1>2. /\ step'[x].decision = step[x].decision
      /\ \A y \in Rows : y # x => step'[y] = step[y]
  BY <1>1, StatusEffect DEF Fail
<1>3. /\ \A r \in Runs : run'[r].status \in {run[r].status, "failed"}
      /\ worker[w].status # "failed" => run'[x[1]].status = "failed"
  BY <1>1 DEF Fail, Written, TypeOK, RunType
<1>4. \/ worker[w].status # "failed"
      \/ step[x].status # "waiting_approval" /\ ~Sums(x)
  BY <1>1 DEF SettleInv, Sound, Sums
<1>5. ASSUME NEW y \in Rows
      PROVE  /\ run'[y[1]].status = "paused" /\ Halts(y) => Halts(y)'
             /\ run'[y[1]].status = "completed" /\ Sums(y) => Sums(y)'
  <2>1. CASE y = x
    BY <1>2, <1>3, <1>4, <2>1 DEF Halts
  <2>2. CASE y # x
    BY <1>2, <2>2 DEF Halts, Sums
  <2> QED  BY <2>1, <2>2
<1> QED  BY <1>1, <1>3, <1>5, HaltFrame

\* Where there is no row nothing halts.
LEMMA InsertHalt ==
  ASSUME TypeOK, SettleInv, StatusesAreBacked, NEW x \in Rows, ~Exists(x), NEW row,
         step' = [step EXCEPT ![x] = row], UNCHANGED <<run, crashes>>,
         \A u \in Users : request[u].pc = "resume" => request'[u] = request[u]
  PROVE  StatusesAreBacked'
<1>1. ~Halts(x) /\ ~Sums(x)
  BY DEF SettleInv, Settled, Exists, Halts, Sums
<1>2. \A y \in Rows : y # x => step'[y] = step[y]
  BY DEF TypeOK
<1>3. \A y \in Rows : (Halts(y) => Halts(y)') /\ (Sums(y) => Sums(y)')
  BY <1>1, <1>2 DEF Halts, Sums
<1> QED  BY <1>3, HaltFrame

LEMMA CreateHalt ==
  ASSUME TypeOK, TablesInv, SettleInv, StatusesAreBacked, NEW w \in Workers, Create(w)
  PROVE  StatusesAreBacked'
<1>1. UNCHANGED <<run, request, crashes>>
  BY DEF Create
<1>2. CASE Exists(<<RunOf(w), worker[w].number>>)
  <2>1. UNCHANGED step
    BY <1>2 DEF Create
  <2> QED  BY <1>1, <2>1, HaltFrame DEF Halts, Sums
<1>3. CASE ~Exists(<<RunOf(w), worker[w].number>>)
  <2>1. PICK x \in Rows : \E row : ~Exists(x) /\ step' = [step EXCEPT ![x] = row]
    BY <1>3, CreateEffect
  <2> QED  BY <1>1, <2>1, InsertHalt
<1> QED  BY <1>2, <1>3

LEMMA ClaimHalt ==
  ASSUME TypeOK, SettleInv, StatusesAreBacked, NEW w \in Workers, Claim(w)
  PROVE  StatusesAreBacked'
<1>1. PICK x \in NextClaims :
        step' = [step EXCEPT ![x].status = "running", ![x].worker = w,
                             ![x].stale = FALSE]
  BY DEF Claim
<1>2. x \in Rows /\ step[x].status \in {"pending", "approved", "running"}
  BY DEF NextClaims, Claimable, Abandoned, ClaimableStatuses
<1>3. ~Halts(x) /\ ~Sums(x)
  BY <1>2 DEF SettleInv, Settled, Halts, Sums
<1>4. \A y \in Rows : y # x => step'[y] = step[y]
  BY <1>1 DEF TypeOK
<1>5. \A y \in Rows : (Halts(y) => Halts(y)') /\ (Sums(y) => Sums(y)')
  BY <1>3, <1>4 DEF Halts, Sums
<1> QED  BY <1>5, HaltFrame DEF Claim

\* Once a process died nothing is promised of paused runs.
LEMMA DeathHalt ==
  ASSUME TypeOK, StatusesAreBacked, crashes' = crashes + 1, UNCHANGED <<run, step>>
  PROVE  StatusesAreBacked'
<1>1. crashes' # 0
  BY DEF TypeOK
<1> QED  BY <1>1 DEF StatusesAreBacked, PausedIsAccountedFor, CompletedRunsAreSummarized

LEMMA RecoveryHalt ==
  ASSUME TypeOK, SettleInv, StatusesAreBacked,
         \/ \E w \in Workers : Crash(w) \/ Restart(w)
         \/ \E x \in Rows : Expire(x)
  PROVE  StatusesAreBacked'
<1>1. CASE \E w \in Workers : Crash(w)
  BY <1>1, DeathHalt DEF Crash
<1>2. CASE \E w \in Workers : RecoverClaims(w)
  <2>1. UNCHANGED <<run, request, crashes>>
    BY <1>2 DEF RecoverClaims
  <2>2. ASSUME NEW y \in Rows
        PROVE  (Halts(y) => Halts(y)') /\ (Sums(y) => Sums(y)')
    <3>1. step'[y] = IF step[y].status = "running" /\ step[y].stale
                     THEN [step[y] EXCEPT !.status = "pending", !.worker = None,
                                          !.stale = FALSE]
                     ELSE step[y]
      BY <1>2 DEF RecoverClaims
    <3>2. step[y] \in StepType /\ Settled(y)
      BY DEF TypeOK, SettleInv
    <3> QED  BY <3>1, <3>2 DEF StepType, Halts, Sums, Settled
  <2> QED  BY <2>1, <2>2, HaltFrame
<1>3. CASE \E w \in Workers : RecoverRuns(w)
  <2>1. UNCHANGED <<step, request, crashes>>
    BY <1>3 DEF RecoverRuns
  <2>2. \A r \in Runs : run'[r].status # run[r].status => run'[r].status = "failed"
    BY <1>3 DEF RecoverRuns, TypeOK, RunType
  <2> QED  BY <2>1, <2>2, HaltFrame DEF Halts, Sums
<1>4. CASE \E x \in Rows : Expire(x)
  <2>1. UNCHANGED <<run, request, crashes>>
    BY <1>4 DEF Expire
  <2>2. \A y \in Rows : (Halts(y) => Halts(y)') /\ (Sums(y) => Sums(y)')
    BY <1>4 DEF Expire, TypeOK, StepType, Halts, Sums
  <2> QED  BY <2>1, <2>2, HaltFrame
<1> QED  BY <1>1, <1>2, <1>3, <1>4 DEF Restart

\* An approval takes the question away, and the run with it: the request goes on
\* to resume it.
LEMMA ApproveHalt ==
  ASSUME TypeOK, TablesInv, OrderInv, SettleInv, SettleInv', StatusesAreBacked,
         NEW u \in Users, \A v \in Users : v = u, CommitApproval(u)
  PROVE  StatusesAreBacked'
<1> DEFINE v == [step[request[u].row] EXCEPT !.status = "approved",
                   !.decision = "approved", !.stale = FALSE]
<1>1. /\ Fresh(u) /\ Undecided(u) /\ request[u].pc = "approve"
      /\ request[u] \in RequestState
  BY DEF CommitApproval, OrderInv, DecisionsAreFresh, Deciding, SettleInv, TypeOK,
         RequestType
<1>2. PICK x \in Rows : /\ x = request[u].row /\ x[1] = request[u].run
                        /\ step[x].status \in {"waiting_approval", "failed"}
                        /\ run[x[1]].status \in {request[u].status, "failed"}
  BY <1>1 DEF Fresh
<1>3. step' = [step EXCEPT ![x] = v] /\ UNCHANGED <<run, worker, crashes>>
  BY <1>2 DEF CommitApproval
<1> HIDE DEF v
<1>4. \A y \in Rows : y # x => step'[y] = step[y]
  BY <1>3 DEF TypeOK
<1>5. CompletedRunsAreSummarized'
  <2>1. \A r \in Runs, n \in Numbers : <<r, n>> \in Rows
    BY DEF Rows
  <2>2. \A y \in Rows : Sums(y) => Sums(y)'
    BY <1>2, <1>4 DEF Sums
  <2> QED  BY <1>3, <2>1, <2>2
           DEF StatusesAreBacked, CompletedRunsAreSummarized, Sums
<1>6. ASSUME NEW r \in Runs, run'[r].status = "paused", crashes' = 0
      PROVE  \/ \E n \in Numbers : Halts(<<r, n>>)'
             \/ \E q \in Users : request'[q].pc = "resume" /\ request'[q].run = r
  <2>1. CASE r = x[1]
    <3>1. request[u].status = "paused"
      BY <1>2, <1>3, <1>6, <2>1
    <3>2. request' = [request EXCEPT ![u].pc = "resume"]
      BY <3>1 DEF CommitApproval
    <3>3. request'[u].pc = "resume" /\ request'[u].run = r
      BY <1>1, <1>2, <2>1, <3>2 DEF TypeOK, RequestState
    <3> QED  BY <3>3
  <2>2. CASE r # x[1]
    <3>1. PICK n \in Numbers : Halts(<<r, n>>)
      BY <1>1, <1>3, <1>6 DEF StatusesAreBacked, PausedIsAccountedFor, Halts
    <3>2. <<r, n>> \in Rows /\ <<r, n>> # x
      BY <2>2 DEF Rows
    <3> QED  BY <1>4, <3>1, <3>2 DEF Halts
  <2> QED  BY <2>1, <2>2
<1> QED  BY <1>5, <1>6 DEF StatusesAreBacked, PausedIsAccountedFor, Halts

\* The resumed run is the one active run, which nothing keeps from being written
\* as pending; a run is paused after its step was rejected.
LEMMA StatusHalt ==
  ASSUME TypeOK, TablesInv, OrderInv, StatusesAreBacked, NEW u \in Users,
         ActiveIndex => OneActiveRun,
         \A v \in Users : v = u, CommitRunStatus(u)
  PROVE  StatusesAreBacked'
<1>1. /\ UNCHANGED <<step, worker, crashes>>
      /\ request[u].pc \in {"resume", "pause"} /\ request[u].run \in Runs
  BY DEF CommitRunStatus, TypeOK, RequestType
<1>2. PICK status : /\ status = IF request[u].pc = "resume" THEN "pending" ELSE "paused"
                    /\ run' = IF IndexAllows(request[u].run)
                              THEN [run EXCEPT ![request[u].run].status = status]
                              ELSE run
  BY DEF CommitRunStatus
<1>3. \A r \in Runs : run'[r].status # run[r].status =>
                        r = request[u].run /\ run'[r].status = status
  BY <1>1, <1>2 DEF TypeOK, RunType
<1>4. CompletedRunsAreSummarized'
  <2>1. \A r \in Runs : run'[r].status = "completed" => run[r].status = "completed"
    BY <1>2, <1>3
  <2> QED  BY <1>1, <2>1 DEF StatusesAreBacked, CompletedRunsAreSummarized
<1>5. ASSUME NEW r \in Runs, run'[r].status = "paused", crashes' = 0
      PROVE  \E n \in Numbers : Halts(<<r, n>>)
  <2>1. CASE request[u].pc = "pause" /\ r = request[u].run
    <3>1. PICK x \in Rows : x[1] = r /\ step[x].decision = "rejected"
      BY <2>1 DEF OrderInv, DecisionsAreFresh, Deciding, Fresh
    <3>2. x[2] \in Numbers /\ x = <<r, x[2]>>
      BY <3>1, RowIsPair
    <3> QED  BY <3>1, <3>2 DEF Halts
  <2>2. CASE r # request[u].run
    BY <1>1, <1>3, <1>5, <2>2 DEF StatusesAreBacked, PausedIsAccountedFor, Halts
  <2>3. CASE request[u].pc = "resume" /\ r = request[u].run
    <3>1. run[r].status = "paused" /\ run'[r].status # "pending"
      BY <1>2, <1>3, <1>5, <2>3
    <3>2. IndexAllows(r)
      BY <3>1 DEF IndexAllows, OneActiveRun, Active, ActiveStatuses
    <3>3. run'[r].status = "pending"
      BY <1>2, <2>3, <3>2 DEF TypeOK, RunType
    <3> QED  BY <3>1, <3>3
  <2> QED  BY <1>1, <2>1, <2>2, <2>3
<1> QED  BY <1>1, <1>4, <1>5 DEF StatusesAreBacked, PausedIsAccountedFor, Halts

LEMMA RequestHalt ==
  ASSUME TypeOK, TypeOK', TablesInv, OrderInv, SettleInv, StatusesAreBacked,
         NEW u \in Users, \A v \in Users : v = u,
         \/ Ask(u) \/ CreateRun(u) \/ SeedThink(u) \/ CommitCancel(u)
         \/ CommitRejection(u)
  PROVE  StatusesAreBacked'
<1>1. UNCHANGED crashes /\ request[u].pc # "resume"
  BY DEF Ask, BeginStart, BeginRetry, BeginCancel, BeginDecision, CreateRun,
         SeedThink, CommitCancel, CommitRejection
<1>2. \A v \in Users : request[v].pc = "resume" => request'[v] = request[v]
  BY <1>1
<1>3. CASE SeedThink(u)
  <2>1. PICK row : row = NewRow("think", "pending", None)
    OBVIOUS
  <2>2. PICK x \in Rows : ~Exists(x) /\ step' = [step EXCEPT ![x] = row]
    BY <1>3, <2>1, SeedInserts
  <2>3. UNCHANGED run
    BY <1>3 DEF SeedThink
  <2> QED  BY <1>1, <1>2, <2>2, <2>3, InsertHalt
<1>4. CASE CommitRejection(u)
  <2> DEFINE v == [step[request[u].row] EXCEPT !.status = "rejected",
                     !.decision = "rejected", !.stale = FALSE]
  <2>1. PICK x \in Rows : /\ x = request[u].row /\ step[x] \in StepType
                          /\ step[x].status \in {"waiting_approval", "failed"}
    BY <1>4 DEF CommitRejection, OrderInv, DecisionsAreFresh, Deciding, Fresh, TypeOK
  <2>2. step' = [step EXCEPT ![x] = v] /\ UNCHANGED run
    BY <1>4, <2>1 DEF CommitRejection
  <2>3. v.decision = "rejected"
    BY <2>1 DEF StepType
  <2> HIDE DEF v
  <2>4. step'[x] = v /\ \A y \in Rows : y # x => step'[y] = step[y]
    BY <2>2 DEF TypeOK
  <2>5. \A y \in Rows : (Halts(y) => Halts(y)') /\ (Sums(y) => Sums(y)')
    BY <2>1, <2>3, <2>4 DEF Halts, Sums
  <2> QED  BY <1>1, <1>2, <2>2, <2>5, HaltFrame
<1>5. CASE Ask(u) \/ CreateRun(u) \/ CommitCancel(u)
  <2>1. UNCHANGED step
    BY <1>5 DEF Ask, BeginStart, BeginRetry, BeginCancel, BeginDecision, CreateRun,
                CommitCancel
  <2>2. \A r \in Runs : run'[r].status # run[r].status =>
                          run'[r].status \in {"pending", "cancelled"}
    BY <1>5 DEF Ask, BeginStart, BeginRetry, BeginCancel, BeginDecision, CreateRun,
                CommitCancel, TypeOK, RunType, RequestType
  <2> QED  BY <1>1, <1>2, <2>1, <2>2, HaltFrame DEF Halts, Sums
<1> QED  BY <1>3, <1>4, <1>5

LEMMA StepHalt ==
  ASSUME OneUserInTime, TypeOK, TypeOK', TablesInv, OrderInv, SettleInv, SettleInv',
         StatusesAreBacked, ActiveIndex => OneActiveRun, [Next]_vars
  PROVE  StatusesAreBacked'
<1>1. ASSUME NEW w \in Workers, Claim(w) \/ Process(w)
      PROVE  StatusesAreBacked'
  BY <1>1, ClaimHalt, SessionHalt, CompleteHalt, EndHalt, FailHalt, CreateHalt
     DEF Process
<1>2. ASSUME NEW u \in Users, Ask(u) \/ Proceed(u) \/ RequestDies(u)
      PROVE  StatusesAreBacked'
  <2>1. \A v \in Users : v = u
    BY DEF OneUserInTime
  <2>2. CASE RequestDies(u)
    BY <2>2, DeathHalt DEF RequestDies
  <2> QED  BY <1>2, <2>1, <2>2, RequestHalt, ApproveHalt, StatusHalt DEF Proceed
<1>3. CASE UNCHANGED vars
  BY <1>3, HaltFrame DEF vars, Halts, Sums
<1> QED  BY <1>1, <1>2, <1>3, RecoveryHalt DEF Next

\* As long as no process dies a paused run has a step to decide about, or a
\* rejected one, or is being resumed; a completed run has its summary.  With or
\* without the index: the index never stands in the way of the run that resumes.
THEOREM HaltsAreBacked ==
  ASSUME OneUserInTime
  PROVE  Spec => []StatusesAreBacked
<1>1. Spec => [](ActiveIndex => OneActiveRun)
  <2>1. CASE ActiveIndex
    <3>1. OneActiveRun => (ActiveIndex => OneActiveRun)
      OBVIOUS
    <3> QED  BY <2>1, <3>1, UniqueActiveRun, PTL
  <2>2. CASE ~ActiveIndex
    <3>1. ActiveIndex => OneActiveRun
      BY <2>2
    <3> QED  BY <3>1, PTL
  <2> QED  BY <2>1, <2>2
<1>2. ASSUME TypeOK, TypeOK', TablesInv, OrderInv, SettleInv, SettleInv',
             StatusesAreBacked, ActiveIndex => OneActiveRun, [Next]_vars
      PROVE  StatusesAreBacked'
  BY <1>2, StepHalt
<1> QED  BY <1>1, <1>2, InitHalt, TypeCorrect, TablesHold, OrderHolds, SettleHolds, PTL
         DEF Spec
=============================================================================
