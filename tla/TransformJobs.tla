---------------------------- MODULE TransformJobs ----------------------------
(***************************************************************************)
(* The transform jobs of one project: the transform_runs table, the RQ     *)
(* queue and its workers (worker/transform_job.py), the API process that   *)
(* submits, cancels and recovers jobs (engine/transform_execution_service, *)
(* api/transforms.py, api/websocket.py, main.py), agent workers that run   *)
(* a transform themselves (execute_direct), and the jobs one browser shows *)
(* as active (stores/transformJobStore.ts).                                *)
(*                                                                         *)
(* One action is one commit, one call to Redis, or one message handled.    *)
(* Redis forgets an event nobody listens to.                               *)
(***************************************************************************)
EXTENDS Naturals, Sequences

CONSTANTS
  Jobs,        \* identities of the transform_runs rows
  Workers,     \* RQ workers
  Agents,      \* agent workers: they execute a job in their own process
  Users,       \* open cancel requests, HTTP or WebSocket
  NoJob,       \* not a job
  Prompt,      \* TRUE: nobody takes or cancels a job before the browser that
               \* submitted it has handled the response
  Faults,      \* what may go wrong: a subset of AllFaults
  MaxFaults,   \* bound of the model: faults of any kind
  MaxCancels,  \* bound of the model: cancel requests
  MaxRecent    \* MAX_RECENT of the browser's list of completed jobs

AllFaults == {"restart",   \* the API process dies and is started again
              "drop",      \* the browser's socket is closed
              "death",     \* a worker process is killed
              "redis",     \* a call to Redis fails
              "database",  \* a commit outside the try block fails
              "escape"}    \* an exception passes the except clause of a worker

ASSUME JobsAssumption ==
  /\ NoJob \notin Jobs
  /\ Workers \cap Agents = {}

ASSUME BoundsAssumption ==
  /\ Prompt \in BOOLEAN /\ Faults \subseteq AllFaults
  /\ MaxFaults \in Nat /\ MaxCancels \in Nat /\ MaxRecent \in Nat

VARIABLES
  run,        \* transform_runs.status of each job, "absent" before the insert
  results,    \* the jobs whose entities and edges are all stored
  queue,      \* the jobs waiting in the RQ queue
  request,    \* how far the request that submits each job is
  executor,   \* each worker: where it is, and in which job
  canceller,  \* each cancel request: where it is, and for which job
  api,        \* "up", "down" or "recovering": the API process
  stale,      \* the open jobs _recover_stale_jobs has selected
  lost,       \* (history) the jobs a fault has left to the next recovery
  online,     \* is the browser's socket open?
  inbox,      \* the events on their way to the browser
  active,     \* activeJobs of the browser, "none" where it has no entry
  recent,     \* recentCompleted of the browser
  faults,     \* how many faults so far
  cancels     \* how many cancel requests so far

browser  == <<online, inbox, active, recent>>
requests == <<request, canceller, cancels>>
server   == <<api, stale, lost>>
vars == <<run, results, queue, executor, faults, requests, server, browser>>

-----------------------------------------------------------------------------
(* Types. *)

OpenStatuses     == {"pending", "running"}
TerminalStatuses == {"completed", "failed", "cancelled"}

Executors == Workers \cup Agents

Kinds == {"submitted", "started", "completed", "failed", "cancelled"}

Messages == [kind : Kinds, job : Jobs]

QueuedSteps == {"begin", "started"}
DirectSteps == {"saved", "submitted", "marked"}
SharedSteps == {"running", "persisted", "completed", "failing", "failed"}
BusySteps   == QueuedSteps \cup DirectSteps \cup SharedSteps

ExecutorType ==
  [job : {NoJob}, pc : {"idle"}]
  \cup [job : Jobs, pc : BusySteps]

CancellerType ==
  [job : {NoJob}, pc : {"idle"}]
  \cup [job : Jobs, pc : {"checked", "removed", "committed"}]

RequestSteps == {"none", "saved", "queued", "announced", "done"}

\* The types of the variables, and that only sockets of a running server are
\* open: api/websocket.py keeps the connections in memory.
TypeOK ==
  /\ run \in [Jobs -> {"absent"} \cup OpenStatuses \cup TerminalStatuses]
  /\ results \subseteq Jobs
  /\ queue \subseteq Jobs
  /\ request \in [Jobs -> RequestSteps]
  /\ executor \in [Executors -> ExecutorType]
  /\ canceller \in [Users -> CancellerType]
  /\ api \in {"up", "down", "recovering"}
  /\ stale \subseteq Jobs
  /\ lost \subseteq Jobs
  /\ online \in BOOLEAN
  /\ online => api = "up"
  /\ inbox \in Seq(Messages)
  /\ active \in [Jobs -> {"none", "pending", "running"}]
  /\ recent \in Seq(Jobs)
  /\ Len(recent) <= MaxRecent
  /\ faults \in 0 .. MaxFaults
  /\ cancels \in 0 .. MaxCancels

Idle == [job |-> NoJob, pc |-> "idle"]

Init ==
  /\ run = [j \in Jobs |-> "absent"]
  /\ results = {}
  /\ queue = {}
  /\ request = [j \in Jobs |-> "none"]
  /\ executor = [w \in Executors |-> Idle]
  /\ canceller = [u \in Users |-> Idle]
  /\ api = "up"
  /\ stale = {}
  /\ lost = {}
  /\ online = TRUE
  /\ inbox = <<>>
  /\ active = [j \in Jobs |-> "none"]
  /\ recent = <<>>
  /\ faults = 0
  /\ cancels = 0

-----------------------------------------------------------------------------
(* Events and faults. *)

\* redis.publish: the listener of the API process forwards the message to the
\* open sockets; without either it is gone.
Publish(kind, j) ==
  /\ inbox' = IF online THEN Append(inbox, [kind |-> kind, job |-> j]) ELSE inbox
  /\ UNCHANGED <<online, active, recent>>

Fault(f) ==
  /\ f \in Faults
  /\ faults < MaxFaults
  /\ faults' = faults + 1

\* The API process runs one coroutine at a time, and between queueing a job and
\* announcing it execute_enqueued does not await.
EventLoopFree ==
  /\ api = "up"
  /\ \A j \in Jobs : request[j] # "queued"

-----------------------------------------------------------------------------
(* Submission: POST /transforms/{name}/run. *)

Advance(j, from, to) ==
  /\ request[j] = from
  /\ request' = [request EXCEPT ![j] = to]
  /\ UNCHANGED <<results, executor, canceller, cancels, api, stale>>

Request(j, from, to) == Advance(j, from, to) /\ UNCHANGED lost

\* The row is committed; the audit log is written before the job is queued.
Submit(j) ==
  /\ EventLoopFree
  /\ run[j] = "absent"
  /\ run' = [run EXCEPT ![j] = "pending"]
  /\ Request(j, "none", "saved")
  /\ UNCHANGED <<queue, faults, browser>>

Enqueue(j) ==
  /\ EventLoopFree
  /\ Request(j, "saved", "queued")
  /\ queue' = queue \cup {j}
  /\ UNCHANGED <<run, faults, browser>>

\* 503: the request fails, the pending row stays.
EnqueueFails(j) ==
  /\ EventLoopFree
  /\ Fault("redis")
  /\ Advance(j, "saved", "done")
  /\ lost' = lost \cup {j}
  /\ UNCHANGED <<run, queue, browser>>

Announce(j) ==
  /\ Request(j, "queued", "announced")
  /\ Publish("submitted", j)
  /\ UNCHANGED <<run, queue, faults>>

AnnounceFails(j) ==
  /\ Fault("redis")
  /\ Request(j, "queued", "done")
  /\ UNCHANGED <<run, queue, browser>>

\* The browser handles the HTTP response: submitJob.
Respond(j) ==
  /\ Request(j, "announced", "done")
  /\ active' = [active EXCEPT ![j] = "pending"]
  /\ UNCHANGED <<run, queue, faults, online, inbox, recent>>

-----------------------------------------------------------------------------
(* Execution, by an RQ worker or directly by an agent. *)

At(w, pc) == executor[w].pc = pc

Go(w, pc) ==
  /\ executor' = [executor EXCEPT ![w].pc = pc]
  /\ UNCHANGED <<queue, requests, server>>

Leave(w) ==
  /\ executor' = [executor EXCEPT ![w] = Idle]
  /\ UNCHANGED <<queue, requests, server>>

\* The worker leaves the job without its last commits.
Abandon(w) ==
  /\ executor' = [executor EXCEPT ![w] = Idle]
  /\ lost' = lost \cup {executor[w].job}
  /\ UNCHANGED <<queue, requests, api, stale>>

SetStatus(j, status) == run' = [run EXCEPT ![j] = status]

Dequeue(w, j) ==
  /\ w \in Workers /\ executor[w] = Idle
  /\ j \in queue
  /\ Prompt => request[j] = "done"
  /\ queue' = queue \ {j}
  /\ executor' = [executor EXCEPT ![w] = [job |-> j, pc |-> "begin"]]
  /\ UNCHANGED <<run, results, faults, requests, server, browser>>

\* The worker announces the start before it commits it ...
AnnounceStart(w) ==
  /\ At(w, "begin")
  /\ Publish("started", executor[w].job)
  /\ Go(w, "started")
  /\ UNCHANGED <<run, results, faults>>

\* ... whatever the row says by then.
MarkRunning(w) ==
  /\ At(w, "started")
  /\ SetStatus(executor[w].job, "running")
  /\ Go(w, "running")
  /\ UNCHANGED <<results, faults, browser>>

DirectSubmit(a, j) ==
  /\ a \in Agents /\ executor[a] = Idle
  /\ run[j] = "absent"
  /\ SetStatus(j, "pending")
  /\ executor' = [executor EXCEPT ![a] = [job |-> j, pc |-> "saved"]]
  /\ UNCHANGED <<results, queue, faults, requests, server, browser>>

DirectAnnounce(a) ==
  /\ At(a, "saved")
  /\ Publish("submitted", executor[a].job)
  /\ Go(a, "submitted")
  /\ UNCHANGED <<run, results, faults>>

DirectMark(a) ==
  /\ At(a, "submitted")
  /\ SetStatus(executor[a].job, "running")
  /\ Go(a, "marked")
  /\ UNCHANGED <<results, faults, browser>>

DirectStart(a) ==
  /\ At(a, "marked")
  /\ Publish("started", executor[a].job)
  /\ Go(a, "running")
  /\ UNCHANGED <<run, results, faults>>

\* The first two events of execute_direct are published, and the commit between
\* them made, outside its try block.
DirectAborts(a) ==
  /\ \/ (At(a, "saved") \/ At(a, "marked")) /\ Fault("redis")
     \/ At(a, "submitted") /\ Fault("database")
  /\ Abandon(a)
  /\ UNCHANGED <<run, results, browser>>

\* The transform has returned: its entities and edges are stored, one commit
\* each, before the row is touched.
Persist(w) ==
  /\ At(w, "running")
  /\ results' = results \cup {executor[w].job}
  /\ Go(w, "persisted")
  /\ UNCHANGED <<run, faults, browser>>

\* Mutant: the row is committed before the entities are stored.
CompleteEarly(w) ==
  /\ At(w, "running")
  /\ SetStatus(executor[w].job, "completed")
  /\ Go(w, "completed")
  /\ UNCHANGED <<results, faults, browser>>

Complete(w) ==
  /\ At(w, "persisted")
  /\ SetStatus(executor[w].job, "completed")
  /\ Go(w, "completed")
  /\ UNCHANGED <<results, faults, browser>>

AnnounceCompletion(w) ==
  /\ At(w, "completed")
  /\ Publish("completed", executor[w].job)
  /\ Leave(w)
  /\ UNCHANGED <<run, results, faults>>

\* Anything in the try block may raise an Exception: the transform, wait_for, a
\* store.
Raise(w) ==
  /\ executor[w].pc \in QueuedSteps \cup {"running", "persisted"}
  /\ Go(w, "failing")
  /\ UNCHANGED <<run, results, faults, browser>>

\* The announcement of a completed job is in the try block too.
RaiseLate(w) ==
  /\ At(w, "completed")
  /\ Fault("redis")
  /\ Go(w, "failing")
  /\ UNCHANGED <<run, results, browser>>

CommitFailure(w) ==
  /\ At(w, "failing")
  /\ SetStatus(executor[w].job, "failed")
  /\ Go(w, "failed")
  /\ UNCHANGED <<results, faults, browser>>

\* An RQ worker logs this and goes on, execute_direct raises.
Unfinished(w) ==
  /\ executor' = [executor EXCEPT ![w].pc = "failed"]
  /\ lost' = lost \cup {executor[w].job}
  /\ UNCHANGED <<queue, requests, api, stale>>

CommitFailureFails(w) ==
  /\ At(w, "failing")
  /\ Fault("database")
  /\ \/ w \in Workers /\ Unfinished(w)
     \/ w \in Agents /\ Abandon(w)
  /\ UNCHANGED <<run, results, browser>>

AnnounceFailure(w) ==
  /\ At(w, "failed")
  /\ Publish("failed", executor[w].job)
  /\ Leave(w)
  /\ UNCHANGED <<run, results, faults>>

\* Redis fails, or the name `entity` is unbound: the worker's exception came
\* before the entity was read.
AnnounceFailureFails(w) ==
  /\ At(w, "failed")
  /\ Fault("redis") \/ (w \in Workers /\ Fault("escape"))
  /\ Leave(w)
  /\ UNCHANGED <<run, results, browser>>

\* RQ does not run a job again whose worker died.
WorkerDies(w) ==
  /\ executor[w] # Idle
  /\ Fault("death")
  /\ Abandon(w)
  /\ UNCHANGED <<run, results, browser>>

\* RQ's job timeout, raised while the event loop waits, cancels the coroutine,
\* and a CancelledError is no Exception; init_db stands before the try block.
\* The row keeps its status and nothing is published.
Escape(w) ==
  /\ w \in Workers /\ executor[w] # Idle
  /\ Fault("escape")
  /\ Abandon(w)
  /\ UNCHANGED <<run, results, browser>>

-----------------------------------------------------------------------------
(* Cancelling: POST /transforms/runs/{id}/cancel, or a WebSocket message. *)

Cancelling(u, from, to) ==
  /\ canceller[u].pc = from
  /\ canceller' = [canceller EXCEPT ![u].pc = to]
  /\ UNCHANGED <<results, request, executor, cancels, server>>

CancelDone(u) ==
  /\ canceller[u].pc = "committed"
  /\ canceller' = [canceller EXCEPT ![u] = Idle]
  /\ UNCHANGED <<run, results, queue, request, executor, cancels, server>>

\* The statuses a job may be cancelled in; mutant: any.
CancellableAlways == OpenStatuses \cup TerminalStatuses
Cancellable == OpenStatuses

BeginCancel(u, j) ==
  /\ EventLoopFree
  /\ canceller[u] = Idle /\ cancels < MaxCancels
  /\ run[j] \in Cancellable
  /\ Prompt => request[j] \in {"none", "done"}
  /\ canceller' = [canceller EXCEPT ![u] = [job |-> j, pc |-> "checked"]]
  /\ cancels' = cancels + 1
  /\ UNCHANGED <<run, results, queue, request, executor, faults, server, browser>>

\* Job.cancel takes a waiting job out of the queue, and does not stop one that
\* is being executed.
RemoveJob(u) ==
  /\ EventLoopFree
  /\ Cancelling(u, "checked", "removed")
  /\ queue' = queue \ {canceller[u].job}
  /\ UNCHANGED <<run, faults, browser>>

\* An exception of RQ or Redis is ignored.
RemoveFails(u) ==
  /\ EventLoopFree
  /\ Fault("redis")
  /\ Cancelling(u, "checked", "removed")
  /\ UNCHANGED <<run, queue, browser>>

CommitCancel(u) ==
  /\ EventLoopFree
  /\ Cancelling(u, "removed", "committed")
  /\ SetStatus(canceller[u].job, "cancelled")
  /\ UNCHANGED <<queue, faults, browser>>

AnnounceCancel(u) ==
  /\ EventLoopFree
  /\ CancelDone(u)
  /\ Publish("cancelled", canceller[u].job)
  /\ UNCHANGED faults

AnnounceCancelFails(u) ==
  /\ EventLoopFree
  /\ Fault("redis")
  /\ CancelDone(u)
  /\ UNCHANGED browser

-----------------------------------------------------------------------------
(* The API process dies with its requests and sockets; lifespan recovers. *)

ApiDies ==
  /\ api = "up"
  /\ Fault("restart")
  /\ api' = "down"
  /\ request' = [j \in Jobs |-> IF request[j] = "none" THEN "none" ELSE "done"]
  /\ canceller' = [u \in Users |-> Idle]
  /\ online' = FALSE
  /\ inbox' = <<>>
  /\ UNCHANGED <<run, results, queue, executor, cancels, stale, lost, active, recent>>

StaleUncompleted == OpenStatuses \cup {"failed", "cancelled"}
StaleStatuses == OpenStatuses

\* It selects these rows ...
SelectStale ==
  /\ api = "down"
  /\ api' = "recovering"
  /\ stale' = {j \in Jobs : run[j] \in StaleStatuses}
  /\ UNCHANGED <<run, results, queue, executor, lost, faults, requests, browser>>

\* ... and commits them as failed; no event is published.
FailStale ==
  /\ api = "recovering"
  /\ api' = "up"
  /\ run' = [j \in Jobs |-> IF j \in stale THEN "failed" ELSE run[j]]
  /\ stale' = {}
  /\ lost' = lost \ stale
  /\ UNCHANGED <<results, queue, executor, faults, requests, browser>>

-----------------------------------------------------------------------------
(* The browser. *)

Disconnect ==
  /\ online
  /\ Fault("drop")
  /\ online' = FALSE
  /\ inbox' = <<>>
  /\ UNCHANGED <<run, results, queue, executor, requests, server, active, recent>>

\* useTransformWebSocket opens a new socket and loads nothing.
Reconnect ==
  /\ ~ online /\ api = "up"
  /\ online' = TRUE
  /\ UNCHANGED <<run, results, queue, executor, faults, requests, server>>
  /\ UNCHANGED <<inbox, active, recent>>

\* The messages that remove a job from activeJobs; mutants: some do not.
ClosingOnSuccess == {"completed"}
ClosingUncancelled == {"completed", "failed"}
Closing == {"completed", "failed", "cancelled"}

\* The entry of activeJobs after a message: only a submission adds one.
Entry(kind, old) ==
  IF kind = "submitted" /\ old = "none" THEN "pending"
  ELSE IF kind = "started" /\ old # "none" THEN "running"
  ELSE IF kind \in Closing THEN "none"
  ELSE old

\* Mutant: the list is not cut.
RecentUncut(m) ==
  IF m.kind = "completed" THEN <<m.job>> \o recent ELSE recent

\* recentCompleted after the message m: the newest first, the oldest dropped.
RecentAfter(m) ==
  LET updated == <<m.job>> \o recent
      kept == IF Len(updated) <= MaxRecent THEN Len(updated) ELSE MaxRecent
  IN  IF m.kind = "completed" THEN SubSeq(updated, 1, kept) ELSE recent

HandleMessage ==
  /\ inbox # <<>>
  /\ LET m == Head(inbox)
     IN  /\ active' = [active EXCEPT ![m.job] = Entry(m.kind, @)]
         /\ recent' = RecentAfter(m)
  /\ inbox' = Tail(inbox)
  /\ UNCHANGED <<online, run, results, queue, executor, faults, requests, server>>

-----------------------------------------------------------------------------
(* The specification. *)

Serve(j) == \/ Enqueue(j) \/ EnqueueFails(j) \/ Announce(j)
            \/ AnnounceFails(j) \/ Respond(j)

Execute(w) ==
  \/ AnnounceStart(w) \/ MarkRunning(w)
  \/ DirectAnnounce(w) \/ DirectMark(w) \/ DirectStart(w) \/ DirectAborts(w)
  \/ Persist(w) \/ Complete(w) \/ AnnounceCompletion(w)
  \/ Raise(w) \/ RaiseLate(w)
  \/ CommitFailure(w) \/ CommitFailureFails(w)
  \/ AnnounceFailure(w) \/ AnnounceFailureFails(w)

Stop(w) == WorkerDies(w) \/ Escape(w)

Cancel(u) == \/ RemoveJob(u) \/ RemoveFails(u) \/ CommitCancel(u)
             \/ AnnounceCancel(u) \/ AnnounceCancelFails(u)

Recover == SelectStale \/ FailStale

Next ==
  \/ \E j \in Jobs : Submit(j) \/ Serve(j)
  \/ \E w \in Workers, j \in Jobs : Dequeue(w, j)
  \/ \E a \in Agents, j \in Jobs : DirectSubmit(a, j)
  \/ \E w \in Executors : Execute(w) \/ Stop(w)
  \/ \E u \in Users, j \in Jobs : BeginCancel(u, j)
  \/ \E u \in Users : Cancel(u)
  \/ ApiDies \/ Recover
  \/ Disconnect \/ Reconnect \/ HandleMessage

Spec == Init /\ [][Next]_vars

\* Coroutines and processes that can go on do, RQ workers take what is queued,
\* the server is started again and the browser keeps reconnecting.  Nothing is
\* assumed of users and faults.
Fairness ==
  /\ \A j \in Jobs : WF_vars(Serve(j))
  /\ \A w \in Workers : WF_vars(\E j \in Jobs : Dequeue(w, j))
  /\ \A w \in Executors : WF_vars(Execute(w))
  /\ \A u \in Users : WF_vars(Cancel(u))
  /\ WF_vars(Recover) /\ WF_vars(Reconnect) /\ WF_vars(HandleMessage)

FairSpec == Spec /\ Fairness

-----------------------------------------------------------------------------
(* Properties. *)

Executed(j) == \E w \in Executors : executor[w].job = j

\* A completion is on its way to the browser, or displayed.
Shown(j) ==
  \/ \E i \in 1 .. Len(inbox) : inbox[i] = [kind |-> "completed", job |-> j]
  \/ \E i \in 1 .. Len(recent) : recent[i] = j

\* A job that is recorded, announced or displayed as completed has stored all its
\* results: a browser that reloads the graph on job_completed finds them.
CompletedJobsHaveResults ==
  \A j \in Jobs : run[j] = "completed" \/ Shown(j) => j \in results

\* CompletedJobsHaveResults with the workers that are about to break it: results
\* are stored two commits before the completion is announced.
ResultsInv ==
  /\ CompletedJobsHaveResults
  /\ \A w \in Executors :
       executor[w].pc \in {"persisted", "completed"} => executor[w].job \in results

\* A job at rest: ended, and nobody holds it any more.
Settled(j) ==
  /\ run[j] \in TerminalStatuses
  /\ request[j] \in {"none", "announced", "done"}
  /\ j \notin queue /\ ~ Executed(j)
  /\ \A u \in Users : canceller[u].job # j
  /\ j \notin stale

\* A job at rest stays at rest with its outcome, through later cancel requests,
\* crashes, start-up recoveries and whatever other jobs do.
SettledJobsRest ==
  [][\A j \in Jobs : Settled(j) => Settled(j)' /\ run'[j] = run[j]]_vars

\* Until the first cancel or fault, and with prompt responses, the browser shows
\* as active exactly the jobs whose row is open, up to the events on their way
\* and those a process has yet to publish.
Unannounced(j) ==
  \/ request[j] \in {"saved", "queued", "announced"}
  \/ \E w \in Executors :
       executor[w].job = j /\ executor[w].pc \in {"saved", "completed", "failed"}

ScreenAgrees ==
  \A j \in Jobs :
    inbox = <<>> /\ ~ Unannounced(j) /\ Prompt /\ faults = 0 /\ cancels = 0
    => (active[j] # "none") = (run[j] \in OpenStatuses)


\* A job does not stay on the screen for ever.  (After a restart, a dropped
\* socket, or a job timed out or stopped outside its try block it may: nothing
\* is published or loaded again.)
ScreenSettles ==
  \A j \in Jobs : active[j] # "none" ~> active[j] = "none" \/ faults > 0
=============================================================================
