------------------------ MODULE TransformJobsProofs ------------------------
(***************************************************************************)
(* Proofs about TransformJobs, for any jobs, workers, agents, cancel       *)
(* requests and faults: the typing invariant, results before completion,   *)
(* that a job at rest stays at rest, and that the screen agrees with the   *)
(* rows.                                                                   *)
(***************************************************************************)
EXTENDS TransformJobs, SequenceTheorems, TLAPS

-----------------------------------------------------------------------------
(* Types. *)

LEMMA InitTyped == Init => TypeOK
BY BoundsAssumption, EmptySeq
   DEF Init, TypeOK, Idle, ExecutorType, CancellerType, RequestSteps

\* A fault counts.
LEMMA FaultTyped ==
  ASSUME TypeOK, NEW f, Fault(f)
  PROVE  faults' \in 0 .. MaxFaults
BY BoundsAssumption DEF TypeOK, Fault

\* A worker goes on with its job, or leaves it.
LEMMA MoveTyped ==
  ASSUME TypeOK, NEW w \in Executors, executor[w] # Idle, NEW pc \in BusySteps
  PROVE  /\ executor[w].job \in Jobs
         /\ [executor EXCEPT ![w].pc = pc] \in [Executors -> ExecutorType]
         /\ [executor EXCEPT ![w] = Idle] \in [Executors -> ExecutorType]
<1>1. executor[w] \in [job : Jobs, pc : BusySteps]
  BY DEF TypeOK, ExecutorType, Idle
<1>2. [executor[w] EXCEPT !.pc = pc] \in ExecutorType
  BY <1>1 DEF ExecutorType
<1>3. Idle \in ExecutorType
  BY DEF Idle, ExecutorType
<1> QED  BY <1>1, <1>2, <1>3 DEF TypeOK

\* The steps of a worker are steps of a busy one.
LEMMA BusyIsNotIdle ==
  ASSUME NEW w \in Executors, executor[w].pc \in BusySteps
  PROVE  executor[w] # Idle
BY DEF BusySteps, QueuedSteps, DirectSteps, SharedSteps, Idle

\* The same of cancel requests.
LEMMA CancelTyped ==
  ASSUME TypeOK, NEW u \in Users, NEW pc \in {"removed", "committed"},
         canceller[u].pc # "idle"
  PROVE  /\ canceller[u].job \in Jobs
         /\ [canceller EXCEPT ![u].pc = pc] \in [Users -> CancellerType]
         /\ [canceller EXCEPT ![u] = Idle] \in [Users -> CancellerType]
<1>1. canceller[u] \in [job : Jobs, pc : {"checked", "removed", "committed"}]
  BY DEF TypeOK, CancellerType
<1>2. [canceller[u] EXCEPT !.pc = pc] \in CancellerType
  BY <1>1 DEF CancellerType
<1>3. Idle \in CancellerType
  BY DEF Idle, CancellerType
<1> QED  BY <1>1, <1>2, <1>3 DEF TypeOK

\* An event is published to an open socket, or is lost.
LEMMA PublishTyped ==
  ASSUME TypeOK, NEW kind \in Kinds, NEW j \in Jobs, Publish(kind, j)
  PROVE  inbox' \in Seq(Messages)
<1>1. [kind |-> kind, job |-> j] \in Messages
  BY DEF Messages
<1> QED  BY <1>1, AppendProperties DEF TypeOK, Publish

\* The message handled is one, and the list of recent jobs is cut.
LEMMA HandleTyped ==
  ASSUME TypeOK, inbox # <<>>
  PROVE  /\ Head(inbox) \in Messages
         /\ Tail(inbox) \in Seq(Messages)
         /\ RecentAfter(Head(inbox)) \in Seq(Jobs)
         /\ Len(RecentAfter(Head(inbox))) <= MaxRecent
<1>1. Head(inbox) \in Messages /\ Tail(inbox) \in Seq(Messages)
  BY HeadTailProperties DEF TypeOK
<1> DEFINE m == Head(inbox)
           updated == <<m.job>> \o recent
           kept == IF Len(updated) <= MaxRecent THEN Len(updated) ELSE MaxRecent
<1>2. <<m.job>> \in Seq(Jobs) /\ recent \in Seq(Jobs)
  BY <1>1 DEF Messages, TypeOK
<1>3. updated \in Seq(Jobs)
  BY <1>2, ConcatProperties
<1>4. Len(updated) \in Nat /\ \A i \in 1 .. Len(updated) : updated[i] \in Jobs
  BY <1>3, LenProperties, ElementOfSeq
<1>5. kept \in Nat /\ kept <= Len(updated) /\ kept <= MaxRecent
  BY <1>4, BoundsAssumption
<1>6. /\ SubSeq(updated, 1, kept) \in Seq(Jobs)
      /\ Len(SubSeq(updated, 1, kept)) = kept
  <2> HIDE DEF updated, kept
  <2>1. \A i \in 1 .. kept : updated[i] \in Jobs
    BY <1>4, <1>5
  <2> QED  BY <1>5, <2>1, SubSeqProperties
<1>7. RecentAfter(m) = IF m.kind = "completed" THEN SubSeq(updated, 1, kept)
                       ELSE recent
  BY DEF RecentAfter
<1> QED  BY <1>1, <1>5, <1>6, <1>7 DEF TypeOK

\* The steps of the request that submits a job.
LEMMA RequestTyped ==
  ASSUME TypeOK, NEW j \in Jobs, Submit(j) \/ Serve(j)
  PROVE  TypeOK'
<1> USE BoundsAssumption DEF TypeOK, Request, Advance, Fault, RequestSteps
<1>1. CASE Submit(j)
  BY <1>1 DEF Submit, OpenStatuses, browser, server
<1>2. CASE Enqueue(j)
  BY <1>2 DEF Enqueue, browser, server
<1>3. CASE EnqueueFails(j)
  BY <1>3 DEF EnqueueFails, browser, server
<1>4. CASE Announce(j)
  <2>1. inbox' \in Seq(Messages)
    BY <1>4, PublishTyped DEF Announce, Kinds
  <2> QED  BY <1>4, <2>1 DEF Announce, Publish, server
<1>5. CASE AnnounceFails(j)
  BY <1>5 DEF AnnounceFails, browser, server
<1>6. CASE Respond(j)
  BY <1>6 DEF Respond, server
<1> QED  BY <1>1, <1>2, <1>3, <1>4, <1>5, <1>6 DEF Serve

\* How a step of a worker ends: it goes on with its job, or leaves it.
Moves(w) ==
  \/ \E pc \in BusySteps : Go(w, pc)
  \/ Leave(w) \/ Abandon(w) \/ Unfinished(w)

\* What every step of a worker leaves alone.
LEMMA WorkerFrame ==
  ASSUME TypeOK, NEW w \in Executors, executor[w] # Idle, Moves(w)
  PROVE  /\ executor' \in [Executors -> ExecutorType]
         /\ UNCHANGED <<queue, request, canceller, cancels, api, stale>>
         /\ lost' \in SUBSET Jobs
<1>1. "failed" \in BusySteps
  BY DEF BusySteps, SharedSteps
<1>2. executor[w].job \in Jobs
  BY <1>1, MoveTyped
<1>3. CASE Leave(w)
  BY <1>1, <1>3, MoveTyped DEF Leave, requests, server, TypeOK
<1>4. CASE Abandon(w)
  BY <1>1, <1>2, <1>4, MoveTyped DEF Abandon, requests, TypeOK
<1>5. CASE Unfinished(w)
  BY <1>1, <1>2, <1>5, MoveTyped DEF Unfinished, requests, TypeOK
<1>6. CASE \E pc \in BusySteps : Go(w, pc)
  BY <1>6, MoveTyped DEF Go, requests, server, TypeOK
<1> QED  BY <1>3, <1>4, <1>5, <1>6 DEF Moves

\* A worker that publishes an event and commits nothing.
LEMMA AnnouncementTyped ==
  ASSUME TypeOK, NEW w \in Executors, executor[w] # Idle, Moves(w),
         NEW kind \in Kinds, Publish(kind, executor[w].job),
         UNCHANGED <<run, results, faults>>
  PROVE  TypeOK'
<1>1. executor[w].job \in Jobs
  BY MoveTyped DEF BusySteps, SharedSteps
<1>2. inbox' \in Seq(Messages)
  BY <1>1, PublishTyped
<1> QED  BY <1>2, WorkerFrame DEF TypeOK, Publish

\* A worker that commits something, or fails, and publishes nothing.
LEMMA SilentTyped ==
  ASSUME TypeOK, NEW w \in Executors, executor[w] # Idle, Moves(w),
         \/ UNCHANGED run
         \/ \E status \in OpenStatuses \cup TerminalStatuses :
              SetStatus(executor[w].job, status),
         results' \in SUBSET Jobs,
         UNCHANGED faults \/ \E f \in Faults : Fault(f),
         UNCHANGED browser
  PROVE  TypeOK'
<1>1. run' \in [Jobs -> {"absent"} \cup OpenStatuses \cup TerminalStatuses]
  BY DEF TypeOK, SetStatus
<1>2. faults' \in 0 .. MaxFaults
  BY FaultTyped DEF TypeOK
<1> QED  BY <1>1, <1>2, WorkerFrame DEF TypeOK, browser

\* The steps of a worker within its job.
LEMMA ExecuteTyped ==
  ASSUME TypeOK, NEW w \in Executors, Execute(w) \/ Stop(w)
  PROVE  TypeOK'
<1> USE DEF BusySteps, QueuedSteps, DirectSteps, SharedSteps, At
<1>1. executor[w] # Idle
  BY DEF Execute, AnnounceStart, MarkRunning, DirectAnnounce, DirectMark,
         DirectStart, DirectAborts, Persist, Complete, AnnounceCompletion, Raise,
         RaiseLate, CommitFailure, CommitFailureFails, AnnounceFailure,
         AnnounceFailureFails, WorkerDies, Escape, Stop, Idle
<1>2. executor[w].job \in Jobs /\ results \in SUBSET Jobs
  BY <1>1, MoveTyped DEF TypeOK
<1>3. CASE AnnounceStart(w) \/ DirectAnnounce(w) \/ DirectStart(w)
  BY <1>1, <1>3, AnnouncementTyped
     DEF AnnounceStart, DirectAnnounce, DirectStart, Kinds, Moves
<1>4. CASE AnnounceCompletion(w) \/ AnnounceFailure(w)
  BY <1>1, <1>4, AnnouncementTyped
     DEF AnnounceCompletion, AnnounceFailure, Kinds, Moves
<1>5. CASE MarkRunning(w) \/ DirectMark(w) \/ Complete(w) \/ CommitFailure(w)
  BY <1>1, <1>2, <1>5, SilentTyped
     DEF MarkRunning, DirectMark, Complete, CommitFailure, OpenStatuses,
         TerminalStatuses, Moves
<1>6. CASE Persist(w) \/ Raise(w)
  BY <1>1, <1>2, <1>6, SilentTyped DEF Persist, Raise, Moves
<1>7. CASE RaiseLate(w) \/ CommitFailureFails(w)
  <2>1. \E f \in Faults : Fault(f)
    BY <1>7 DEF RaiseLate, CommitFailureFails, Fault
  <2>2. Moves(w)
    BY <1>7 DEF RaiseLate, CommitFailureFails, Moves
  <2> QED  BY <1>1, <1>2, <1>7, <2>1, <2>2, SilentTyped
           DEF RaiseLate, CommitFailureFails
<1>8. CASE DirectAborts(w) \/ AnnounceFailureFails(w) \/ Stop(w)
  <2>1. \E f \in Faults : Fault(f)
    BY <1>8 DEF DirectAborts, AnnounceFailureFails, WorkerDies, Escape, Stop, Fault
  <2>2. Moves(w)
    BY <1>8 DEF DirectAborts, AnnounceFailureFails, WorkerDies, Escape, Stop, Moves
  <2> QED  BY <1>1, <1>2, <1>8, <2>1, <2>2, SilentTyped
           DEF DirectAborts, AnnounceFailureFails, WorkerDies, Escape, Stop
<1> QED  BY <1>3, <1>4, <1>5, <1>6, <1>7, <1>8 DEF Execute

\* A worker takes a job.
LEMMA TakeTyped ==
  ASSUME TypeOK, NEW w \in Executors, NEW j \in Jobs,
         Dequeue(w, j) \/ DirectSubmit(w, j)
  PROVE  TypeOK'
<1> DEFINE Taken(pc) == [executor EXCEPT ![w] = [job |-> j, pc |-> pc]]
<1>1. \A pc \in {"begin", "saved"} : Taken(pc) \in [Executors -> ExecutorType]
  BY DEF TypeOK, ExecutorType, BusySteps, QueuedSteps, DirectSteps
<1>2. CASE Dequeue(w, j)
  BY <1>1, <1>2 DEF Dequeue, TypeOK, requests, server, browser
<1>3. CASE DirectSubmit(w, j)
  BY <1>1, <1>3
     DEF DirectSubmit, SetStatus, OpenStatuses, TypeOK, requests, server, browser
<1> QED  BY <1>2, <1>3

\* The steps of a cancel request.
LEMMA CancelRequestTyped ==
  ASSUME TypeOK, NEW u \in Users, Cancel(u) \/ \E j \in Jobs : BeginCancel(u, j)
  PROVE  TypeOK'
<1>1. CASE \E j \in Jobs : BeginCancel(u, j)
  <2>1. PICK j \in Jobs : BeginCancel(u, j)
    BY <1>1
  <2>2. [job |-> j, pc |-> "checked"] \in CancellerType
    BY DEF CancellerType
  <2>3. cancels' \in 0 .. MaxCancels
    BY <2>1, BoundsAssumption DEF BeginCancel, TypeOK
  <2> QED  BY <2>1, <2>2, <2>3 DEF BeginCancel, TypeOK, server, browser
<1>2. CASE RemoveJob(u) \/ RemoveFails(u)
  <2>1. faults' \in 0 .. MaxFaults
    BY <1>2, FaultTyped DEF RemoveJob, RemoveFails, TypeOK
  <2>2. canceller' \in [Users -> CancellerType]
    BY <1>2, CancelTyped DEF RemoveJob, RemoveFails, Cancelling
  <2> QED  BY <1>2, <2>1, <2>2
           DEF RemoveJob, RemoveFails, Cancelling, TypeOK, server, browser
<1>3. CASE CommitCancel(u)
  BY <1>3, CancelTyped
     DEF CommitCancel, Cancelling, SetStatus, TerminalStatuses, TypeOK, server,
         browser
<1>4. CASE AnnounceCancel(u)
  <2>1. canceller[u].job \in Jobs
    BY <1>4, CancelTyped DEF AnnounceCancel, CancelDone
  <2>2. inbox' \in Seq(Messages)
    BY <1>4, <2>1, PublishTyped DEF AnnounceCancel, Kinds
  <2> QED  BY <1>4, <2>2, CancelTyped
           DEF AnnounceCancel, CancelDone, Publish, TypeOK, server
<1>5. CASE AnnounceCancelFails(u)
  <2>1. faults' \in 0 .. MaxFaults
    BY <1>5, FaultTyped DEF AnnounceCancelFails
  <2>2. canceller' \in [Users -> CancellerType]
    BY <1>5, CancelTyped DEF AnnounceCancelFails, CancelDone
  <2> QED  BY <1>5, <2>1, <2>2
           DEF AnnounceCancelFails, CancelDone, TypeOK, server, browser
<1> QED  BY <1>1, <1>2, <1>3, <1>4, <1>5 DEF Cancel

\* The server and the browser.
LEMMA ServerTyped ==
  ASSUME TypeOK, ApiDies \/ Recover
  PROVE  TypeOK'
<1>1. CASE ApiDies
  <2>1. Idle \in CancellerType /\ <<>> \in Seq(Messages)
    BY DEF Idle, CancellerType
  <2>2. faults' \in 0 .. MaxFaults
    BY <1>1, FaultTyped DEF ApiDies
  <2> QED  BY <1>1, <2>1, <2>2 DEF ApiDies, TypeOK, RequestSteps
<1>2. CASE SelectStale
  BY <1>2 DEF SelectStale, TypeOK, requests, browser
<1>3. CASE FailStale
  BY <1>3 DEF FailStale, TerminalStatuses, TypeOK, requests, browser
<1> QED  BY <1>1, <1>2, <1>3 DEF Recover

LEMMA BrowserTyped ==
  ASSUME TypeOK, Disconnect \/ Reconnect \/ HandleMessage
  PROVE  TypeOK'
<1>1. CASE Disconnect
  <2>1. <<>> \in Seq(Messages)
    OBVIOUS
  <2>2. faults' \in 0 .. MaxFaults
    BY <1>1, FaultTyped DEF Disconnect
  <2> QED  BY <1>1, <2>1, <2>2 DEF Disconnect, TypeOK, requests, server
<1>2. CASE Reconnect
  BY <1>2 DEF Reconnect, TypeOK, requests, server
<1>3. CASE HandleMessage
  <2> DEFINE m == Head(inbox)
  <2>1. m.job \in Jobs /\ inbox' \in Seq(Messages)
    BY <1>3, HandleTyped DEF HandleMessage, Messages
  <2>2. recent' \in Seq(Jobs) /\ Len(recent') <= MaxRecent
    BY <1>3, HandleTyped DEF HandleMessage
  <2>3. active' \in [Jobs -> {"none", "pending", "running"}]
    BY <1>3, <2>1 DEF HandleMessage, Entry, TypeOK
  <2> QED  BY <1>3, <2>1, <2>2, <2>3 DEF HandleMessage, TypeOK, requests, server
<1> QED  BY <1>1, <1>2, <1>3

\* Every step keeps the types.
LEMMA NextTyped == TypeOK /\ [Next]_vars => TypeOK'
<1> SUFFICES ASSUME TypeOK, [Next]_vars  PROVE TypeOK'
  OBVIOUS
<1>1. CASE \E j \in Jobs : Submit(j) \/ Serve(j)
  BY <1>1, RequestTyped
<1>2. CASE \E w \in Workers, j \in Jobs : Dequeue(w, j)
  BY <1>2, TakeTyped DEF Executors
<1>3. CASE \E a \in Agents, j \in Jobs : DirectSubmit(a, j)
  BY <1>3, TakeTyped DEF Executors
<1>4. CASE \E w \in Executors : Execute(w) \/ Stop(w)
  BY <1>4, ExecuteTyped
<1>5. CASE \E u \in Users : Cancel(u) \/ \E j \in Jobs : BeginCancel(u, j)
  BY <1>5, CancelRequestTyped
<1>6. CASE ApiDies \/ Recover
  BY <1>6, ServerTyped
<1>7. CASE Disconnect \/ Reconnect \/ HandleMessage
  BY <1>7, BrowserTyped
<1>8. CASE UNCHANGED vars
  BY <1>8 DEF vars, requests, server, browser, TypeOK
<1> QED  BY <1>1, <1>2, <1>3, <1>4, <1>5, <1>6, <1>7, <1>8 DEF Next

\* Every reachable state is well typed, for every set of jobs, workers, agents,
\* requests and faults: a worker in a job has one, and the list of recently
\* completed jobs never outgrows its bound.
THEOREM TypesOfJobs == Spec => []TypeOK
<1>1. Init => TypeOK
  BY InitTyped
<1>2. TypeOK /\ [Next]_vars => TypeOK'
  BY NextTyped
<1> QED  BY <1>1, <1>2, PTL DEF Spec

-----------------------------------------------------------------------------
(* Results before completion. *)

\* Publishing shows nothing but the completion that is published.
LEMMA ShownByPublish ==
  ASSUME TypeOK, NEW kind \in Kinds, NEW k \in Jobs, Publish(kind, k),
         NEW j \in Jobs, Shown(j)'
  PROVE  Shown(j) \/ (kind = "completed" /\ j = k)
<1> DEFINE m == [kind |-> kind, job |-> k]
<1>1. m \in Messages /\ inbox \in Seq(Messages) /\ Len(inbox) \in Nat
  BY LenProperties DEF Messages, TypeOK
<1>2. CASE ~ online
  BY <1>2 DEF Publish, Shown
<1>3. CASE online
  <2>1. inbox' = Append(inbox, m) /\ recent' = recent
    BY <1>3 DEF Publish
  <2>2. /\ Len(inbox') = Len(inbox) + 1
        /\ inbox'[Len(inbox) + 1] = m
        /\ \A i \in 1 .. Len(inbox) : inbox'[i] = inbox[i]
    BY <1>1, <2>1, AppendProperties
  <2>3. CASE \E i \in 1 .. Len(recent') : recent'[i] = j
    BY <2>1, <2>3 DEF Shown
  <2>4. CASE \E i \in 1 .. Len(inbox') : inbox'[i] = [kind |-> "completed", job |-> j]
    <3>1. PICK i \in 1 .. Len(inbox) + 1 :
            inbox'[i] = [kind |-> "completed", job |-> j]
      BY <2>2, <2>4
    <3>2. CASE i \in 1 .. Len(inbox)
      BY <2>2, <3>1, <3>2 DEF Shown
    <3>3. CASE i = Len(inbox) + 1
      BY <2>2, <3>1, <3>3
    <3> QED  BY <1>1, <3>1, <3>2, <3>3
  <2> QED  BY <2>3, <2>4 DEF Shown
<1> QED  BY <1>2, <1>3

\* Handling a message moves it from the inbox to the list.
LEMMA ShownByHandling ==
  ASSUME TypeOK, HandleMessage, NEW j \in Jobs, Shown(j)'
  PROVE  Shown(j)
<1> DEFINE m == Head(inbox)
           updated == <<m.job>> \o recent
           kept == IF Len(updated) <= MaxRecent THEN Len(updated) ELSE MaxRecent
<1>1. inbox \in Seq(Messages) /\ inbox # <<>> /\ Len(inbox) \in Nat \ {0}
  BY EmptySeq DEF TypeOK, HandleMessage
<1>2. /\ m \in Messages /\ m = inbox[1]
      /\ inbox' = Tail(inbox) /\ Len(Tail(inbox)) = Len(inbox) - 1
      /\ \A i \in 1 .. Len(Tail(inbox)) : Tail(inbox)[i] = inbox[i + 1]
  BY <1>1, HeadTailProperties DEF HandleMessage
<1>3. CASE \E i \in 1 .. Len(inbox') : inbox'[i] = [kind |-> "completed", job |-> j]
  <2>1. PICK i \in 1 .. Len(inbox) - 1 :
          inbox[i + 1] = [kind |-> "completed", job |-> j]
    BY <1>2, <1>3
  <2>2. i + 1 \in 1 .. Len(inbox)
    BY <1>1
  <2> QED  BY <2>1, <2>2 DEF Shown
<1>4. CASE \E i \in 1 .. Len(recent') : recent'[i] = j
  <2>1. CASE m.kind # "completed"
    BY <1>4, <2>1 DEF HandleMessage, RecentAfter, Shown
  <2>2. CASE m.kind = "completed"
    <3>1. /\ <<m.job>> \in Seq(Jobs) /\ recent \in Seq(Jobs)
          /\ Len(<<m.job>>) = 1 /\ <<m.job>>[1] = m.job /\ Len(recent) \in Nat
      BY <1>2, LenProperties DEF Messages, TypeOK
    <3>2. /\ updated \in Seq(Jobs) /\ Len(updated) = 1 + Len(recent)
          /\ \A i \in 1 .. 1 + Len(recent) :
               updated[i] = IF i <= 1 THEN m.job ELSE recent[i - 1]
      <4> HIDE DEF m
      <4> QED  BY <3>1, ConcatProperties
    <3>3. kept \in Nat /\ kept <= 1 + Len(recent)
      BY <3>1, <3>2, BoundsAssumption
    <3>4. recent' = SubSeq(updated, 1, kept)
      BY <2>2 DEF HandleMessage, RecentAfter
    <3>5. /\ Len(recent') = kept
          /\ \A i \in 1 .. kept : recent'[i] = updated[i]
      <4> HIDE DEF updated, kept
      <4>1. \A i \in 1 .. kept : updated[i] \in Jobs
        BY <3>2, <3>3, <3>1, ElementOfSeq
      <4> QED  BY <3>3, <3>4, <4>1, SubSeqProperties
    <3>6. PICK i \in 1 .. kept : updated[i] = j
      BY <1>4, <3>5
    <3> HIDE DEF kept
    <3>7. CASE i = 1
      <4>1. m.job = j
        BY <3>1, <3>2, <3>6, <3>7
      <4>2. inbox[1] = [kind |-> "completed", job |-> j]
        BY <1>2, <2>2, <4>1 DEF Messages
      <4> QED  BY <1>1, <4>2 DEF Shown
    <3>8. CASE i # 1
      <4>1. i - 1 \in 1 .. Len(recent) /\ recent[i - 1] = j
        BY <3>1, <3>2, <3>3, <3>6, <3>8
      <4> QED  BY <4>1 DEF Shown
    <3> QED  BY <3>7, <3>8
  <2> QED  BY <2>1, <2>2
<1> QED  BY <1>3, <1>4 DEF Shown

\* What a step must respect: stored results stay, and nothing else becomes
\* completed, shown or about to be completed.
LEMMA ResultsFrame ==
  ASSUME ResultsInv,
         results \subseteq results',
         \A j \in Jobs : run'[j] = "completed" => run[j] = "completed" \/ j \in results',
         \A j \in Jobs : Shown(j)' => Shown(j) \/ j \in results',
         \A w \in Executors :
           executor'[w].pc \in {"persisted", "completed"}
           => executor'[w].job \in results' \/ executor'[w] = executor[w]
  PROVE  ResultsInv'
BY DEF ResultsInv, CompletedJobsHaveResults

LEMMA InitResults == Init => ResultsInv
BY DEF Init, ResultsInv, CompletedJobsHaveResults, Shown, Idle

\* The steps of a worker within its job, the only ones that complete it.
LEMMA ExecuteKeepsResults ==
  ASSUME TypeOK, ResultsInv, NEW w \in Executors, Execute(w) \/ Stop(w)
  PROVE  ResultsInv'
<1> USE DEF At
<1>1. executor[w] # Idle
  BY DEF Execute, AnnounceStart, MarkRunning, DirectAnnounce, DirectMark,
         DirectStart, DirectAborts, Persist, Complete, AnnounceCompletion, Raise,
         RaiseLate, CommitFailure, CommitFailureFails, AnnounceFailure,
         AnnounceFailureFails, WorkerDies, Escape, Stop, QueuedSteps, Idle
<1>2. executor[w].job \in Jobs
  BY <1>1, MoveTyped DEF BusySteps, SharedSteps
<1>3. executor \in [Executors -> ExecutorType]
  BY DEF TypeOK
<1>4. \A v \in Executors : \A pc : Go(w, pc) =>
        /\ executor'[v] = [executor EXCEPT ![w].pc = pc][v]
        /\ executor'[v].job = executor[v].job
        /\ executor'[v].pc = IF v = w THEN pc ELSE executor[v].pc
        /\ v # w => executor'[v] = executor[v]
  BY <1>3 DEF Go, ExecutorType
<1>5. Leave(w) \/ Abandon(w) =>
        \A v \in Executors : executor'[v] = IF v = w THEN Idle ELSE executor[v]
  BY <1>3 DEF Leave, Abandon
<1>6. UNCHANGED browser => \A j \in Jobs : Shown(j)' => Shown(j)
  BY DEF browser, Shown
<1>7. CASE AnnounceStart(w) \/ DirectAnnounce(w) \/ DirectStart(w)
  <2>1. PICK kind \in {"started", "submitted"} : Publish(kind, executor[w].job)
    BY <1>7 DEF AnnounceStart, DirectAnnounce, DirectStart
  <2>2. \A j \in Jobs : Shown(j)' => Shown(j)
    BY <1>2, <2>1, ShownByPublish DEF Kinds
  <2>3. run' = run /\ results' = results
    BY <1>7 DEF AnnounceStart, DirectAnnounce, DirectStart
  <2>4. \A v \in Executors : executor'[v].pc \in {"persisted", "completed"}
                            => executor'[v] = executor[v]
    BY <1>4, <1>7 DEF AnnounceStart, DirectAnnounce, DirectStart
  <2> QED  BY <2>2, <2>3, <2>4, ResultsFrame
<1>8. CASE AnnounceFailure(w)
  <2>1. \A j \in Jobs : Shown(j)' => Shown(j)
    BY <1>2, <1>8, ShownByPublish DEF AnnounceFailure, Kinds
  <2>2. \A v \in Executors : executor'[v].pc \in {"persisted", "completed"}
                            => executor'[v] = executor[v]
    BY <1>5, <1>8 DEF AnnounceFailure, Idle
  <2> QED  BY <1>8, <2>1, <2>2, ResultsFrame DEF AnnounceFailure
<1>9. CASE AnnounceCompletion(w)
  <2>1. executor[w].job \in results
    BY <1>9 DEF AnnounceCompletion, ResultsInv
  <2>2. \A j \in Jobs : Shown(j)' => Shown(j) \/ j \in results
    BY <1>2, <1>9, <2>1, ShownByPublish DEF AnnounceCompletion, Kinds
  <2>3. \A v \in Executors : executor'[v].pc \in {"persisted", "completed"}
                            => executor'[v] = executor[v]
    BY <1>5, <1>9 DEF AnnounceCompletion, Idle
  <2> QED  BY <1>9, <2>2, <2>3, ResultsFrame DEF AnnounceCompletion
<1>10. CASE MarkRunning(w) \/ DirectMark(w) \/ CommitFailure(w)
  <2>1. \A j \in Jobs : run'[j] = "completed" => run[j] = "completed"
    BY <1>10 DEF MarkRunning, DirectMark, CommitFailure, SetStatus, TypeOK
  <2>2. \A v \in Executors : executor'[v].pc \in {"persisted", "completed"}
                            => executor'[v] = executor[v]
    <3>1. PICK pc \in {"running", "marked", "failed"} : Go(w, pc)
      BY <1>10 DEF MarkRunning, DirectMark, CommitFailure
    <3> QED  BY <1>4, <3>1
  <2>3. results' = results /\ UNCHANGED browser
    BY <1>10 DEF MarkRunning, DirectMark, CommitFailure
  <2> QED  BY <1>6, <2>1, <2>2, <2>3, ResultsFrame
<1>11. CASE Persist(w)
  <2>1. results' = results \cup {executor[w].job}
    BY <1>11 DEF Persist
  <2>2. \A v \in Executors : executor'[v].job \in results' \/ executor'[v] = executor[v]
    BY <1>4, <1>11, <2>1 DEF Persist
  <2> QED  BY <1>6, <1>11, <2>1, <2>2, ResultsFrame DEF Persist
<1>12. CASE Complete(w)
  <2>1. executor[w].job \in results /\ results' = results
    BY <1>12 DEF Complete, ResultsInv
  <2>2. \A j \in Jobs : run'[j] = "completed" => run[j] = "completed" \/ j \in results
    BY <1>12, <2>1 DEF Complete, SetStatus, TypeOK
  <2>3. \A v \in Executors : executor'[v].job \in results \/ executor'[v] = executor[v]
    BY <1>4, <1>12, <2>1 DEF Complete
  <2> QED  BY <1>6, <1>12, <2>1, <2>2, <2>3, ResultsFrame DEF Complete
<1>13. CASE Raise(w) \/ RaiseLate(w) \/ CommitFailureFails(w) \/ DirectAborts(w)
            \/ AnnounceFailureFails(w) \/ Stop(w)
  <2>1. run' = run /\ results' = results /\ UNCHANGED browser
    BY <1>13 DEF Raise, RaiseLate, CommitFailureFails, DirectAborts,
                 AnnounceFailureFails, WorkerDies, Escape, Stop
  <2>2. Go(w, "failing") \/ Unfinished(w) \/ Leave(w) \/ Abandon(w)
    BY <1>13 DEF Raise, RaiseLate, CommitFailureFails, DirectAborts,
                 AnnounceFailureFails, WorkerDies, Escape, Stop
  <2>3. \A v \in Executors : executor'[v].pc \in {"persisted", "completed"}
                            => executor'[v] = executor[v]
    <3>1. CASE Leave(w) \/ Abandon(w)
      BY <1>5, <3>1 DEF Idle
    <3>2. CASE Go(w, "failing") \/ Unfinished(w)
      BY <1>3, <3>2 DEF Go, Unfinished, ExecutorType
    <3> QED  BY <2>2, <3>1, <3>2
  <2>4. \A j \in Jobs : Shown(j)' => Shown(j)
    BY <1>6, <2>1
  <2> QED  BY <2>1, <2>3, <2>4, ResultsFrame
<1> QED  BY <1>7, <1>8, <1>9, <1>10, <1>11, <1>12, <1>13 DEF Execute

\* Everybody else.
LEMMA OthersKeepResults ==
  ASSUME TypeOK, ResultsInv, Next, ~ \E w \in Executors : Execute(w) \/ Stop(w)
  PROVE  ResultsInv'
<1>1. CASE \E j \in Jobs : Submit(j) \/ Serve(j)
  <2>1. PICK j \in Jobs : Submit(j) \/ Serve(j)
    BY <1>1
  <2>2. results' = results /\ executor' = executor
    BY <2>1 DEF Submit, Serve, Enqueue, EnqueueFails, Announce, AnnounceFails,
                Respond, Request, Advance
  <2>3. \A k \in Jobs : run'[k] = "completed" => run[k] = "completed"
    BY <2>1 DEF Submit, Serve, Enqueue, EnqueueFails, Announce, AnnounceFails,
                Respond, TypeOK
  <2>4. \A k \in Jobs : Shown(k)' => Shown(k)
    <3>1. CASE Announce(j)
      BY <3>1, ShownByPublish DEF Announce, Kinds
    <3>2. CASE ~ Announce(j)
      BY <2>1, <3>2 DEF Submit, Serve, Enqueue, EnqueueFails, AnnounceFails,
                        Respond, browser, Shown
    <3> QED  BY <3>1, <3>2
  <2> QED  BY <2>2, <2>3, <2>4, ResultsFrame
<1>2. CASE \E w \in Executors, j \in Jobs : Dequeue(w, j) \/ DirectSubmit(w, j)
  <2>1. PICK w \in Executors, j \in Jobs : Dequeue(w, j) \/ DirectSubmit(w, j)
    BY <1>2
  <2>2. results' = results /\ \A k \in Jobs : Shown(k)' = Shown(k)
    BY <2>1 DEF Dequeue, DirectSubmit, browser, Shown
  <2>3. \A k \in Jobs : run'[k] = "completed" => run[k] = "completed"
    BY <2>1 DEF Dequeue, DirectSubmit, SetStatus, TypeOK
  <2>4. \A v \in Executors : executor'[v].pc \in {"persisted", "completed"}
                            => executor'[v] = executor[v]
    BY <2>1 DEF Dequeue, DirectSubmit, TypeOK
  <2> QED  BY <2>2, <2>3, <2>4, ResultsFrame
<1>3. CASE \E u \in Users : Cancel(u) \/ \E j \in Jobs : BeginCancel(u, j)
  <2>1. PICK u \in Users : Cancel(u) \/ \E j \in Jobs : BeginCancel(u, j)
    BY <1>3
  <2>2. results' = results /\ executor' = executor
    BY <2>1 DEF Cancel, BeginCancel, RemoveJob, RemoveFails, CommitCancel,
                AnnounceCancel, AnnounceCancelFails, Cancelling, CancelDone
  <2>3. \A k \in Jobs : run'[k] = "completed" => run[k] = "completed"
    BY <2>1 DEF Cancel, BeginCancel, RemoveJob, RemoveFails, CommitCancel,
                AnnounceCancel, AnnounceCancelFails, Cancelling, CancelDone,
                SetStatus, TypeOK
  <2>4. \A k \in Jobs : Shown(k)' => Shown(k)
    <3>1. CASE AnnounceCancel(u)
      <4>1. canceller[u].job \in Jobs
        BY <3>1, CancelTyped DEF AnnounceCancel, CancelDone
      <4> QED  BY <3>1, <4>1, ShownByPublish DEF AnnounceCancel, Kinds
    <3>2. CASE ~ AnnounceCancel(u)
      BY <2>1, <3>2 DEF Cancel, BeginCancel, RemoveJob, RemoveFails, CommitCancel,
                        AnnounceCancelFails, browser, Shown
    <3> QED  BY <3>1, <3>2
  <2> QED  BY <2>2, <2>3, <2>4, ResultsFrame
<1>4. CASE ApiDies \/ Disconnect
  <2>1. /\ results' = results /\ executor' = executor /\ run' = run
        /\ inbox' = <<>> /\ recent' = recent
    BY <1>4 DEF ApiDies, Disconnect
  <2>2. \A k \in Jobs : Shown(k)' => Shown(k)
    BY <2>1 DEF Shown
  <2> QED  BY <2>1, <2>2, ResultsFrame
<1>5. CASE Recover
  BY <1>5, ResultsFrame DEF Recover, SelectStale, FailStale, browser, Shown, TypeOK
<1>6. CASE Reconnect
  BY <1>6, ResultsFrame DEF Reconnect, Shown
<1>7. CASE HandleMessage
  <2>1. \A k \in Jobs : Shown(k)' => Shown(k)
    BY <1>7, ShownByHandling
  <2> QED  BY <1>7, <2>1, ResultsFrame DEF HandleMessage
<1> QED  BY <1>1, <1>2, <1>3, <1>4, <1>5, <1>6, <1>7 DEF Next, Executors

\* A job that is recorded as completed, announced as completed or listed as
\* recently completed has stored its results, whatever fails and whoever
\* cancels: the worker holds the order of its commits.
THEOREM ResultsBeforeCompletion == Spec => []CompletedJobsHaveResults
<1>1. Init => ResultsInv
  BY InitResults
<1>2. TypeOK /\ ResultsInv /\ [Next]_vars => ResultsInv'
  <2> SUFFICES ASSUME TypeOK, ResultsInv, [Next]_vars  PROVE ResultsInv'
    OBVIOUS
  <2>1. CASE \E w \in Executors : Execute(w) \/ Stop(w)
    BY <2>1, ExecuteKeepsResults
  <2>2. CASE Next /\ ~ \E w \in Executors : Execute(w) \/ Stop(w)
    BY <2>2, OthersKeepResults
  <2>3. CASE UNCHANGED vars
    BY <2>3 DEF vars, browser, ResultsInv, CompletedJobsHaveResults, Shown
  <2> QED  BY <2>1, <2>2, <2>3
<1>3. ResultsInv => CompletedJobsHaveResults
  BY DEF ResultsInv
<1> QED  BY <1>1, <1>2, <1>3, TypesOfJobs, PTL DEF Spec

-----------------------------------------------------------------------------
(* A job at rest. *)

\* A settled job stays settled if nobody takes it up and its row is left alone.
LEMMA RestFrame ==
  ASSUME NEW j \in Jobs, Settled(j),
         run'[j] = run[j],
         request'[j] \in {"none", "announced", "done"},
         j \notin queue',
         \A w \in Executors : executor'[w].job # j,
         \A u \in Users : canceller'[u].job # j,
         j \notin stale'
  PROVE  Settled(j)' /\ run'[j] = run[j]
BY DEF Settled, Executed

\* Requests: the one that submitted the job has nothing left but its response.
LEMMA RequestsLetRest ==
  ASSUME TypeOK, NEW j \in Jobs, Settled(j), NEW k \in Jobs, Submit(k) \/ Serve(k)
  PROVE  Settled(j)' /\ run'[j] = run[j]
<1>1. run[j] # "absent" /\ request[j] \in {"none", "announced", "done"} /\ j \notin queue
  BY DEF Settled, TerminalStatuses
<1>2. UNCHANGED <<executor, canceller, stale>>
  BY DEF Submit, Serve, Enqueue, EnqueueFails, Announce, AnnounceFails, Respond,
         Request, Advance, server
<1>3. run'[j] = run[j] /\ request'[j] \in {"none", "announced", "done"}
  BY <1>1 DEF Submit, Serve, Enqueue, EnqueueFails, Announce, AnnounceFails,
              Respond, Request, Advance, TypeOK
<1>4. j \notin queue'
  BY <1>1 DEF Submit, Serve, Enqueue, EnqueueFails, Announce, AnnounceFails,
              Respond, Request, Advance, TypeOK
<1> QED  BY <1>2, <1>3, <1>4, RestFrame DEF Settled, Executed

\* Workers: each is in another job, and takes only queued or new ones.
LEMMA WorkersLetRest ==
  ASSUME TypeOK, NEW j \in Jobs, Settled(j), NEW w \in Executors,
         \/ Execute(w) \/ Stop(w)
         \/ \E k \in Jobs : Dequeue(w, k) \/ DirectSubmit(w, k)
  PROVE  Settled(j)' /\ run'[j] = run[j]
<1>1. /\ run[j] # "absent" /\ j \notin queue
      /\ \A v \in Executors : executor[v].job # j
  BY DEF Settled, Executed, TerminalStatuses
<1>2. CASE \E k \in Jobs : Dequeue(w, k) \/ DirectSubmit(w, k)
  <2>1. PICK k \in Jobs : Dequeue(w, k) \/ DirectSubmit(w, k)
    BY <1>2
  <2>2. k # j
    BY <1>1, <2>1 DEF Dequeue, DirectSubmit
  <2>3. \A v \in Executors : executor'[v].job # j
    BY <1>1, <2>1, <2>2 DEF Dequeue, DirectSubmit, TypeOK
  <2>4. run'[j] = run[j] /\ j \notin queue'
    BY <1>1, <2>1, <2>2 DEF Dequeue, DirectSubmit, SetStatus, TypeOK
  <2>5. UNCHANGED <<request, canceller, stale>>
    BY <2>1 DEF Dequeue, DirectSubmit, requests, server
  <2> QED  BY <2>3, <2>4, <2>5, RestFrame DEF Settled
<1>3. CASE Execute(w) \/ Stop(w)
  <2>1. Moves(w)
    BY <1>3 DEF Moves, Execute, AnnounceStart, MarkRunning, DirectAnnounce, DirectMark,
         DirectStart, DirectAborts, Persist, Complete, AnnounceCompletion, Raise,
         RaiseLate, CommitFailure, CommitFailureFails, AnnounceFailure,
         AnnounceFailureFails, WorkerDies, Escape, Stop, BusySteps, QueuedSteps,
         DirectSteps, SharedSteps
  <2>2. UNCHANGED <<queue, request, canceller, stale>>
    BY <2>1 DEF Moves, Go, Leave, Abandon, Unfinished, requests, server
  <2>3. \A v \in Executors : executor'[v].job # j
    <3>1. CASE Leave(w) \/ Abandon(w)
      BY <1>1, <3>1, JobsAssumption DEF Leave, Abandon, Idle, TypeOK
    <3>2. CASE Unfinished(w) \/ \E pc \in BusySteps : Go(w, pc)
      BY <1>1, <3>2 DEF Go, Unfinished, TypeOK, ExecutorType
    <3> QED  BY <2>1, <3>1, <3>2 DEF Moves
  <2>4. UNCHANGED run \/ \E status : SetStatus(executor[w].job, status)
    BY <1>3 DEF Execute, AnnounceStart, MarkRunning, DirectAnnounce, DirectMark,
         DirectStart, DirectAborts, Persist, Complete, AnnounceCompletion, Raise,
         RaiseLate, CommitFailure, CommitFailureFails, AnnounceFailure,
         AnnounceFailureFails, WorkerDies, Escape, Stop
  <2>5. run'[j] = run[j]
    BY <1>1, <2>4 DEF SetStatus, TypeOK
  <2> QED  BY <2>2, <2>3, <2>5, RestFrame DEF Settled
<1> QED  BY <1>2, <1>3

\* Cancel requests: a new one looks at the status first.
LEMMA CancelsLetRest ==
  ASSUME TypeOK, NEW j \in Jobs, Settled(j), NEW u \in Users,
         Cancel(u) \/ \E k \in Jobs : BeginCancel(u, k)
  PROVE  Settled(j)' /\ run'[j] = run[j]
<1>1. /\ run[j] \in TerminalStatuses /\ j \notin queue
      /\ \A v \in Users : canceller[v].job # j
  BY DEF Settled
<1>2. UNCHANGED <<request, executor, stale>>
  BY DEF Cancel, BeginCancel, RemoveJob, RemoveFails, CommitCancel,
         AnnounceCancel, AnnounceCancelFails, Cancelling, CancelDone, server
<1>3. j \notin queue'
  BY <1>1 DEF Cancel, BeginCancel, RemoveJob, RemoveFails, CommitCancel,
              AnnounceCancel, AnnounceCancelFails, CancelDone
<1>4. run'[j] = run[j]
  BY <1>1 DEF Cancel, BeginCancel, RemoveJob, RemoveFails, CommitCancel,
              AnnounceCancel, AnnounceCancelFails, CancelDone, SetStatus, TypeOK
<1>5. \A v \in Users : canceller'[v].job # j
  <2>1. CASE \E k \in Jobs : BeginCancel(u, k)
    BY <1>1, <2>1
       DEF BeginCancel, Cancellable, OpenStatuses, TerminalStatuses, TypeOK
  <2>2. CASE RemoveJob(u) \/ RemoveFails(u) \/ CommitCancel(u)
    BY <1>1, <2>2
       DEF RemoveJob, RemoveFails, CommitCancel, Cancelling, TypeOK, CancellerType
  <2>3. CASE AnnounceCancel(u) \/ AnnounceCancelFails(u)
    BY <1>1, <2>3, JobsAssumption
       DEF AnnounceCancel, AnnounceCancelFails, CancelDone, Idle, TypeOK
  <2> QED  BY <2>1, <2>2, <2>3 DEF Cancel
<1> QED  BY <1>2, <1>3, <1>4, <1>5, RestFrame DEF Settled, Executed

\* The server: recovery selects open rows only.
LEMMA ServerLetsRest ==
  ASSUME TypeOK, NEW j \in Jobs, Settled(j), ApiDies \/ Recover
  PROVE  Settled(j)' /\ run'[j] = run[j]
<1>1. UNCHANGED <<queue, executor>>
  BY DEF ApiDies, Recover, SelectStale, FailStale
<1>2. run'[j] = run[j] /\ j \notin stale'
  BY DEF ApiDies, Recover, SelectStale, FailStale, Settled, StaleStatuses,
         OpenStatuses, TerminalStatuses, TypeOK
<1>3. request'[j] \in {"none", "announced", "done"}
  BY DEF ApiDies, Recover, SelectStale, FailStale, requests, Settled
<1>4. \A u \in Users : canceller'[u].job # j
  BY JobsAssumption
     DEF ApiDies, Recover, SelectStale, FailStale, requests, Settled, Idle
<1> QED  BY <1>1, <1>2, <1>3, <1>4, RestFrame DEF Settled, Executed

\* A job that has ended and that nobody holds keeps its outcome for ever: no
\* later cancel, restart, recovery, fault or other job can reach it.
THEOREM OutcomesRest == Spec => SettledJobsRest
<1>1. TypeOK /\ [Next]_vars
      => [\A j \in Jobs : Settled(j) => Settled(j)' /\ run'[j] = run[j]]_vars
  <2> SUFFICES ASSUME TypeOK, Next, NEW j \in Jobs, Settled(j)
               PROVE  Settled(j)' /\ run'[j] = run[j]
    OBVIOUS
  <2>1. CASE \E k \in Jobs : Submit(k) \/ Serve(k)
    BY <2>1, RequestsLetRest
  <2>2. CASE \/ \E w \in Workers, k \in Jobs : Dequeue(w, k)
             \/ \E a \in Agents, k \in Jobs : DirectSubmit(a, k)
             \/ \E w \in Executors : Execute(w) \/ Stop(w)
    <3>1. Workers \subseteq Executors /\ Agents \subseteq Executors
      BY DEF Executors
    <3> QED  BY <2>2, <3>1, WorkersLetRest
  <2>3. CASE \E u \in Users : Cancel(u) \/ \E k \in Jobs : BeginCancel(u, k)
    BY <2>3, CancelsLetRest
  <2>4. CASE ApiDies \/ Recover
    BY <2>4, ServerLetsRest
  <2>5. CASE Disconnect \/ Reconnect \/ HandleMessage
    BY <2>5 DEF Disconnect, Reconnect, HandleMessage, requests, server, Settled,
                Executed
  <2> QED  BY <2>1, <2>2, <2>3, <2>4, <2>5 DEF Next
<1> QED  BY <1>1, TypesOfJobs, PTL DEF Spec, SettledJobsRest

-----------------------------------------------------------------------------
(* The screen agrees with the rows while nothing goes wrong and nobody cancels. *)

Calm == Prompt /\ faults = 0 /\ cancels = 0

\* What the row of a job can say while a worker stands at a step of it.
StatusesAt(pc) ==
  IF pc \in {"begin", "started", "saved", "submitted"} THEN {"pending"}
  ELSE IF pc \in {"marked", "running", "persisted"} THEN {"running"}
  ELSE IF pc = "completed" THEN {"completed"}
  ELSE IF pc = "failed" THEN {"failed"}
  ELSE OpenStatuses

\* A job is in one place at a time: with its request, in the queue, or with one
\* worker.
JobOrder(j) ==
  /\ run[j] = "absent" => request[j] = "none" /\ j \notin queue /\ ~ Executed(j)
  /\ j \in queue => /\ run[j] = "pending" /\ ~ Executed(j)
                    /\ request[j] \in {"queued", "announced", "done"}
  /\ request[j] = "saved" => run[j] = "pending" /\ j \notin queue /\ ~ Executed(j)
  /\ request[j] \in {"queued", "announced"} => j \in queue

CalmOrder ==
  /\ online /\ api = "up"
  /\ \A u \in Users : canceller[u] = Idle
  /\ \A w, v \in Executors : executor[w].job = executor[v].job /\ executor[w] # Idle => w = v
  /\ \A w \in Executors : executor[w] # Idle => run[executor[w].job] \in StatusesAt(executor[w].pc)
  /\ \A j \in Jobs : JobOrder(j)

Submission(j) == [kind |-> "submitted", job |-> j]

\* The messages about a job that are on their way: none; none that closes it;
\* one that opens it, unless it is open; and one that closes it for good.
Silent(j)   == \A i \in 1 .. Len(inbox) : inbox[i].job # j
Unclosed(j) == \A i \in 1 .. Len(inbox) : inbox[i].job = j => inbox[i].kind \notin Closing
Opened(j)   == active[j] # "none" \/ \E i \in 1 .. Len(inbox) : inbox[i] = Submission(j)
Over(j) ==
  \/ active[j] = "none" /\ \A i \in 1 .. Len(inbox) : inbox[i] # Submission(j)
  \/ \E i \in 1 .. Len(inbox) :
       /\ inbox[i].job = j /\ inbox[i].kind \in Closing
       /\ \A k \in i + 1 .. Len(inbox) : inbox[k] # Submission(j)

\* A job the browser has not been told of.
Unsubmitted(j) ==
  \/ request[j] \in {"saved", "queued", "announced"}
  \/ \E w \in Executors : executor[w].job = j /\ executor[w].pc = "saved"

Display(j) ==
  /\ run[j] = "absent" => Silent(j) /\ active[j] = "none"
  /\ run[j] \in OpenStatuses => Unclosed(j)
  /\ run[j] \in OpenStatuses /\ ~ Unsubmitted(j) => Opened(j)
  /\ run[j] \in TerminalStatuses /\ ~ Unannounced(j) => Over(j)

CalmInv == Calm => CalmOrder /\ \A j \in Jobs : Display(j)
\* A message is published, about j or about another job.
LEMMA PublishedDisplay ==
  ASSUME inbox \in Seq(Messages), NEW m \in Messages, inbox' = Append(inbox, m),
         active' = active, NEW j \in Jobs
  PROVE  /\ m.job # j => /\ Silent(j) => Silent(j)'
                         /\ Unclosed(j) => Unclosed(j)'
                         /\ Over(j) => Over(j)'
         /\ Opened(j) => Opened(j)'
         /\ m.kind \notin Closing /\ Unclosed(j) => Unclosed(j)'
         /\ m = Submission(j) => Opened(j)'
         /\ m.job = j /\ m.kind \in Closing => Over(j)'
<1>1. /\ Len(inbox) \in Nat /\ Len(inbox') = Len(inbox) + 1
      /\ \A i \in 1 .. Len(inbox) : inbox'[i] = inbox[i]
      /\ inbox'[Len(inbox) + 1] = m
  BY AppendProperties, LenProperties
<1>2. \A i \in 1 .. Len(inbox') : i \in 1 .. Len(inbox) \/ i = Len(inbox) + 1
  BY <1>1
<1>3. Len(inbox) + 1 \in 1 .. Len(inbox') /\ 1 .. Len(inbox) \subseteq 1 .. Len(inbox')
  BY <1>1
<1>4. ASSUME m.job # j
      PROVE  /\ Silent(j) => Silent(j)'
             /\ Unclosed(j) => Unclosed(j)'
  BY <1>1, <1>2, <1>4 DEF Silent, Unclosed
<1>5. ASSUME m.job # j, Over(j)
      PROVE  Over(j)'
  <2>1. m # Submission(j)
    BY <1>5 DEF Submission
  <2>2. CASE active[j] = "none" /\ \A i \in 1 .. Len(inbox) : inbox[i] # Submission(j)
    <3>1. Submission(j)' = Submission(j)
      BY DEF Submission
    <3>2. \A i \in 1 .. Len(inbox') : inbox'[i] # Submission(j)
      BY <1>1, <1>2, <2>1, <2>2
    <3> QED
      BY <2>2, <3>1, <3>2 DEF Over
  <2>3. CASE \E i \in 1 .. Len(inbox) :
               /\ inbox[i].job = j /\ inbox[i].kind \in Closing
               /\ \A k \in i + 1 .. Len(inbox) : inbox[k] # Submission(j)
    <3>1. PICK i \in 1 .. Len(inbox) :
                 /\ inbox[i].job = j /\ inbox[i].kind \in Closing
                 /\ \A k \in i + 1 .. Len(inbox) : inbox[k] # Submission(j)
      BY <2>3
    <3>2. i \in 1 .. Len(inbox') /\ inbox'[i].job = j /\ inbox'[i].kind \in Closing
      BY <1>1, <1>3, <3>1
    <3>3. ASSUME NEW k \in i + 1 .. Len(inbox')
          PROVE  inbox'[k] # Submission(j)
      <4>1. k \in i + 1 .. Len(inbox) \/ k = Len(inbox) + 1
        BY <1>1
      <4>2. k \in i + 1 .. Len(inbox) => k \in 1 .. Len(inbox)
        OBVIOUS
      <4> QED
        BY <1>1, <2>1, <3>1, <4>1, <4>2
    <3> QED
      BY <3>2, <3>3 DEF Over, Submission
  <2> QED
    BY <1>5, <2>2, <2>3 DEF Over
<1>6. ASSUME Opened(j)
      PROVE  Opened(j)'
  BY <1>1, <1>3, <1>6 DEF Opened, Submission
<1>7. ASSUME m.kind \notin Closing, Unclosed(j)
      PROVE  Unclosed(j)'
  BY <1>1, <1>2, <1>7 DEF Unclosed
<1>8. ASSUME m = Submission(j)
      PROVE  Opened(j)'
  BY <1>1, <1>3, <1>8 DEF Opened, Submission
<1>9. ASSUME m.job = j, m.kind \in Closing
      PROVE  Over(j)'
  BY <1>1, <1>3, <1>9 DEF Over, Submission
<1> QED
  BY <1>4, <1>5, <1>6, <1>7, <1>8, <1>9

\* The browser handles the first message.
LEMMA HandledDisplay ==
  ASSUME TypeOK, HandleMessage, NEW j \in Jobs
  PROVE  /\ Silent(j) /\ active[j] = "none" => Silent(j)' /\ active'[j] = "none"
         /\ Unclosed(j) => Unclosed(j)'
         /\ Unclosed(j) /\ Opened(j) => Opened(j)'
         /\ Over(j) => Over(j)'
<1> DEFINE m == Head(inbox)
<1>1. /\ inbox \in Seq(Messages) /\ inbox # <<>>
      /\ active' = [active EXCEPT ![m.job] = Entry(m.kind, @)]
      /\ inbox' = Tail(inbox)
  BY DEF TypeOK, HandleMessage
<1>2. /\ Len(inbox) \in Nat \ {0} /\ Len(inbox') = Len(inbox) - 1 /\ m = inbox[1]
      /\ \A i \in 1 .. Len(inbox') : i + 1 \in 1 .. Len(inbox) /\ inbox'[i] = inbox[i + 1]
      /\ m \in Messages /\ 1 \in 1 .. Len(inbox)
  <2>1. Len(inbox) \in Nat \ {0}
    BY <1>1, EmptySeq, LenProperties
  <2>2. Len(inbox') = Len(inbox) - 1 /\ m = inbox[1] /\ m \in Messages
    BY <1>1, HeadTailProperties
  <2>3. \A i \in 1 .. Len(inbox') : i + 1 \in 1 .. Len(inbox) /\ inbox'[i] = inbox[i + 1]
    BY <1>1, <2>1, <2>2, HeadTailProperties
  <2> QED
    BY <2>1, <2>2, <2>3
<1>3. active'[j] = IF m.job = j THEN Entry(m.kind, active[j]) ELSE active[j]
  BY <1>1 DEF TypeOK
<1>4. \A i \in 2 .. Len(inbox) : i - 1 \in 1 .. Len(inbox') /\ inbox'[i - 1] = inbox[i]
  <2> SUFFICES ASSUME NEW i \in 2 .. Len(inbox)
               PROVE  i - 1 \in 1 .. Len(inbox') /\ inbox'[i - 1] = inbox[i]
    OBVIOUS
  <2>1. i - 1 \in 1 .. Len(inbox') /\ (i - 1) + 1 = i
    BY <1>2
  <2> QED
    BY <1>2, <2>1
<1> HIDE DEF m
<1>5. ASSUME Silent(j), active[j] = "none"
      PROVE  Silent(j)' /\ active'[j] = "none"
  BY <1>2, <1>3, <1>5 DEF Silent
<1>6. ASSUME Unclosed(j)
      PROVE  Unclosed(j)'
  BY <1>2, <1>6 DEF Unclosed
<1>7. ASSUME Unclosed(j), Opened(j)
      PROVE  Opened(j)'
  <2>1. m.job = j => m.kind \notin Closing
    BY <1>2, <1>7 DEF Unclosed
  <2>2. CASE active[j] # "none"
    BY <1>3, <2>1, <2>2 DEF Opened, Entry
  <2>3. CASE active[j] = "none"
    <3>1. PICK i \in 1 .. Len(inbox) : inbox[i] = Submission(j)
      BY <1>7, <2>3 DEF Opened
    <3>2. CASE i = 1
      BY <1>2, <1>3, <2>3, <3>1, <3>2 DEF Opened, Entry, Submission
    <3>3. CASE i # 1
      <4>1. i \in 2 .. Len(inbox)
        BY <3>3
      <4>2. i - 1 \in 1 .. Len(inbox') /\ inbox'[i - 1] = Submission(j)
        BY <1>4, <3>1, <4>1
      <4> QED
        BY <4>2 DEF Opened, Submission
    <3> QED
      BY <3>2, <3>3
  <2> QED
    BY <2>2, <2>3
<1>8. ASSUME Over(j)
      PROVE  Over(j)'
  <2>1. ASSUME active'[j] = "none", \A i \in 2 .. Len(inbox) : inbox[i] # Submission(j)
        PROVE  Over(j)'
    <3>1. \A i \in 1 .. Len(inbox') : inbox'[i] # Submission(j)
      <4> TAKE i \in 1 .. Len(inbox')
      <4>1. i + 1 \in 2 .. Len(inbox) /\ inbox'[i] = inbox[i + 1]
        BY <1>2
      <4> QED
        BY <2>1, <4>1
    <3> QED
      BY <2>1, <3>1 DEF Over, Submission
  <2>2. CASE active[j] = "none" /\ \A i \in 1 .. Len(inbox) : inbox[i] # Submission(j)
    <3>1. m.job = j => m.kind # "submitted"
      <4>1. m = [kind |-> m.kind, job |-> m.job] /\ m # Submission(j)
        BY <1>2, <2>2 DEF Messages
      <4> QED
        BY <4>1 DEF Submission
    <3>2. active'[j] = "none"
      BY <1>3, <2>2, <3>1 DEF Entry
    <3> QED
      BY <2>1, <2>2, <3>2
  <2>3. CASE \E i \in 1 .. Len(inbox) :
               /\ inbox[i].job = j /\ inbox[i].kind \in Closing
               /\ \A k \in i + 1 .. Len(inbox) : inbox[k] # Submission(j)
    <3>1. PICK i \in 1 .. Len(inbox) :
                 /\ inbox[i].job = j /\ inbox[i].kind \in Closing
                 /\ \A k \in i + 1 .. Len(inbox) : inbox[k] # Submission(j)
      BY <2>3
    <3>2. CASE i = 1
      <4>1. active'[j] = "none"
        BY <1>2, <1>3, <3>1, <3>2 DEF Entry, Closing
      <4> QED
        BY <2>1, <3>1, <3>2, <4>1
    <3>3. CASE i # 1
      <4>1. i - 1 \in 1 .. Len(inbox') /\ inbox'[i - 1] = inbox[i]
        BY <1>4, <3>3
      <4>2. \A k \in (i - 1) + 1 .. Len(inbox') : inbox'[k] # Submission(j)
        <5> TAKE k \in (i - 1) + 1 .. Len(inbox')
        <5>1. k \in 1 .. Len(inbox') /\ k + 1 \in i + 1 .. Len(inbox)
          BY <1>2
        <5> QED
          BY <1>2, <3>1, <5>1
      <4> QED
        BY <3>1, <4>1, <4>2 DEF Over, Submission
    <3> QED
      BY <3>2, <3>3
  <2> QED
    BY <1>8, <2>2, <2>3 DEF Over
<1> QED
  BY <1>5, <1>6, <1>7, <1>8
\* A step that publishes nothing shows nothing new of a job whose row is as open
\* or ended as before.
LEMMA UnpublishedDisplay ==
  ASSUME NEW j \in Jobs, Display(j), UNCHANGED <<inbox, active>>,
         \/ run'[j] = run[j]
         \/ run[j] \in OpenStatuses /\ run'[j] \in OpenStatuses
         \/ run[j] = "absent" /\ run'[j] = "pending" /\ Unsubmitted(j)'
         \/ run[j] \in OpenStatuses /\ run'[j] \in TerminalStatuses /\ Unannounced(j)',
         run[j] \in OpenStatuses /\ Unsubmitted(j) => Unsubmitted(j)',
         run'[j] \in TerminalStatuses /\ Unannounced(j) => Unannounced(j)'
  PROVE  Display(j)'
<1>1. Silent(j) => Unclosed(j)
  BY DEF Silent, Unclosed
<1>2. /\ Silent(j)' <=> Silent(j)
      /\ Unclosed(j)' <=> Unclosed(j)
      /\ Opened(j)' <=> Opened(j)
      /\ Over(j)' <=> Over(j)
  BY DEF Silent, Unclosed, Opened, Over, Submission
<1>3. CASE run'[j] = run[j]
  BY <1>2, <1>3 DEF Display, OpenStatuses, TerminalStatuses
<1>4. CASE run[j] \in OpenStatuses /\ run'[j] \in OpenStatuses
  BY <1>2, <1>4 DEF Display, OpenStatuses, TerminalStatuses
<1>5. CASE run[j] = "absent" /\ run'[j] = "pending" /\ Unsubmitted(j)'
  BY <1>1, <1>2, <1>5 DEF Display, OpenStatuses, TerminalStatuses
<1>6. CASE run[j] \in OpenStatuses /\ run'[j] \in TerminalStatuses /\ Unannounced(j)'
  BY <1>2, <1>6 DEF Display, OpenStatuses, TerminalStatuses
<1> QED
  BY <1>3, <1>4, <1>5, <1>6

\* A worker that holds a job is the only one, and the job is nowhere else.
LEMMA HeldJob ==
  ASSUME TypeOK, CalmOrder, NEW w \in Executors, executor[w] # Idle
  PROVE  LET j == executor[w].job IN
         /\ j \in Jobs /\ executor[w].pc \in BusySteps
         /\ j \notin queue /\ request[j] \in {"none", "announced", "done"}
         /\ request[j] # "announced"
         /\ run[j] \in StatusesAt(executor[w].pc)
         /\ \A v \in Executors : executor[v].job = j => v = w
<1>1. executor[w] \in [job : Jobs, pc : BusySteps]
  BY DEF TypeOK, ExecutorType, Idle
<1> DEFINE j == executor[w].job
<1>2. j \in Jobs /\ executor[w].pc \in BusySteps /\ Executed(j)
  BY <1>1 DEF Executed
<1>3. request[j] \in RequestSteps
  BY <1>2 DEF TypeOK
<1>4. JobOrder(j)
  BY <1>2 DEF CalmOrder
<1>5. j \notin queue /\ request[j] \in {"none", "done"}
  BY <1>2, <1>3, <1>4 DEF JobOrder, RequestSteps
<1>6. \A v \in Executors : executor[v].job = j => v = w
  BY DEF CalmOrder
<1> QED
  BY <1>2, <1>5, <1>6 DEF CalmOrder

\* Other workers' jobs are other jobs; idle workers hold none.
LEMMA HeldIsJob ==
  ASSUME TypeOK, NEW v \in Executors
  PROVE  executor[v].job \in Jobs <=> executor[v] # Idle
  BY JobsAssumption DEF TypeOK, ExecutorType, Idle

\* A worker goes on with its job, or leaves it.
LEMMA MoveOrder ==
  ASSUME TypeOK, TypeOK', CalmOrder, NEW w \in Executors, executor[w] # Idle,
         UNCHANGED <<queue, request, canceller, api, online>>,
         NEW j \in Jobs, j = executor[w].job,
         NEW e, executor' = [executor EXCEPT ![w] = e],
         \/ e.job = j /\ run'[j] \in StatusesAt(e.pc)
         \/ e = Idle,
         NEW s, run' = [run EXCEPT ![j] = s], s # "absent"
  PROVE  CalmOrder'
<1>1. /\ j \notin queue /\ request[j] \notin {"saved", "queued", "announced"}
      /\ \A v \in Executors : executor[v].job = j => v = w
  BY HeldJob
<1>2. /\ executor'[w] = e /\ \A v \in Executors \ {w} : executor'[v] = executor[v]
      /\ run'[j] = s /\ \A x \in Jobs \ {j} : run'[x] = run[x]
  BY DEF TypeOK
<1>3. \A x \in Jobs \ {j} : Executed(x)' => Executed(x)
  <2> SUFFICES ASSUME NEW x \in Jobs \ {j}, NEW v \in Executors, executor'[v].job = x
               PROVE  Executed(x)
    BY DEF Executed
  <2>1. v # w
    BY <1>2, JobsAssumption DEF Idle
  <2> QED
    BY <1>2, <2>1 DEF Executed
<1>4. \A x \in Jobs : JobOrder(x)'
  <2> TAKE x \in Jobs
  <2>1. CASE x = j
    BY <1>1, <1>2, <2>1 DEF JobOrder
  <2>2. CASE x # j
    BY <1>2, <1>3, <2>2 DEF CalmOrder, JobOrder
  <2> QED
    BY <2>1, <2>2
<1>5. ASSUME NEW v \in Executors, executor'[v] # Idle
      PROVE  run'[executor'[v].job] \in StatusesAt(executor'[v].pc)
  <2>1. CASE v = w
    BY <1>2, <1>5, <2>1
  <2>2. CASE v # w
    <3>1. executor'[v] = executor[v] /\ executor[v] # Idle
      BY <1>2, <1>5, <2>2
    <3>2. executor[v].job \in Jobs \ {j}
      BY <1>1, <2>2, <3>1, HeldIsJob
    <3> QED
      BY <1>2, <3>1, <3>2 DEF CalmOrder
  <2> QED
    BY <2>1, <2>2
<1>6. ASSUME NEW v \in Executors, NEW y \in Executors,
             executor'[v].job = executor'[y].job, executor'[v] # Idle
      PROVE  v = y
  <2>1. executor'[v].job \in Jobs
    BY <1>6, HeldIsJob, JobsAssumption DEF TypeOK, ExecutorType, Idle
  <2>2. CASE v = w /\ y # w
    <3>1. e.job = j
      BY <1>2, <1>6, <2>2
    <3> QED
      BY <1>1, <1>2, <1>6, <2>2, <3>1
  <2>3. CASE v # w /\ y = w
    <3>1. e # Idle
      BY <1>2, <1>6, <2>1, <2>3, JobsAssumption DEF Idle
    <3> QED
      BY <1>1, <1>2, <1>6, <2>3, <3>1
  <2>4. CASE v # w /\ y # w
    BY <1>2, <1>6, <2>4 DEF CalmOrder
  <2> QED
    BY <2>2, <2>3, <2>4
<1> QED
  BY <1>4, <1>5, <1>6 DEF CalmOrder

\* What other jobs show of a step of a worker: nothing is left or taken.
LEMMA OthersUnmoved ==
  ASSUME TypeOK, NEW w \in Executors, executor[w] # Idle, UNCHANGED request,
         NEW e, e.job = executor[w].job \/ e = Idle,
         executor' = [executor EXCEPT ![w] = e], NEW x \in Jobs, x # executor[w].job
  PROVE  (Unsubmitted(x)' <=> Unsubmitted(x)) /\ (Unannounced(x)' <=> Unannounced(x))
<1>1. /\ executor'[w].job # x /\ executor[w].job # x
      /\ \A v \in Executors \ {w} : executor'[v] = executor[v]
  BY JobsAssumption DEF TypeOK, Idle
<1> QED
  BY <1>1 DEF Unsubmitted, Unannounced
\* A worker goes on, and perhaps commits, without a word.
LEMMA ExecuteQuietly ==
  ASSUME TypeOK, TypeOK', CalmOrder, \A x \in Jobs : Display(x),
         NEW w \in Executors, executor[w] # Idle, NEW j \in Jobs, j = executor[w].job,
         executor[w].pc \in BusySteps \ {"saved", "completed", "failed"},
         NEW pc \in BusySteps \ {"saved"}, executor' = [executor EXCEPT ![w].pc = pc],
         NEW s \in StatusesAt(pc), run' = [run EXCEPT ![j] = s],
         s \in TerminalStatuses => pc \in {"completed", "failed"},
         UNCHANGED <<queue, request, canceller, api, online, inbox, active>>
  PROVE  CalmOrder' /\ \A x \in Jobs : Display(x)'
<1> DEFINE e == [executor[w] EXCEPT !.pc = pc]
<1>1. e.job = j /\ e.pc = pc /\ executor' = [executor EXCEPT ![w] = e]
  <2>1. executor[w] \in [job : Jobs, pc : BusySteps]
    BY DEF TypeOK, ExecutorType, Idle
  <2> QED
    BY <2>1
<1> HIDE DEF e
<1>2. /\ run[j] \in OpenStatuses
      /\ \A v \in Executors : executor[v].job = j => v = w
      /\ request[j] \notin {"saved", "queued", "announced"}
  BY HeldJob DEF StatusesAt, OpenStatuses, BusySteps, QueuedSteps, DirectSteps, SharedSteps
<1>3. s # "absent" /\ s \in OpenStatuses \cup TerminalStatuses
  BY DEF StatusesAt, OpenStatuses, TerminalStatuses
<1>4. run'[j] = s /\ \A x \in Jobs \ {j} : run'[x] = run[x]
  BY DEF TypeOK
<1>5. CalmOrder'
  <2>1. e.job = j /\ run'[j] \in StatusesAt(e.pc)
    BY <1>1, <1>4
  <2>2. s # "absent"
    BY <1>3
  <2> QED
    BY <1>1, <2>1, <2>2, MoveOrder
<1>6. ASSUME NEW x \in Jobs
      PROVE  Display(x)'
  <2>1. CASE x = j
    <3>1. ~ Unsubmitted(j)
      BY <1>2 DEF Unsubmitted
    <3>2. pc \in {"completed", "failed"} => Unannounced(j)'
      BY <1>1 DEF TypeOK, Unannounced
    <3>3. ~ (s \in OpenStatuses /\ s \in TerminalStatuses)
      BY DEF OpenStatuses, TerminalStatuses
    <3>4. ~ Unannounced(j)
      BY <1>2 DEF Unannounced
    <3> QED
      BY <1>2, <1>3, <1>4, <2>1, <3>1, <3>2, <3>3, <3>4, UnpublishedDisplay
  <2>2. CASE x # j
    <3>1. (Unsubmitted(x)' <=> Unsubmitted(x)) /\ (Unannounced(x)' <=> Unannounced(x))
      <4>1. e.job = executor[w].job /\ x # executor[w].job /\ request' = request
        BY <1>1, <2>2
      <4> QED
        BY <1>1, <4>1, OthersUnmoved, Zenon
    <3> QED
      BY <1>4, <2>2, <3>1, UnpublishedDisplay
  <2> QED
    BY <2>1, <2>2
<1> QED
  BY <1>5, <1>6

\* A worker publishes how far it is.
LEMMA ExecuteAloud ==
  ASSUME TypeOK, TypeOK', CalmOrder, \A x \in Jobs : Display(x),
         NEW w \in Executors, executor[w] # Idle, NEW j \in Jobs, j = executor[w].job,
         NEW kind \in Kinds, Publish(kind, j),
         NEW e, executor' = [executor EXCEPT ![w] = e],
         \/ e = Idle /\ kind \in Closing /\ run[j] \in TerminalStatuses
         \/ /\ e.job = j /\ e.pc # "saved" /\ run[j] \in StatusesAt(e.pc)
            /\ kind \notin Closing /\ run[j] \in OpenStatuses
            /\ executor[w].pc = "saved" => kind = "submitted",
         UNCHANGED <<run, queue, request, canceller, api>>
  PROVE  CalmOrder' /\ \A x \in Jobs : Display(x)'
<1> DEFINE m == [kind |-> kind, job |-> j]
<1>1. /\ inbox' = Append(inbox, m) /\ UNCHANGED <<online, active>>
      /\ m \in Messages /\ m.job = j /\ m.kind = kind
      /\ inbox \in Seq(Messages)
      /\ kind = "submitted" => m = Submission(j)
  BY DEF Publish, CalmOrder, Messages, TypeOK, Submission
<1> HIDE DEF m
<1>2. /\ \A v \in Executors : executor[v].job = j => v = w
      /\ request[j] \notin {"saved", "queued", "announced"}
  BY HeldJob
<1>3. run' = [run EXCEPT ![j] = run[j]] /\ run[j] # "absent" /\ run'[j] = run[j]
  BY DEF TypeOK, OpenStatuses, TerminalStatuses
<1>4. CalmOrder'
  <2>1. e = Idle \/ (e.job = j /\ run'[j] \in StatusesAt(e.pc))
    BY <1>3
  <2> QED
    BY <1>1, <1>3, <2>1, MoveOrder
<1>5. ASSUME NEW x \in Jobs, x # j
      PROVE  Display(x)'
  <2>1. (Unsubmitted(x)' <=> Unsubmitted(x)) /\ (Unannounced(x)' <=> Unannounced(x))
    <3>1. e = Idle \/ e.job = executor[w].job
      OBVIOUS
    <3>2. x # executor[w].job /\ request' = request
      BY <1>5
    <3> QED
      BY <3>1, <3>2, OthersUnmoved, Zenon
  <2>2. /\ Silent(x) => Silent(x)'
        /\ Unclosed(x) => Unclosed(x)'
        /\ Over(x) => Over(x)'
        /\ Opened(x) => Opened(x)'
    BY <1>1, <1>5, PublishedDisplay
  <2> QED
    BY <1>1, <2>1, <2>2 DEF Display
<1>6. Display(j)'
  <2>1. CASE e = Idle /\ kind \in Closing /\ run[j] \in TerminalStatuses
    <3>1. Over(j)'
      BY <1>1, <2>1, PublishedDisplay
    <3> QED
      BY <1>3, <2>1, <3>1 DEF Display, OpenStatuses, TerminalStatuses
  <2>2. CASE /\ e.job = j /\ e.pc # "saved" /\ kind \notin Closing /\ run[j] \in OpenStatuses
             /\ executor[w].pc = "saved" => kind = "submitted"
    <3>1. Unclosed(j)'
      BY <1>1, <2>2, PublishedDisplay DEF Display
    <3>2. Opened(j)'
      <4>1. CASE executor[w].pc = "saved"
        BY <1>1, <2>2, <4>1, PublishedDisplay
      <4>2. CASE executor[w].pc # "saved"
        <5>1. ~ Unsubmitted(j)
          BY <1>2, <4>2 DEF Unsubmitted
        <5> QED
          BY <1>1, <2>2, <5>1, PublishedDisplay DEF Display
      <4> QED
        BY <4>1, <4>2
    <3> QED
      BY <1>3, <2>2, <3>1, <3>2 DEF Display, OpenStatuses, TerminalStatuses
  <2> QED
    BY <2>1, <2>2
<1> QED
  BY <1>4, <1>5, <1>6

LEMMA ExecuteShown ==
  ASSUME TypeOK, TypeOK', CalmOrder, \A x \in Jobs : Display(x),
         NEW w \in Executors, Execute(w), faults' = faults
  PROVE  CalmOrder' /\ \A x \in Jobs : Display(x)'
<1>1. executor[w] # Idle /\ executor[w].pc \in BusySteps
  <2>1. executor[w].pc \in BusySteps
    BY DEF Execute, AnnounceStart, MarkRunning, DirectAnnounce, DirectMark, DirectStart,
           DirectAborts, Persist, Complete, AnnounceCompletion, Raise, RaiseLate, CommitFailure,
           CommitFailureFails, AnnounceFailure, AnnounceFailureFails, At,
           BusySteps, QueuedSteps, DirectSteps, SharedSteps
  <2> QED
    BY <2>1, BusyIsNotIdle
<1> DEFINE j == executor[w].job
<1>2. j \in Jobs /\ run[j] \in StatusesAt(executor[w].pc)
  BY <1>1, HeldJob
<1>3. ~ DirectAborts(w) /\ ~ RaiseLate(w) /\ ~ CommitFailureFails(w) /\ ~ AnnounceFailureFails(w)
  BY DEF DirectAborts, RaiseLate, CommitFailureFails, AnnounceFailureFails, Fault, TypeOK
<1> USE DEF At, BusySteps, QueuedSteps, DirectSteps, SharedSteps, StatusesAt, OpenStatuses,
            TerminalStatuses
<1>4. CASE MarkRunning(w) \/ DirectMark(w)
  <2>1. \E pc \in {"running", "marked"} : executor' = [executor EXCEPT ![w].pc = pc]
    BY <1>4 DEF MarkRunning, DirectMark, Go
  <2>2. /\ executor[w].pc \in {"started", "submitted"}
        /\ run' = [run EXCEPT ![j] = "running"]
        /\ UNCHANGED <<queue, request, canceller, api, online, inbox, active>>
    BY <1>4 DEF MarkRunning, DirectMark, Go, SetStatus, requests, server, browser
  <2> QED
    BY <1>1, <1>2, <2>1, <2>2, ExecuteQuietly
<1>5. CASE Persist(w)
  <2>1. /\ executor[w].pc = "running" /\ executor' = [executor EXCEPT ![w].pc = "persisted"]
        /\ run' = [run EXCEPT ![j] = run[j]] /\ run[j] = "running"
        /\ UNCHANGED <<queue, request, canceller, api, online, inbox, active>>
    BY <1>2, <1>5 DEF Persist, Go, requests, server, browser, TypeOK
  <2> QED
    BY <1>1, <1>2, <2>1, ExecuteQuietly
<1>6. CASE Complete(w)
  <2>1. /\ executor[w].pc = "persisted" /\ executor' = [executor EXCEPT ![w].pc = "completed"]
        /\ run' = [run EXCEPT ![j] = "completed"]
        /\ UNCHANGED <<queue, request, canceller, api, online, inbox, active>>
    BY <1>6 DEF Complete, Go, SetStatus, requests, server, browser
  <2> QED
    BY <1>1, <1>2, <2>1, ExecuteQuietly
<1>7. CASE Raise(w)
  <2>1. /\ executor[w].pc \in {"begin", "started", "running", "persisted"}
        /\ executor' = [executor EXCEPT ![w].pc = "failing"]
        /\ run' = [run EXCEPT ![j] = run[j]] /\ run[j] \in {"pending", "running"}
        /\ UNCHANGED <<queue, request, canceller, api, online, inbox, active>>
    BY <1>2, <1>7 DEF Raise, Go, requests, server, browser, TypeOK
  <2>2. run[j] \in StatusesAt("failing") /\ run[j] \notin TerminalStatuses
    BY <2>1
  <2> QED
    BY <1>1, <1>2, <2>1, <2>2, ExecuteQuietly
<1>8. CASE CommitFailure(w)
  <2>1. /\ executor[w].pc = "failing" /\ executor' = [executor EXCEPT ![w].pc = "failed"]
        /\ run' = [run EXCEPT ![j] = "failed"]
        /\ UNCHANGED <<queue, request, canceller, api, online, inbox, active>>
    BY <1>8 DEF CommitFailure, Go, SetStatus, requests, server, browser
  <2> QED
    BY <1>1, <1>2, <2>1, ExecuteQuietly
<1>9. CASE AnnounceStart(w) \/ DirectAnnounce(w) \/ DirectStart(w)
  <2>1. PICK kind \in {"started", "submitted"}, pc \in {"started", "submitted", "running"} :
          /\ Publish(kind, j)
          /\ executor' = [executor EXCEPT ![w].pc = pc]
          /\ executor[w].pc = "saved" => kind = "submitted"
          /\ run[j] \in StatusesAt(pc)
    BY <1>2, <1>9 DEF AnnounceStart, DirectAnnounce, DirectStart, Go
  <2> DEFINE e == [executor[w] EXCEPT !.pc = pc]
  <2>2. e.job = j /\ e.pc = pc /\ executor' = [executor EXCEPT ![w] = e]
    <3>1. executor[w] \in [job : Jobs, pc : BusySteps]
      BY <1>1 DEF TypeOK, ExecutorType, Idle
    <3> QED
      BY <2>1, <3>1
  <2>3. UNCHANGED <<run, queue, request, canceller, api>>
    BY <1>9 DEF AnnounceStart, DirectAnnounce, DirectStart, Go, requests, server
  <2>4. kind \in Kinds /\ kind \notin Closing /\ run[j] \in OpenStatuses /\ pc # "saved"
    BY <2>1 DEF Kinds, Closing
  <2> HIDE DEF e
  <2> QED
    BY <1>1, <1>2, <2>1, <2>2, <2>3, <2>4, ExecuteAloud
<1>10. CASE AnnounceCompletion(w) \/ AnnounceFailure(w)
  <2>1. PICK kind \in {"completed", "failed"} : Publish(kind, j) /\ run[j] = kind
    BY <1>2, <1>10 DEF AnnounceCompletion, AnnounceFailure
  <2>2. /\ executor' = [executor EXCEPT ![w] = Idle]
        /\ UNCHANGED <<run, queue, request, canceller, api>>
    BY <1>10 DEF AnnounceCompletion, AnnounceFailure, Leave, requests, server
  <2>3. kind \in Kinds /\ kind \in Closing /\ run[j] \in TerminalStatuses
    BY <2>1 DEF Kinds, Closing
  <2> QED
    BY <1>1, <1>2, <2>1, <2>2, <2>3, ExecuteAloud
<1> QED
  BY <1>3, <1>4, <1>5, <1>6, <1>7, <1>8, <1>9, <1>10 DEF Execute
\* The request that submits a job.
LEMMA RequestShown ==
  ASSUME TypeOK, TypeOK', CalmOrder, \A x \in Jobs : Display(x),
         NEW j \in Jobs, Submit(j) \/ Serve(j), faults' = faults
  PROVE  CalmOrder' /\ \A x \in Jobs : Display(x)'
<1>1. ~ EnqueueFails(j) /\ ~ AnnounceFails(j)
  BY DEF EnqueueFails, AnnounceFails, Fault, TypeOK
<1>2. UNCHANGED <<executor, canceller, api, online>>
  BY <1>1 DEF Submit, Serve, Enqueue, Announce, Respond, Request, Advance, Publish, server, browser
<1>3. PICK step \in RequestSteps : request' = [request EXCEPT ![j] = step]
  BY <1>1 DEF Submit, Serve, Enqueue, Announce, Respond, Request, Advance, RequestSteps
<1>4. /\ request'[j] = step /\ \A x \in Jobs \ {j} : request'[x] = request[x]
      /\ \A x \in Jobs : Executed(x)' <=> Executed(x)
  BY <1>2, <1>3 DEF TypeOK, Executed
<1>5. \A x \in Jobs \ {j} : /\ Unsubmitted(x)' <=> Unsubmitted(x)
                            /\ Unannounced(x)' <=> Unannounced(x)
  BY <1>2, <1>4 DEF Unsubmitted, Unannounced
<1>6. CASE Submit(j)
  <2>1. /\ run[j] = "absent" /\ run' = [run EXCEPT ![j] = "pending"] /\ step = "saved"
        /\ UNCHANGED <<queue, inbox, active>>
    BY <1>4, <1>6 DEF Submit, Request, Advance, browser, TypeOK
  <2>2. run'[j] = "pending" /\ \A x \in Jobs \ {j} : run'[x] = run[x]
    BY <2>1 DEF TypeOK
  <2>3. ~ Executed(j) /\ j \notin queue
    BY <2>1 DEF CalmOrder, JobOrder
  <2>4. \A x \in Jobs : JobOrder(x)'
    BY <1>4, <2>1, <2>2, <2>3 DEF CalmOrder, JobOrder
  <2>5. \A w \in Executors : executor[w] # Idle => executor[w].job \in Jobs \ {j}
    BY <2>3, HeldIsJob DEF Executed
  <2>6. CalmOrder'
    BY <1>2, <2>2, <2>4, <2>5 DEF CalmOrder
  <2>7. Display(j)'
    BY <1>4, <2>1, <2>2, UnpublishedDisplay DEF Unsubmitted, OpenStatuses, TerminalStatuses
  <2>8. ASSUME NEW x \in Jobs \ {j} PROVE Display(x)'
    BY <1>5, <2>1, <2>2, UnpublishedDisplay
  <2> QED
    BY <2>6, <2>7, <2>8
<1>7. CASE Enqueue(j)
  <2>1. /\ request[j] = "saved" /\ step = "queued" /\ queue' = queue \cup {j}
        /\ UNCHANGED <<run, inbox, active>>
    BY <1>4, <1>7 DEF Enqueue, Request, Advance, browser, TypeOK
  <2>2. \A x \in Jobs : JobOrder(x)'
    BY <1>4, <2>1 DEF CalmOrder, JobOrder
  <2>3. CalmOrder'
    BY <1>2, <2>1, <2>2 DEF CalmOrder
  <2>4. Display(j)'
    BY <1>4, <2>1, UnpublishedDisplay DEF Unsubmitted, Unannounced
  <2>5. ASSUME NEW x \in Jobs \ {j} PROVE Display(x)'
    BY <1>5, <2>1, UnpublishedDisplay
  <2> QED
    BY <2>3, <2>4, <2>5
<1>8. CASE Announce(j)
  <2>1. /\ request[j] = "queued" /\ step = "announced" /\ Publish("submitted", j)
        /\ UNCHANGED <<run, queue>>
    BY <1>4, <1>8 DEF Announce, Request, Advance, TypeOK
  <2>2. \A x \in Jobs : JobOrder(x)'
    BY <1>4, <2>1 DEF CalmOrder, JobOrder
  <2>3. CalmOrder'
    BY <1>2, <2>1, <2>2 DEF CalmOrder
  <2>4. /\ inbox' = Append(inbox, Submission(j)) /\ UNCHANGED active
        /\ Submission(j) \in Messages /\ Submission(j).job = j
        /\ Submission(j).kind \notin Closing /\ inbox \in Seq(Messages)
    BY <2>1 DEF Publish, CalmOrder, Submission, Messages, Kinds, Closing, TypeOK
  <2>5. run[j] = "pending" /\ Unsubmitted(j)'
    BY <1>4, <2>1 DEF CalmOrder, JobOrder, Unsubmitted
  <2>6. Unclosed(j)'
    BY <2>4, <2>5, PublishedDisplay DEF Display, OpenStatuses
  <2>7. Display(j)'
    BY <2>1, <2>5, <2>6 DEF Display, OpenStatuses, TerminalStatuses
  <2>8. ASSUME NEW x \in Jobs \ {j} PROVE Display(x)'
    <3>1. /\ Silent(x) => Silent(x)'
          /\ Unclosed(x) => Unclosed(x)'
          /\ Over(x) => Over(x)'
          /\ Opened(x) => Opened(x)'
      BY <2>4, PublishedDisplay
    <3> QED
      BY <1>5, <2>1, <2>4, <3>1 DEF Display
  <2> QED
    BY <2>3, <2>7, <2>8
<1>9. CASE Respond(j)
  <2>1. /\ request[j] = "announced" /\ step = "done"
        /\ active' = [active EXCEPT ![j] = "pending"]
        /\ UNCHANGED <<run, queue, inbox>>
    BY <1>4, <1>9 DEF Respond, Request, Advance, TypeOK
  <2>2. \A x \in Jobs : JobOrder(x)'
    BY <1>4, <2>1 DEF CalmOrder, JobOrder
  <2>3. CalmOrder'
    BY <1>2, <2>1, <2>2 DEF CalmOrder
  <2>4. active'[j] = "pending" /\ \A x \in Jobs \ {j} : active'[x] = active[x]
    BY <2>1 DEF TypeOK
  <2>5. run[j] = "pending"
    BY <2>1 DEF CalmOrder, JobOrder
  <2>6. Display(j)'
    BY <2>1, <2>4, <2>5 DEF Display, Unclosed, Opened, OpenStatuses, TerminalStatuses
  <2>7. ASSUME NEW x \in Jobs \ {j} PROVE Display(x)'
    <3>1. /\ Silent(x) => Silent(x)'
          /\ Unclosed(x) => Unclosed(x)'
          /\ Over(x) => Over(x)'
          /\ Opened(x) => Opened(x)'
      BY <2>1, <2>4 DEF Silent, Unclosed, Over, Opened, Submission
    <3> QED
      BY <1>5, <2>1, <2>4, <3>1 DEF Display
  <2> QED
    BY <2>3, <2>6, <2>7
<1> QED
  BY <1>1, <1>6, <1>7, <1>8, <1>9 DEF Serve

\* A worker takes a job.
LEMMA TakeShown ==
  ASSUME TypeOK, TypeOK', CalmOrder, \A x \in Jobs : Display(x), Prompt,
         NEW w \in Executors, NEW j \in Jobs, Dequeue(w, j) \/ DirectSubmit(w, j)
  PROVE  CalmOrder' /\ \A x \in Jobs : Display(x)'
<1>1. PICK pc \in {"begin", "saved"} :
        /\ executor' = [executor EXCEPT ![w] = [job |-> j, pc |-> pc]]
        /\ executor[w] = Idle
        /\ pc = "begin" => Dequeue(w, j)
        /\ pc = "saved" => DirectSubmit(w, j)
  BY DEF Dequeue, DirectSubmit
<1>2. /\ executor'[w] = [job |-> j, pc |-> pc]
      /\ \A v \in Executors \ {w} : executor'[v] = executor[v]
      /\ UNCHANGED <<request, canceller, api, online, inbox, active>>
  BY <1>1 DEF TypeOK, Dequeue, DirectSubmit, requests, server, browser
<1>3. /\ JobOrder(j) /\ ~ Executed(j) /\ run'[j] = "pending" /\ j \notin queue'
      /\ \A x \in Jobs \ {j} : run'[x] = run[x] /\ (x \in queue' <=> x \in queue)
      /\ request[j] \in {"none", "done"}
  <2>1. CASE Dequeue(w, j)
    BY <2>1 DEF Dequeue, CalmOrder, JobOrder
  <2>2. CASE DirectSubmit(w, j)
    BY <2>2 DEF DirectSubmit, SetStatus, CalmOrder, JobOrder, TypeOK
  <2> QED
    BY <2>1, <2>2
<1>4. \A x \in Jobs \ {j} : /\ Executed(x)' => Executed(x)
                            /\ Unsubmitted(x)' <=> Unsubmitted(x)
                            /\ Unannounced(x)' <=> Unannounced(x)
  BY <1>1, <1>2, JobsAssumption DEF Executed, Unsubmitted, Unannounced, Idle
<1>5. CalmOrder'
  <2>1. \A x \in Jobs : JobOrder(x)'
    BY <1>2, <1>3, <1>4 DEF CalmOrder, JobOrder
  <2>2. \A v \in Executors \ {w} : executor[v] # Idle => executor[v].job \in Jobs \ {j}
    BY <1>3, HeldIsJob DEF Executed
  <2>3. \A v \in Executors : executor'[v] # Idle =>
           run'[executor'[v].job] \in StatusesAt(executor'[v].pc)
    BY <1>2, <1>3, <2>2 DEF CalmOrder, StatusesAt
  <2>4. ASSUME NEW v \in Executors, NEW y \in Executors,
               executor'[v].job = executor'[y].job, executor'[v] # Idle
        PROVE  v = y
    <3>1. executor[y].job # j /\ executor[v].job # j
      BY <1>3 DEF Executed
    <3> QED
      BY <1>2, <2>4, <3>1 DEF CalmOrder
  <2> QED
    BY <1>2, <2>1, <2>3, <2>4 DEF CalmOrder
<1>6. ASSUME NEW x \in Jobs \ {j} PROVE Display(x)'
  BY <1>2, <1>3, <1>4, UnpublishedDisplay
<1>7. Display(j)'
  <2>1. ~ Unsubmitted(j)
    BY <1>3 DEF Unsubmitted, Executed
  <2>2. CASE pc = "begin"
    <3>1. run[j] = "pending"
      BY <1>1, <2>2 DEF Dequeue, CalmOrder, JobOrder
    <3> QED
      BY <1>2, <1>3, <2>1, <3>1, UnpublishedDisplay DEF OpenStatuses, TerminalStatuses
  <2>3. CASE pc = "saved"
    <3>1. Unsubmitted(j)' /\ run[j] = "absent"
      BY <1>1, <1>2, <2>3 DEF Unsubmitted, DirectSubmit
    <3> QED
      BY <1>2, <1>3, <2>1, <3>1, UnpublishedDisplay DEF OpenStatuses, TerminalStatuses
  <2> QED
    BY <2>2, <2>3
<1> QED
  BY <1>5, <1>6, <1>7

LEMMA InitCalm == Init => CalmInv
<1> SUFFICES ASSUME Init PROVE CalmOrder /\ \A j \in Jobs : Display(j)
  BY DEF CalmInv
<1>1. \A j \in Jobs : ~ Executed(j)
  BY JobsAssumption DEF Init, Executed, Idle
<1>2. CalmOrder
  BY <1>1 DEF Init, CalmOrder, JobOrder
<1>3. Len(inbox) = 0
  BY EmptySeq DEF Init
<1>4. \A j \in Jobs : Display(j)
  <2>1. \A j \in Jobs : Silent(j)
    BY <1>3 DEF Silent
  <2>2. \A j \in Jobs : run[j] = "absent" /\ active[j] = "none"
    BY DEF Init
  <2> QED
    BY <2>1, <2>2 DEF Display, OpenStatuses, TerminalStatuses
<1> QED
  BY <1>2, <1>4

LEMMA NextCalm == TypeOK /\ TypeOK' /\ CalmInv /\ [Next]_vars => CalmInv'
<1> SUFFICES ASSUME TypeOK, TypeOK', CalmInv, [Next]_vars, Calm'
             PROVE  CalmOrder' /\ \A x \in Jobs : Display(x)'
  BY DEF CalmInv
<1>0. faults \in Nat /\ cancels \in Nat /\ Prompt /\ faults' = 0 /\ cancels' = 0
  BY BoundsAssumption DEF TypeOK, Calm
<1>1. \A f : ~ Fault(f)
  BY <1>0 DEF Fault
<1>2. ASSUME faults' = faults /\ cancels' = cancels
      PROVE  CalmOrder /\ \A x \in Jobs : Display(x)
  BY <1>0, <1>2 DEF Calm, CalmInv
<1>3. ASSUME NEW j \in Jobs, Submit(j) \/ Serve(j)
      PROVE  faults' = faults /\ cancels' = cancels
  BY <1>1, <1>3 DEF Submit, Serve, Enqueue, EnqueueFails, Announce, AnnounceFails, Respond,
                    Request, Advance
<1>4. ASSUME NEW w \in Executors, NEW j \in Jobs, Dequeue(w, j) \/ DirectSubmit(w, j)
      PROVE  faults' = faults /\ cancels' = cancels
  BY <1>4 DEF Dequeue, DirectSubmit, requests
<1>5. ASSUME NEW w \in Executors, Execute(w)
      PROVE  faults' = faults /\ cancels' = cancels
  BY <1>1, <1>5
     DEF Execute, AnnounceStart, MarkRunning, DirectAnnounce, DirectMark, DirectStart,
         DirectAborts, Persist, Complete, AnnounceCompletion, Raise, RaiseLate, CommitFailure,
         CommitFailureFails, AnnounceFailure, AnnounceFailureFails, Go, Leave, requests
<1>6. ASSUME NEW w \in Executors, Stop(w)
      PROVE  FALSE
  BY <1>1, <1>6 DEF WorkerDies, Escape, Stop
<1>7. ASSUME NEW u \in Users, NEW j \in Jobs, BeginCancel(u, j)
      PROVE  FALSE
  BY <1>0, <1>7 DEF BeginCancel
<1>8. ASSUME NEW u \in Users, Cancel(u)
      PROVE  FALSE
  <2>1. faults' = faults /\ cancels' = cancels
    BY <1>1, <1>8 DEF Cancel, RemoveJob, RemoveFails, CommitCancel, AnnounceCancel,
                      AnnounceCancelFails, Cancelling, CancelDone
  <2>2. canceller[u].pc = "idle"
    BY <1>2, <2>1 DEF CalmOrder, Idle
  <2> QED
    BY <1>8, <2>2 DEF Cancel, RemoveJob, RemoveFails, CommitCancel, AnnounceCancel,
                      AnnounceCancelFails, Cancelling, CancelDone
<1>9. ASSUME ApiDies \/ Disconnect
      PROVE  FALSE
  BY <1>1, <1>9 DEF ApiDies, Disconnect
<1>10. ASSUME Recover \/ Reconnect
       PROVE  FALSE
  <2>1. faults' = faults /\ cancels' = cancels
    BY <1>10 DEF Recover, SelectStale, FailStale, Reconnect, requests
  <2> QED
    BY <1>2, <1>10, <2>1 DEF CalmOrder, Recover, SelectStale, FailStale, Reconnect
<1>11. CASE HandleMessage
  <2>1. /\ CalmOrder /\ \A x \in Jobs : Display(x)
        /\ UNCHANGED <<online, run, queue, executor, request, canceller, api>>
    BY <1>2, <1>11 DEF HandleMessage, requests, server
  <2>2. CalmOrder'
    BY <2>1 DEF CalmOrder, JobOrder, Executed
  <2>3. ASSUME NEW x \in Jobs
        PROVE  Display(x)'
    <3>1. (Unsubmitted(x)' <=> Unsubmitted(x)) /\ (Unannounced(x)' <=> Unannounced(x))
      BY <2>1 DEF Unsubmitted, Unannounced
    <3>2. run'[x] = run[x] /\ Display(x)
      BY <2>1
    <3>3. /\ Silent(x) /\ active[x] = "none" => Silent(x)' /\ active'[x] = "none"
          /\ Unclosed(x) => Unclosed(x)'
          /\ Unclosed(x) /\ Opened(x) => Opened(x)'
          /\ Over(x) => Over(x)'
      BY <1>11, HandledDisplay
    <3> QED
      BY <3>1, <3>2, <3>3 DEF Display
  <2> QED
    BY <2>2, <2>3
<1>12. CASE UNCHANGED vars
  <2>1. /\ CalmOrder /\ \A x \in Jobs : Display(x)
        /\ UNCHANGED <<online, run, queue, executor, request, canceller, api, inbox, active>>
    BY <1>2, <1>12 DEF vars, requests, server, browser
  <2>2. CalmOrder'
    BY <2>1 DEF CalmOrder, JobOrder, Executed
  <2>3. ASSUME NEW x \in Jobs
        PROVE  Display(x)'
    <3>1. (Unsubmitted(x)' <=> Unsubmitted(x)) /\ (Unannounced(x)' <=> Unannounced(x))
      BY <2>1 DEF Unsubmitted, Unannounced
    <3> QED
      BY <2>1, <3>1, UnpublishedDisplay
  <2> QED
    BY <2>2, <2>3
<1>13. CASE \E j \in Jobs : Submit(j) \/ Serve(j)
  BY <1>2, <1>3, <1>13, RequestShown
<1>14. CASE \/ \E w \in Workers, j \in Jobs : Dequeue(w, j)
            \/ \E a \in Agents, j \in Jobs : DirectSubmit(a, j)
  BY <1>0, <1>2, <1>4, <1>14, TakeShown DEF Executors
<1>15. CASE \E w \in Executors : Execute(w)
  BY <1>2, <1>5, <1>15, ExecuteShown
<1> QED
  BY <1>6, <1>7, <1>8, <1>9, <1>10, <1>11, <1>12, <1>13, <1>14, <1>15 DEF Next

\* While nothing has gone wrong and nobody has cancelled, the browser shows as
\* active the jobs whose row is open, up to what is on its way: for any number
\* of jobs, workers and agents at once.
THEOREM ScreenShowsOpenJobs == Spec => []ScreenAgrees
<1>1. Init => TypeOK /\ CalmInv
  BY InitTyped, InitCalm
<1>2. TypeOK /\ CalmInv /\ [Next]_vars => TypeOK' /\ CalmInv'
  BY NextTyped, NextCalm
<1>3. TypeOK /\ CalmInv => ScreenAgrees
  <2> SUFFICES ASSUME TypeOK, CalmInv, NEW j \in Jobs, inbox = <<>>, ~ Unannounced(j), Calm
               PROVE  (active[j] # "none") = (run[j] \in OpenStatuses)
    BY DEF ScreenAgrees, Calm
  <2>1. Len(inbox) = 0
    BY EmptySeq
  <2>2. ~ Unsubmitted(j)
    BY DEF Unsubmitted, Unannounced
  <2>3. run[j] \in {"absent"} \cup OpenStatuses \cup TerminalStatuses /\ Display(j)
    BY DEF TypeOK, CalmInv
  <2>4. (Opened(j) => active[j] # "none") /\ (Over(j) => active[j] = "none")
    BY <2>1 DEF Opened, Over
  <2> QED
    BY <2>2, <2>3, <2>4 DEF Display, OpenStatuses, TerminalStatuses
<1> QED
  BY <1>1, <1>2, <1>3, PTL DEF Spec
=============================================================================
