----------------------- MODULE InvestigatorLoopProofs -----------------------
(***************************************************************************)
(* Proofs about InvestigatorLoop: whatever the model chooses, a run with a *)
(* selected scope stays within what its user picked and its agent named,   *)
(* a choice that was refused or invalid leaves its complaint in the next   *)
(* prompt, and a run that is refused too often in a row has failed.        *)
(*                                                                         *)
(* Every conjunct of the inductive invariant speaks of one run only: of    *)
(* its row, of what is next for it, of its call, of its session and of its *)
(* history.  An action of a run replaces these five values, so each action *)
(* comes down to a fact about values (lemma Lands).                        *)
(***************************************************************************)
EXTENDS InvestigatorLoop, SequenceTheorems, FiniteSetTheorems, TLAPS

Outcomes == [family : Families, low : BOOLEAN]

RowType ==
  [status : Statuses,
   scope : ScopeType, steps : Nat, transforms : Nat,
   attempt : 1 .. RetryAttempts, duplicates : Nat, invalids : Nat,
   feedback : Seq(Lines), completed : [Calls -> Nat],
   entities : SUBSET Entities, links : SUBSET Links,
   outcomes : Seq(Outcomes), exhausted : Seq(Families)]

HistoryType ==
  [picked : SUBSET Entities, named : SUBSET Entities, worked : SUBSET Entities,
   shown : SUBSET Entities, told : SUBSET Entities, refused : Nat, missed : Nat]

SyncFields == {"status", "then", "runs", "paths", "id"}

\* The steps at which a run has a call, and those of the session that rewrites
\* the memory.
Calling  == {"tool", "waiting", "approved", "executing"}
Syncing  == {"read", "create", "write"}
Thinking == {"think", "asking"}

\* The run thinks, or will once its session is over.
OnToThink(next, s) ==
  next \in Thinking \/ (next \in Syncing /\ s.then = "think")

GoodTypes(row, next, c, s, h) ==
  /\ row \in RowType
  /\ next \in Pcs
  /\ c \in Calls \cup {None}
  /\ DOMAIN s = SyncFields /\ s.then \in {"think", "over"}
  /\ h \in HistoryType
  /\ next \in Calling => c \in Calls

GoodScope(row, h) ==
  row.scope.mode = "selected" =>
    /\ row.scope.ids \subseteq h.picked \cup h.named
    /\ h.worked \subseteq h.picked \cup h.named
    /\ h.shown \subseteq h.picked \cup h.named \cup h.told

GoodFeedback(row, next, s, h) ==
  /\ OnToThink(next, s) /\ h.refused + h.missed > 0 => row.feedback # <<>>
  /\ next \in Calling => h.refused = 0
  /\ next \in Syncing /\ s.then = "think" => h.refused = 0

GoodCount(row, next, h) ==
  /\ next \in Thinking => h.refused <= row.duplicates
  /\ h.refused >= DuplicateReadReplanLimit => row.status = "failed"

Good(row, next, c, s, h) ==
  /\ GoodTypes(row, next, c, s, h)
  /\ GoodScope(row, h)
  /\ GoodFeedback(row, next, s, h)
  /\ GoodCount(row, next, h)

Shapes ==
  /\ run = [r \in Runs |-> run[r]] /\ pc = [r \in Runs |-> pc[r]]
  /\ call = [r \in Runs |-> call[r]] /\ sync = [r \in Runs |-> sync[r]]
  /\ history = [r \in Runs |-> history[r]]

LoopInv ==
  /\ Shapes
  /\ graph \subseteq Entities
  /\ \A r \in Runs : Good(run[r], pc[r], call[r], sync[r], history[r])
-----------------------------------------------------------------------------
(* Facts about values. *)

\* The latest entries of a sequence are some of its entries, and some there are.
LEMMA LatestProperties ==
  ASSUME NEW S, NEW s \in Seq(S), NEW n \in Nat \ {0}
  PROVE  Latest(s, n) \in Seq(S) /\ (s # <<>> => Latest(s, n) # <<>>)
<1> DEFINE m == IF Len(s) > n THEN Len(s) - n + 1 ELSE 1
<1>1. Len(s) \in Nat /\ (s # <<>> => Len(s) > 0)
  OBVIOUS
<1>2. m \in Int /\ m >= 1
  BY <1>1
<1>3. \A i \in m .. Len(s) : s[i] \in S
  BY <1>1, <1>2
<1>4. /\ SubSeq(s, m, Len(s)) \in Seq(S)
      /\ Len(SubSeq(s, m, Len(s))) = IF m <= Len(s) THEN Len(s) - m + 1 ELSE 0
  <2> HIDE DEF m
  <2> QED  BY <1>1, <1>2, <1>3, SubSeqProperties
<1>5. s # <<>> => m <= Len(s)
  BY <1>1
<1>6. s # <<>> => SubSeq(s, m, Len(s)) # <<>>
  <2> HIDE DEF m
  <2>1. s # <<>> => Len(SubSeq(s, m, Len(s))) > 0
    BY <1>1, <1>2, <1>4, <1>5
  <2>2. Len(<<>>) = 0
    OBVIOUS
  <2>3. SubSeq(s, m, Len(s)) = <<>> => Len(SubSeq(s, m, Len(s))) = 0
    BY <2>2
  <2> DEFINE k == Len(SubSeq(s, m, Len(s)))
  <2>4. ~(k > 0 /\ k = 0)
    BY <1>4
  <2> QED  BY <2>1, <2>3, <2>4, Zenon
<1>7. Latest(s, n) = SubSeq(s, m, Len(s))
  BY DEF Latest
<1> HIDE DEF m
<1> QED  BY <1>4, <1>6, <1>7

LEMMA AppendedLatest ==
  ASSUME NEW S, NEW s \in Seq(S), NEW x \in S, NEW n \in Nat \ {0}
  PROVE  Latest(Append(s, x), n) \in Seq(S) /\ Latest(Append(s, x), n) # <<>>
<1>1. Append(s, x) \in Seq(S) /\ Append(s, x) # <<>>
  BY EmptySeq, AppendProperties
<1> QED  BY <1>1, LatestProperties

LEMMA NewRunType ==
  ASSUME NEW scope \in ScopeType
  PROVE  NewRun(scope) \in RowType
BY LoopAssumption DEF NewRun, RowType, Statuses, ActiveStatuses

\* What each change of a row leaves as it was.
LEMMA StatusType ==
  ASSUME NEW row \in RowType,
         NEW status \in Statuses
  PROVE  /\ [row EXCEPT !.status = status] \in RowType
         /\ [row EXCEPT !.status = status].status = status
         /\ [row EXCEPT !.status = status].scope = row.scope
         /\ [row EXCEPT !.status = status].feedback = row.feedback
         /\ [row EXCEPT !.status = status].duplicates = row.duplicates
BY DEF RowType

LEMMA FeedbackType ==
  ASSUME NEW row \in RowType, NEW line \in Lines
  PROVE  /\ WithFeedback(row, line) \in RowType
         /\ WithFeedback(row, line).feedback # <<>>
         /\ WithFeedback(row, line).status = row.status
         /\ WithFeedback(row, line).scope = row.scope
         /\ WithFeedback(row, line).duplicates = row.duplicates
<1>1. row.feedback \in Seq(Lines)
  BY DEF RowType
<1>2. /\ Latest(Append(row.feedback, line), 3) \in Seq(Lines)
      /\ Latest(Append(row.feedback, line), 3) # <<>>
  <2>1. 3 \in Nat \ {0}
    OBVIOUS
  <2> QED  BY <1>1, <2>1, AppendedLatest
<1> DEFINE new == Latest(Append(row.feedback, line), 3)
<1>3. WithFeedback(row, line) = [row EXCEPT !.feedback = new]
  BY DEF WithFeedback
<1>4. new \in Seq(Lines) /\ new # <<>>
  BY <1>2
<1> HIDE DEF new
<1> QED  BY <1>3, <1>4 DEF RowType

LEMMA DuplicateType ==
  ASSUME NEW row \in RowType, NEW c \in Calls
  PROVE  /\ WithDuplicate(row, c) \in RowType
         /\ WithDuplicate(row, c).feedback # <<>>
         /\ WithDuplicate(row, c).status = row.status
         /\ WithDuplicate(row, c).scope = row.scope
         /\ WithDuplicate(row, c).duplicates = row.duplicates + 1
<1> DEFINE told == WithFeedback(row, Complaint(c))
<1>1. Complaint(c) \in Lines
  BY DEF Complaint, Lines
<1>2. /\ told \in RowType /\ told.feedback # <<>> /\ told.status = row.status
      /\ told.scope = row.scope /\ told.duplicates = row.duplicates
  BY <1>1, FeedbackType
<1> DEFINE count == told.duplicates + 1
<1>3. WithDuplicate(row, c) = [told EXCEPT !.duplicates = count]
  BY DEF WithDuplicate
<1>4. count \in Nat /\ count = row.duplicates + 1
  BY <1>2 DEF RowType
<1> HIDE DEF told, count
<1> QED  BY <1>2, <1>3, <1>4 DEF RowType

LEMMA InvalidType ==
  ASSUME NEW row \in RowType
  PROVE  /\ WithInvalid(row) \in RowType
         /\ WithInvalid(row).feedback # <<>>
         /\ WithInvalid(row).status = row.status
         /\ WithInvalid(row).scope = row.scope
         /\ WithInvalid(row).duplicates = row.duplicates
<1> DEFINE told == WithFeedback(row, "invalid")
<1>1. /\ told \in RowType /\ told.feedback # <<>> /\ told.status = row.status
      /\ told.scope = row.scope /\ told.duplicates = row.duplicates
  <2>1. "invalid" \in Lines
    BY DEF Lines
  <2> QED  BY <2>1, FeedbackType
<1> DEFINE count == told.invalids + 1
<1>2. WithInvalid(row) = [told EXCEPT !.invalids = count]
  BY DEF WithInvalid
<1>3. count \in Nat
  BY <1>1 DEF RowType
<1> HIDE DEF told, count
<1> QED  BY <1>1, <1>2, <1>3 DEF RowType

LEMMA ClearedType ==
  ASSUME NEW row \in RowType
  PROVE  /\ Cleared(row) \in RowType
         /\ Cleared(row).status = row.status
         /\ Cleared(row).scope = row.scope
<1> DEFINE blank == <<>>
<1>1. blank \in Seq(Lines)
  OBVIOUS
<1>2. Cleared(row) = [row EXCEPT !.feedback = blank, !.duplicates = 0, !.invalids = 0]
  BY DEF Cleared
<1> HIDE DEF blank
<1>3. Cleared(row) \in RowType
  <2> DEFINE untold == [row EXCEPT !.feedback = blank]
             unrepeated == [untold EXCEPT !.duplicates = 0]
  <2>1. untold \in RowType
    BY <1>1 DEF RowType
  <2> HIDE DEF untold
  <2>2. unrepeated \in RowType
    BY <2>1 DEF RowType
  <2> HIDE DEF unrepeated
  <2>3. [unrepeated EXCEPT !.invalids = 0] \in RowType
    BY <2>2 DEF RowType
  <2>4. [unrepeated EXCEPT !.invalids = 0] = Cleared(row)
    BY <1>2 DEF unrepeated, untold
  <2> QED  BY <2>3, <2>4
<1>4. Cleared(row).status = row.status /\ Cleared(row).scope = row.scope
  BY <1>2 DEF RowType
<1> QED  BY <1>3, <1>4

LEMMA ChargedType ==
  ASSUME NEW row \in RowType, NEW c
  PROVE  /\ Charged(row, c) \in RowType
         /\ Charged(row, c).status = row.status
         /\ Charged(row, c).scope = row.scope
         /\ Charged(row, c).feedback = row.feedback
         /\ Charged(row, c).duplicates = row.duplicates
<1>1. 1 \in 1 .. RetryAttempts
  BY LoopAssumption
<1> DEFINE transforms == IF c # None /\ c.tool = "run_transform"
                         THEN row.transforms + 1 ELSE row.transforms
           steps == row.steps + 1
<1>2. transforms \in Nat /\ steps \in Nat
  BY DEF RowType
<1>3. Charged(row, c) = [row EXCEPT !.steps = steps, !.attempt = 1,
                                    !.transforms = transforms]
  BY DEF Charged
<1> HIDE DEF steps, transforms
<1> QED  BY <1>1, <1>2, <1>3 DEF RowType

LEMMA CompletedType ==
  ASSUME NEW row \in RowType, NEW c \in Calls
  PROVE  /\ Completed(row, c) \in RowType
         /\ Completed(row, c).status = row.status
         /\ Completed(row, c).scope = row.scope
         /\ Completed(row, c).feedback = row.feedback
         /\ Completed(row, c).duplicates = row.duplicates
<1> DEFINE counts == [row.completed EXCEPT ![c] = @ + 1]
<1>1. counts \in [Calls -> Nat]
  BY DEF RowType
<1>2. Completed(row, c) = [row EXCEPT !.completed = counts]
  BY DEF Completed, RowType
<1> HIDE DEF counts
<1> QED  BY <1>1, <1>2 DEF RowType

LEMMA ScoredType ==
  ASSUME NEW row \in RowType, NEW c \in Calls, NEW ents \in SUBSET Entities,
         NEW links \in SUBSET Links
  PROVE  /\ Scored(row, c, ents, links) \in RowType
         /\ Scored(row, c, ents, links).status = row.status
         /\ Scored(row, c, ents, links).scope = row.scope
         /\ Scored(row, c, ents, links).feedback = row.feedback
         /\ Scored(row, c, ents, links).duplicates = row.duplicates
<1> DEFINE low == LowYield(ents \ row.entities, links \ row.links)
           outcomes == Latest(Append(row.outcomes, [family |-> c.family, low |-> low]),
                              TransformMemoryLimit)
           worn == WornOut(outcomes, c.family) /\ ~Contains(row.exhausted, c.family)
           exhausted == IF worn THEN Latest(Append(row.exhausted, c.family), 10)
                        ELSE row.exhausted
           known == Greatest(row.entities \cup ents, KnownGraphItemLimit)
           joined == Greatest(row.links \cup links, KnownGraphItemLimit)
<1>1. c.family \in Families
  BY DEF Families
<1>2. row.outcomes \in Seq(Outcomes) /\ row.exhausted \in Seq(Families)
  BY DEF RowType
<1>3. [family |-> c.family, low |-> low] \in Outcomes
  BY <1>1 DEF Outcomes, LowYield
<1>4. outcomes \in Seq(Outcomes)
  <2> HIDE DEF low
  <2>1. TransformMemoryLimit \in Nat \ {0}
    BY LoopAssumption
  <2> QED  BY <2>1, <1>2, <1>3, AppendedLatest
<1>5. exhausted \in Seq(Families)
  <2>1. Latest(Append(row.exhausted, c.family), 10) \in Seq(Families)
    <3>1. 10 \in Nat \ {0}
      OBVIOUS
    <3> QED  BY <1>1, <1>2, <3>1, AppendedLatest
  <2> HIDE DEF worn
  <2> QED  BY <1>2, <2>1
<1>6. known \in SUBSET Entities /\ joined \in SUBSET Links
  BY DEF Greatest, RowType
<1>7. Scored(row, c, ents, links) =
        [row EXCEPT !.entities = known, !.links = joined, !.outcomes = outcomes,
                    !.exhausted = exhausted]
  BY DEF Scored, RowType
<1> HIDE DEF low, outcomes, worn, exhausted, known, joined
<1> QED  BY <1>4, <1>5, <1>6, <1>7 DEF RowType
-----------------------------------------------------------------------------
(* Steps. *)

\* A value that an action leaves alone is replaced by itself.
LEMMA Same ==
  ASSUME Shapes, NEW r \in Runs
  PROVE  /\ run = [run EXCEPT ![r] = run[r]] /\ pc = [pc EXCEPT ![r] = pc[r]]
         /\ call = [call EXCEPT ![r] = call[r]]
         /\ sync = [sync EXCEPT ![r] = sync[r]]
         /\ history = [history EXCEPT ![r] = history[r]]
BY DEF Shapes

\* A step of one run is judged by the five values it leaves the run with.
LEMMA Lands ==
  ASSUME LoopInv, NEW r \in Runs, NEW row, NEW next, NEW c, NEW s, NEW h,
         run' = [run EXCEPT ![r] = row], pc' = [pc EXCEPT ![r] = next],
         call' = [call EXCEPT ![r] = c], sync' = [sync EXCEPT ![r] = s],
         history' = [history EXCEPT ![r] = h],
         graph' \subseteq Entities,
         Good(row, next, c, s, h)
  PROVE  LoopInv'
<1>1. Shapes
  BY DEF LoopInv
<1>2. Shapes'
  BY <1>1 DEF Shapes
<1>3. ASSUME NEW q \in Runs
      PROVE  Good(run[q], pc[q], call[q], sync[q], history[q])'
  <2>1. CASE q = r
    <3>1. /\ run'[q] = row /\ pc'[q] = next /\ call'[q] = c /\ sync'[q] = s
          /\ history'[q] = h
      BY <1>1, <2>1 DEF Shapes
    <3> QED  BY <3>1
  <2>2. CASE q # r
    <3>1. /\ run'[q] = run[q] /\ pc'[q] = pc[q] /\ call'[q] = call[q]
          /\ sync'[q] = sync[q] /\ history'[q] = history[q]
      BY <1>1, <2>2 DEF Shapes
    <3>2. Good(run[q], pc[q], call[q], sync[q], history[q])
      BY DEF LoopInv
    <3> QED  BY <3>1, <3>2
  <2> QED  BY <2>1, <2>2
<1> QED  BY <1>2, <1>3 DEF LoopInv

\* What the invariant says of one run.
LEMMA Now ==
  ASSUME LoopInv, NEW r \in Runs
  PROVE  /\ Shapes /\ graph \subseteq Entities
         /\ GoodTypes(run[r], pc[r], call[r], sync[r], history[r])
         /\ GoodScope(run[r], history[r])
         /\ GoodFeedback(run[r], pc[r], sync[r], history[r])
         /\ GoodCount(run[r], pc[r], history[r])
BY DEF LoopInv, Good

\* The session that a step opens.
LEMMA OpenedSync ==
  ASSUME NEW status, NEW then \in {"think", "over"}
  PROVE  LET s == [NoSync EXCEPT !.status = status, !.then = then]
         IN  DOMAIN s = SyncFields /\ s.then = then
BY DEF NoSync, SyncFields

LEMMA StartsGood ==
  ASSUME LoopInv, NEW r \in Runs, NEW scope \in ScopeType,
         NEW picked \in SUBSET Entities, scope.mode = "selected" => scope.ids \subseteq picked,
         Launch(r, scope, picked)
  PROVE  LoopInv'
<1> DEFINE row == NewRun(scope)
           h == [NoHistory EXCEPT !.picked = picked]
<1>1. row \in RowType /\ row.scope = scope /\ row.duplicates = 0
  BY NewRunType DEF NewRun
<1>2. /\ h \in HistoryType /\ h.picked = picked /\ h.worked = {} /\ h.shown = {}
      /\ h.refused = 0 /\ h.missed = 0 /\ h.named = {}
  BY DEF NoHistory, HistoryType
<1>3. DuplicateReadReplanLimit \in Nat \ {0}
  BY LoopAssumption
<1>4. GoodTypes(row, "think", call[r], sync[r], h)
  BY <1>1, <1>2, Now DEF GoodTypes, Pcs, Calling
<1>5. GoodScope(row, h)
  BY <1>1, <1>2 DEF GoodScope
<1>6. GoodFeedback(row, "think", sync[r], h) /\ GoodCount(row, "think", h)
  BY <1>1, <1>2, <1>3 DEF GoodFeedback, GoodCount, Syncing, Calling
<1>7. Good(row, "think", call[r], sync[r], h)
  BY <1>4, <1>5, <1>6 DEF Good
<1>8. /\ run' = [run EXCEPT ![r] = row] /\ pc' = [pc EXCEPT ![r] = "think"]
      /\ history' = [history EXCEPT ![r] = h]
      /\ call' = [call EXCEPT ![r] = call[r]] /\ sync' = [sync EXCEPT ![r] = sync[r]]
      /\ graph' \subseteq Entities
  BY Same, Now DEF Launch, Becomes, Remember
<1> HIDE DEF row, h
<1> QED  BY <1>7, <1>8, Lands

\* A failed run goes on to its last session.
LEMMA FailsGood ==
  ASSUME LoopInv, NEW r \in Runs, NEW row \in RowType, NEW h \in HistoryType,
         GoodScope(row, h), Fail(r, row), history' = [history EXCEPT ![r] = h]
  PROVE  LoopInv'
<1> DEFINE new == [row EXCEPT !.status = "failed"]
           s == [NoSync EXCEPT !.status = "failed", !.then = "over"]
<1>1. new \in RowType /\ new.scope = row.scope /\ new.status = "failed"
  BY StatusType DEF Statuses, EndedStatuses
<1>2. DOMAIN s = SyncFields /\ s.then = "over"
  BY OpenedSync
<1> HIDE DEF new, s
<1>3. GoodTypes(new, "read", None, s, h)
  BY <1>1, <1>2 DEF GoodTypes, Pcs, BusyPcs, Calling
<1>4. GoodScope(new, h)
  BY <1>1 DEF GoodScope
<1>5. GoodFeedback(new, "read", s, h) /\ GoodCount(new, "read", h)
  BY <1>1, <1>2 DEF GoodFeedback, GoodCount, Syncing, Calling, Thinking, OnToThink
<1>6. Good(new, "read", None, s, h)
  BY <1>3, <1>4, <1>5 DEF Good
<1>7. /\ run' = [run EXCEPT ![r] = new] /\ pc' = [pc EXCEPT ![r] = "read"]
      /\ call' = [call EXCEPT ![r] = None] /\ sync' = [sync EXCEPT ![r] = s]
      /\ graph' \subseteq Entities
  BY Now DEF Fail, Becomes, SyncThen, new, s
<1> QED  BY <1>6, <1>7, Lands

\* A settled run keeps its scope and what was picked and named.
LEMMA SettlesGood ==
  ASSUME LoopInv, NEW r \in Runs, NEW row \in RowType,
         GoodScope(row, history[r]), Settle(r, row), graph' = graph,
         NEW c \in Calls \cup {None}, call' = [call EXCEPT ![r] = c],
         NEW s, DOMAIN s = SyncFields, s.then \in {"think", "over"},
         sync' = [sync EXCEPT ![r] = s]
  PROVE  LoopInv'
<1> DEFINE new == [NewRun(row.scope) EXCEPT !.status = row.status]
           h == [NoHistory EXCEPT !.picked = history[r].picked,
                                  !.named = history[r].named]
<1>1. row.scope \in ScopeType
      /\ row.status \in Statuses
  BY DEF RowType
<1>2. new \in RowType /\ new.scope = row.scope
  <2>1. NewRun(row.scope) \in RowType /\ NewRun(row.scope).scope = row.scope
    BY <1>1, NewRunType DEF NewRun
  <2> QED  BY <1>1, <2>1, StatusType
<1>3. history[r] \in HistoryType
  BY Now DEF GoodTypes
<1>4. /\ h \in HistoryType /\ h.picked = history[r].picked /\ h.named = history[r].named
      /\ h.worked = {} /\ h.shown = {} /\ h.refused = 0 /\ h.missed = 0
  BY <1>3 DEF NoHistory, HistoryType
<1> HIDE DEF new, h
<1>5. GoodTypes(new, "over", c, s, h)
  BY <1>2, <1>4 DEF GoodTypes, Pcs, Calling
<1>6. GoodScope(new, h)
  BY <1>2, <1>4 DEF GoodScope
<1>7. GoodFeedback(new, "over", s, h) /\ GoodCount(new, "over", h)
  BY <1>4, LoopAssumption DEF GoodFeedback, GoodCount, Syncing, Calling, Thinking, OnToThink
<1>8. Good(new, "over", c, s, h)
  BY <1>5, <1>6, <1>7 DEF Good
<1>9. /\ run' = [run EXCEPT ![r] = new] /\ pc' = [pc EXCEPT ![r] = "over"]
      /\ history' = [history EXCEPT ![r] = h] /\ graph' \subseteq Entities
  BY Now DEF Settle, Becomes, Remember, new, h
<1> QED  BY <1>8, <1>9, Lands
\* A tool that has answered leaves nothing to complain about.
LEMMA ToolDoneGood ==
  ASSUME LoopInv, NEW r \in Runs, call[r] \in Calls, NEW row \in RowType,
         ToolDone(r, row), graph' \subseteq Entities,
         NEW h \in HistoryType, h.refused = 0, h.missed = 0,
         history' = [history EXCEPT ![r] = h], GoodScope(row, h)
  PROVE  LoopInv'
<1> DEFINE counted == Completed(row, call[r])
           new == Charged(counted, call[r])
           s == [NoSync EXCEPT !.status = row.status, !.then = "think"]
<1>1. counted \in RowType /\ counted.scope = row.scope
  BY CompletedType
<1> HIDE DEF counted
<1>2. new \in RowType /\ new.scope = row.scope
  BY <1>1, ChargedType
<1>3. DOMAIN s = SyncFields /\ s.then = "think"
  BY OpenedSync
<1> HIDE DEF new, s
<1>4. GoodTypes(new, "read", None, s, h)
  BY <1>2, <1>3 DEF GoodTypes, Pcs, BusyPcs, Calling
<1>5. GoodScope(new, h)
  BY <1>2 DEF GoodScope
<1>6. GoodFeedback(new, "read", s, h) /\ GoodCount(new, "read", h)
  BY LoopAssumption DEF GoodFeedback, GoodCount, Calling, Thinking
<1>7. Good(new, "read", None, s, h)
  BY <1>4, <1>5, <1>6 DEF Good
<1>8. /\ run' = [run EXCEPT ![r] = new] /\ pc' = [pc EXCEPT ![r] = "read"]
      /\ call' = [call EXCEPT ![r] = None] /\ sync' = [sync EXCEPT ![r] = s]
  BY DEF ToolDone, Becomes, SyncThen, new, counted, s
<1> QED  BY <1>7, <1>8, Lands

\* A step that changes nothing but the status and what is next of a run, and
\* leaves it neither thinking nor waiting for its memory.
LEMMA StatusGood ==
  ASSUME LoopInv, NEW r \in Runs, NEW next \in Pcs \ (Syncing \cup Thinking),
         pc[r] \in Calling, next \in Calling,
         NEW status \in ActiveStatuses,
         Becomes(r, [run[r] EXCEPT !.status = status], next),
         UNCHANGED <<call, sync, graph, history>>
  PROVE  LoopInv'
<1> DEFINE row == [run[r] EXCEPT !.status = status]
<1>1. run[r] \in RowType /\ history[r] \in HistoryType
  BY Now DEF GoodTypes
<1>2. /\ row \in RowType /\ row.status = status /\ row.scope = run[r].scope
      /\ row.feedback = run[r].feedback /\ row.duplicates = run[r].duplicates
  BY <1>1, StatusType DEF Statuses
<1>3. history[r].refused = 0
  BY Now DEF GoodFeedback
<1> HIDE DEF row
<1>4. GoodTypes(row, next, call[r], sync[r], history[r])
  BY <1>2, Now DEF GoodTypes
<1>5. GoodScope(row, history[r])
  BY <1>2, Now DEF GoodScope
<1>6. GoodFeedback(row, next, sync[r], history[r]) /\ GoodCount(row, next, history[r])
  BY <1>3, LoopAssumption DEF GoodFeedback, GoodCount, OnToThink, Syncing, Thinking
<1>7. Good(row, next, call[r], sync[r], history[r])
  BY <1>4, <1>5, <1>6 DEF Good
<1>8. run' = [run EXCEPT ![r] = row] /\ pc' = [pc EXCEPT ![r] = next]
  BY DEF Becomes, row
<1>9. /\ call' = [call EXCEPT ![r] = call[r]] /\ sync' = [sync EXCEPT ![r] = sync[r]]
      /\ history' = [history EXCEPT ![r] = history[r]] /\ graph' \subseteq Entities
  BY Same, Now
<1>10. Good(row, next, call[r], sync[r], history[r]) /\ r \in Runs /\ LoopInv
  BY <1>7
<1> QED  BY ONLY <1>8, <1>9, <1>10, Lands

-----------------------------------------------------------------------------
(* The think step. *)

LEMMA AskKeeps ==
  ASSUME LoopInv, NEW r \in Runs, Ask(r)
  PROVE  LoopInv'
<1> DEFINE row == [run[r] EXCEPT !.status = "running"]
<1>1. run[r] \in RowType /\ history[r] \in HistoryType
  BY Now DEF GoodTypes
<1>2. /\ row \in RowType /\ row.status = "running" /\ row.scope = run[r].scope
      /\ row.feedback = run[r].feedback /\ row.duplicates = run[r].duplicates
  BY <1>1, StatusType DEF Statuses, ActiveStatuses
<1>3. pc[r] = "think" /\ run[r].status # "failed"
  BY DEF Ask, Runnable
<1> HIDE DEF row
<1>4. GoodTypes(row, "asking", call[r], sync[r], history[r])
  BY <1>2, Now DEF GoodTypes, Pcs, BusyPcs, Calling
<1>5. GoodScope(row, history[r])
  BY <1>2, Now DEF GoodScope
<1>6. GoodFeedback(row, "asking", sync[r], history[r])
  BY <1>2, <1>3, Now DEF GoodFeedback, OnToThink, Syncing, Thinking, Calling
<1>7. GoodCount(row, "asking", history[r])
  BY <1>2, <1>3, Now DEF GoodCount, Thinking
<1>8. Good(row, "asking", call[r], sync[r], history[r])
  BY <1>4, <1>5, <1>6, <1>7 DEF Good
<1>9. /\ run' = [run EXCEPT ![r] = row] /\ pc' = [pc EXCEPT ![r] = "asking"]
      /\ call' = [call EXCEPT ![r] = call[r]] /\ sync' = [sync EXCEPT ![r] = sync[r]]
      /\ history' = [history EXCEPT ![r] = history[r]] /\ graph' \subseteq Entities
  BY Same, Now DEF Ask, Becomes, row
<1> QED  BY <1>8, <1>9, Lands

LEMMA AskAgainKeeps ==
  ASSUME LoopInv, NEW r \in Runs, AskAgain(r)
  PROVE  LoopInv'
<1> DEFINE n == run[r].attempt + 1
           row == [run[r] EXCEPT !.attempt = n]
<1>1. run[r] \in RowType /\ Shapes
  BY Now DEF GoodTypes
<1>2. n \in 1 .. RetryAttempts
  <2>1. RetryAttempts \in Nat \ {0}
    BY LoopAssumption
  <2> QED  BY <1>1, <2>1 DEF RowType, AskAgain
<1> HIDE DEF n
<1>3. /\ row \in RowType /\ row.status = run[r].status /\ row.scope = run[r].scope
      /\ row.feedback = run[r].feedback /\ row.duplicates = run[r].duplicates
  BY <1>1, <1>2 DEF RowType
<1>4. run' = [run EXCEPT ![r] = row]
  BY <1>1 DEF AskAgain, n, Shapes
<1> HIDE DEF row
<1>5. GoodTypes(row, pc[r], call[r], sync[r], history[r])
  BY <1>3, Now DEF GoodTypes
<1>6. GoodScope(row, history[r])
  BY <1>3, Now DEF GoodScope
<1>7. GoodFeedback(row, pc[r], sync[r], history[r]) /\ GoodCount(row, pc[r], history[r])
  BY <1>3, Now DEF GoodFeedback, GoodCount
<1>8. Good(row, pc[r], call[r], sync[r], history[r])
  BY <1>5, <1>6, <1>7 DEF Good
<1>9. /\ pc' = [pc EXCEPT ![r] = pc[r]]
      /\ call' = [call EXCEPT ![r] = call[r]] /\ sync' = [sync EXCEPT ![r] = sync[r]]
      /\ history' = [history EXCEPT ![r] = history[r]] /\ graph' \subseteq Entities
  BY Same, Now DEF AskAgain
<1> QED  BY <1>4, <1>8, <1>9, Lands

\* The four ways in which a step fails the run without a history of its own.
LEMMA FailuresKeep ==
  ASSUME LoopInv, NEW r \in Runs,
         GiveUp(r) \/ Astray(r) \/ (\E c \in Calls : Loop(r, c)) \/ Exceeded(r)
  PROVE  LoopInv'
<1>1. run[r] \in RowType /\ history[r] \in HistoryType /\ GoodScope(run[r], history[r])
  BY Now DEF GoodTypes
<1>2. /\ Charged(run[r], None) \in RowType
      /\ Charged(run[r], None).scope = run[r].scope
  BY <1>1, ChargedType
<1>3. GoodScope(Charged(run[r], None), history[r])
  BY <1>1, <1>2 DEF GoodScope
<1>4. \/ Fail(r, run[r]) /\ UNCHANGED history
      \/ Fail(r, Charged(run[r], None)) /\ UNCHANGED history
  BY DEF GiveUp, Astray, Loop, Exceeded
<1>5. UNCHANGED history => history' = [history EXCEPT ![r] = history[r]]
  BY Same, Now
<1>6. CASE Fail(r, run[r]) /\ UNCHANGED history
  BY <1>1, <1>5, <1>6, FailsGood
<1>7. CASE Fail(r, Charged(run[r], None)) /\ UNCHANGED history
  BY <1>1, <1>2, <1>3, <1>5, <1>7, FailsGood
<1> QED  BY <1>4, <1>6, <1>7

LEMMA FinishKeeps ==
  ASSUME LoopInv, NEW r \in Runs, Finish(r)
  PROVE  LoopInv'
<1> DEFINE charged == Charged(run[r], None)
           row == Cleared(charged)
<1>1. run[r] \in RowType
  BY Now DEF GoodTypes
<1>2. charged \in RowType /\ charged.scope = run[r].scope /\ charged.status = run[r].status
  BY <1>1, ChargedType
<1> HIDE DEF charged
<1>3. row \in RowType /\ row.scope = run[r].scope /\ row.status = run[r].status
  BY <1>2, ClearedType
<1> HIDE DEF row
<1>4. GoodTypes(row, "summary", call[r], sync[r], history[r])
  BY <1>3, Now DEF GoodTypes, Pcs, Calling
<1>5. GoodScope(row, history[r])
  BY <1>3, Now DEF GoodScope
<1>6. GoodFeedback(row, "summary", sync[r], history[r])
  BY DEF GoodFeedback, OnToThink, Syncing, Thinking, Calling
<1>7. GoodCount(row, "summary", history[r])
  BY <1>3, Now DEF GoodCount, Thinking
<1>8. Good(row, "summary", call[r], sync[r], history[r])
  BY <1>4, <1>5, <1>6, <1>7 DEF Good
<1>9. /\ run' = [run EXCEPT ![r] = row] /\ pc' = [pc EXCEPT ![r] = "summary"]
      /\ call' = [call EXCEPT ![r] = call[r]] /\ sync' = [sync EXCEPT ![r] = sync[r]]
      /\ history' = [history EXCEPT ![r] = history[r]] /\ graph' \subseteq Entities
  BY Same, Now DEF Finish, Becomes, row, charged
<1> QED  BY <1>8, <1>9, Lands
LEMMA RefuseKeeps ==
  ASSUME LoopInv, NEW r \in Runs, NEW c \in Calls, Refuse(r, c)
  PROVE  LoopInv'
<1> DEFINE charged == Charged(run[r], None)
           row == WithDuplicate(charged, c)
           n == history[r].refused + 1
           h == [history[r] EXCEPT !.refused = n]
<1>1. run[r] \in RowType /\ history[r] \in HistoryType /\ GoodScope(run[r], history[r])
  BY Now DEF GoodTypes
<1>2. /\ charged \in RowType /\ charged.scope = run[r].scope
      /\ charged.status = run[r].status /\ charged.duplicates = run[r].duplicates
  BY <1>1, ChargedType
<1> HIDE DEF charged
<1>3. /\ row \in RowType /\ row.scope = run[r].scope /\ row.status = run[r].status
      /\ row.duplicates = run[r].duplicates + 1 /\ row.feedback # <<>>
  BY <1>2, DuplicateType
<1> HIDE DEF row
<1>4. n \in Nat /\ n = history[r].refused + 1
  BY <1>1 DEF HistoryType
<1> HIDE DEF n
<1>5. /\ h \in HistoryType /\ h.refused = n /\ h.picked = history[r].picked
      /\ h.named = history[r].named /\ h.worked = history[r].worked
      /\ h.shown = history[r].shown /\ h.told = history[r].told
  BY <1>1, <1>4 DEF HistoryType
<1>6. history' = [history EXCEPT ![r] = h]
  BY DEF Refuse, Remember, n
<1> HIDE DEF h
<1>7. GoodScope(row, h)
  BY <1>1, <1>3, <1>5 DEF GoodScope
<1>8. pc[r] = "asking" /\ history[r].refused <= run[r].duplicates
  BY Now DEF Refuse, GoodCount, Thinking
<1>9. CASE row.duplicates >= DuplicateReadReplanLimit
  <2>1. Fail(r, row)
    BY <1>9 DEF Refuse, row, charged
  <2> QED  BY <2>1, <1>3, <1>5, <1>6, <1>7, FailsGood
<1>10. CASE ~(row.duplicates >= DuplicateReadReplanLimit)
  <2>1. GoodTypes(row, "think", call[r], sync[r], h)
    BY <1>3, <1>5, Now DEF GoodTypes, Pcs, Calling
  <2>2. GoodFeedback(row, "think", sync[r], h)
    BY <1>3 DEF GoodFeedback, Syncing, Calling
  <2>3. run[r].duplicates \in Nat /\ history[r].refused \in Nat
    BY <1>1 DEF RowType, HistoryType
  <2>4. DuplicateReadReplanLimit \in Nat
    BY LoopAssumption
  <2>5. GoodCount(row, "think", h)
    BY <1>3, <1>4, <1>5, <1>8, <1>10, <2>3, <2>4 DEF GoodCount
  <2>6. Good(row, "think", call[r], sync[r], h)
    BY <1>7, <2>1, <2>2, <2>5 DEF Good
  <2>7. Becomes(r, row, "think") /\ UNCHANGED <<call, sync, graph, memory, disturbed, bounds>>
    BY <1>10 DEF Refuse, row, charged
  <2>8. /\ run' = [run EXCEPT ![r] = row] /\ pc' = [pc EXCEPT ![r] = "think"]
        /\ call' = [call EXCEPT ![r] = call[r]] /\ sync' = [sync EXCEPT ![r] = sync[r]]
        /\ graph' \subseteq Entities
    BY <2>7, Same, Now DEF Becomes
  <2> QED  BY <1>6, <2>6, <2>8, Lands
<1> QED  BY <1>9, <1>10

LEMMA PlanKeeps ==
  ASSUME LoopInv, NEW r \in Runs, NEW c \in Calls, Plan(r, c)
  PROVE  LoopInv'
<1> DEFINE charged == Charged(run[r], None)
           row == Cleared(charged)
           h == [history[r] EXCEPT !.refused = 0]
<1>1. run[r] \in RowType /\ history[r] \in HistoryType /\ GoodScope(run[r], history[r])
  BY Now DEF GoodTypes
<1>2. charged \in RowType /\ charged.scope = run[r].scope
  BY <1>1, ChargedType
<1> HIDE DEF charged
<1>3. row \in RowType /\ row.scope = run[r].scope
  BY <1>2, ClearedType
<1> HIDE DEF row
<1>4. /\ h \in HistoryType /\ h.refused = 0 /\ h.picked = history[r].picked
      /\ h.named = history[r].named /\ h.worked = history[r].worked
      /\ h.shown = history[r].shown /\ h.told = history[r].told
  BY <1>1 DEF HistoryType
<1>5. history' = [history EXCEPT ![r] = h]
  BY DEF Plan, Remember
<1> HIDE DEF h
<1>6. GoodTypes(row, "tool", c, sync[r], h)
  BY <1>3, <1>4, Now DEF GoodTypes, Pcs
<1>7. GoodScope(row, h)
  BY <1>1, <1>3, <1>4 DEF GoodScope
<1>8. GoodFeedback(row, "tool", sync[r], h) /\ GoodCount(row, "tool", h)
  BY <1>4, LoopAssumption DEF GoodFeedback, GoodCount, OnToThink, Syncing, Thinking
<1>9. Good(row, "tool", c, sync[r], h)
  BY <1>6, <1>7, <1>8 DEF Good
<1>10. /\ run' = [run EXCEPT ![r] = row] /\ pc' = [pc EXCEPT ![r] = "tool"]
       /\ call' = [call EXCEPT ![r] = c] /\ sync' = [sync EXCEPT ![r] = sync[r]]
       /\ graph' \subseteq Entities
  BY Same, Now DEF Plan, Becomes, row, charged
<1> QED  BY <1>5, <1>9, <1>10, Lands

-----------------------------------------------------------------------------
(* The tool step. *)

\* What a claimed call is, and whom it may reach.
LEMMA CallFields ==
  ASSUME NEW c \in Calls
  PROVE  /\ c.tool \in Tools /\ c.entity \in Entities \cup {None}
         /\ c.link \in Entities \cup {None}
         /\ c.tool \in EntityTools \cup {"create_entity"} => c.entity \in Entities
<1>1. c \in CallType /\ (c.tool \in EntityTools \cup {"create_entity"} => c.entity # None)
  BY LoopAssumption
<1> QED  BY <1>1 DEF CallType

LEMMA StatusStepsKeep ==
  ASSUME LoopInv, NEW r \in Runs, AskApproval(r) \/ Approve(r) \/ Execute(r)
  PROVE  LoopInv'
<1>1. CASE AskApproval(r)
  <2>1. /\ pc[r] \in Calling /\ "waiting" \in Calling /\ "paused" \in ActiveStatuses
        /\ Becomes(r, [run[r] EXCEPT !.status = "paused"], "waiting")
        /\ UNCHANGED <<call, sync, graph, history>>
        /\ "waiting" \in Pcs \ (Syncing \cup Thinking)
    BY <1>1 DEF AskApproval, Calling, ActiveStatuses, Pcs, Syncing, Thinking
  <2> QED  BY <2>1, StatusGood
<1>2. CASE Approve(r)
  <2>1. /\ pc[r] \in Calling /\ "approved" \in Calling /\ "pending" \in ActiveStatuses
        /\ Becomes(r, [run[r] EXCEPT !.status = "pending"], "approved")
        /\ UNCHANGED <<call, sync, graph, history>>
        /\ "approved" \in Pcs \ (Syncing \cup Thinking)
    BY <1>2 DEF Approve, Calling, ActiveStatuses, Pcs, Syncing, Thinking
  <2> QED  BY <2>1, StatusGood
<1>3. CASE Execute(r)
  <2>1. /\ pc[r] \in Calling /\ "executing" \in Calling /\ "running" \in ActiveStatuses
        /\ Becomes(r, [run[r] EXCEPT !.status = "running"], "executing")
        /\ UNCHANGED <<call, sync, graph, history>>
        /\ "executing" \in Pcs \ (Syncing \cup Thinking)
    BY <1>3 DEF Execute, Calling, ActiveStatuses, Pcs, BusyPcs, Syncing, Thinking
  <2> QED  BY <2>1, StatusGood
<1> QED  BY <1>1, <1>2, <1>3

\* The history of a tool that has answered.
LEMMA AnsweredType ==
  ASSUME LoopInv, NEW r \in Runs, pc[r] = "executing", NEW told \in SUBSET Entities,
         Target(call[r]) \subseteq Entities, Rows(r, call[r]) \subseteq Entities
  PROVE  LET h == Answered(r, told)
         IN  /\ h \in HistoryType
             /\ h.refused = 0 /\ h.missed = 0
             /\ h.picked = history[r].picked /\ h.named = history[r].named
             /\ h.worked = history[r].worked \cup Target(call[r])
             /\ h.shown = history[r].shown \cup Rows(r, call[r]) \cup told
             /\ h.told = history[r].told \cup told
<1>1. history[r] \in HistoryType
  BY Now DEF GoodTypes
<1>2. history[r].refused = 0
  BY Now DEF GoodFeedback, Calling
<1>3. PICK worked \in SUBSET Entities : worked = history[r].worked \cup Target(call[r])
  BY <1>1 DEF HistoryType
<1>4. PICK shown \in SUBSET Entities : shown = history[r].shown \cup Rows(r, call[r]) \cup told
  BY <1>1 DEF HistoryType
<1>5. PICK heard \in SUBSET Entities : heard = history[r].told \cup told
  BY <1>1 DEF HistoryType
<1>6. PICK h : h = Answered(r, told)
  OBVIOUS
<1>7. h = [history[r] EXCEPT !.worked = worked, !.shown = shown, !.told = heard, !.missed = 0]
  BY <1>3, <1>4, <1>5, <1>6 DEF Answered
<1>8. /\ h \in HistoryType /\ h.refused = 0 /\ h.missed = 0
      /\ h.picked = history[r].picked /\ h.named = history[r].named
      /\ h.worked = worked /\ h.shown = shown /\ h.told = heard
  BY <1>1, <1>2, <1>7 DEF HistoryType
<1> QED  BY <1>3, <1>4, <1>5, <1>6, <1>8

\* A tool that resolves what it is asked for works on nothing out of scope, and
\* shows the rows of nothing else but of what it creates.
LEMMA RowsInScope ==
  ASSUME LoopInv, NEW r \in Runs, call[r] \in Calls,
         call[r].tool \in EntityTools => Resolves(r, call[r].entity),
         call[r].tool = "create_entity" /\ call[r].link # None => Resolves(r, call[r].link)
  PROVE  /\ Target(call[r]) \subseteq Entities /\ Rows(r, call[r]) \subseteq Entities
         /\ \A e \in Target(call[r]) : InScope(r, e)
         /\ \A e \in Rows(r, call[r]) :
              InScope(r, e) \/ (call[r].tool = "create_entity" /\ e = call[r].entity)
<1>1. graph \subseteq Entities
  BY Now
<1>2. CASE call[r].tool \in {"list_entities", "search_graph"}
  <2>1. Target(call[r]) = {}
    BY <1>2 DEF Target, EntityTools
  <2> DEFINE seen == {e \in graph : InScope(r, e)}
  <2>2. seen \subseteq graph /\ \A e \in seen : InScope(r, e)
    OBVIOUS
  <2>3. Rows(r, call[r]) =
          CASE call[r].tool \in {"list_entities", "search_graph"} -> seen
            [] call[r].tool \in EntityTools \cup {"create_entity"} ->
                 {call[r].entity} \cup Target(call[r])
            [] OTHER -> {}
    BY DEF Rows
  <2>4. call[r].tool \notin EntityTools \cup {"create_entity"}
    BY <1>2 DEF EntityTools
  <2> HIDE DEF seen
  <2>5. Rows(r, call[r]) = seen
    BY <1>2, <2>3, <2>4
  <2> QED  BY <1>1, <2>1, <2>2, <2>5
<1>3. CASE call[r].tool \in EntityTools
  <2>1. Target(call[r]) = {call[r].entity}
    BY <1>3 DEF Target, EntityTools
  <2>2. Rows(r, call[r]) = {call[r].entity} \cup Target(call[r])
    BY <1>3 DEF Rows, EntityTools
  <2> QED  BY <1>1, <1>3, <2>1, <2>2 DEF Resolves
<1>4. CASE call[r].tool = "create_entity"
  <2>1. Target(call[r]) = {call[r].link} \ {None}
    BY <1>4 DEF Target, EntityTools
  <2>2. Rows(r, call[r]) = {call[r].entity} \cup Target(call[r])
    BY <1>4 DEF Rows, EntityTools
  <2>3. call[r].entity \in Entities
    BY <1>4, CallFields
  <2> QED  BY <1>1, <1>4, <2>1, <2>2, <2>3 DEF Resolves
<1>5. CASE call[r].tool \notin {"list_entities", "search_graph", "create_entity"} \cup EntityTools
  <2>1. Target(call[r]) = {} /\ Rows(r, call[r]) = {}
    BY <1>5 DEF Target, Rows
  <2> QED  BY <2>1
<1> QED  BY <1>2, <1>3, <1>4, <1>5

\* What is in the scope of a run was picked by its user or named by its agent.
LEMMA ScopeGrows ==
  ASSUME LoopInv, NEW r \in Runs, NEW S,
         \A e \in S : InScope(r, e), run[r].scope.mode = "selected"
  PROVE  /\ S \subseteq history[r].picked \cup history[r].named
         /\ history[r].worked \subseteq history[r].picked \cup history[r].named
         /\ history[r].shown \subseteq
              history[r].picked \cup history[r].named \cup history[r].told
         /\ run[r].scope.ids \subseteq history[r].picked \cup history[r].named
BY Now DEF GoodScope, InScope

\* The tools that change neither the graph's scope nor the run's.
LEMMA AnswersKeep ==
  ASSUME LoopInv, NEW r \in Runs, pc[r] = "executing",
         call[r].tool \in EntityTools => Resolves(r, call[r].entity),
         call[r].tool # "create_entity",
         NEW told \in SUBSET Entities, NEW row \in RowType, row.scope = run[r].scope,
         ToolDone(r, row), graph' \subseteq Entities,
         history' = [history EXCEPT ![r] = Answered(r, told)]
  PROVE  LoopInv'
<1>1. call[r] \in Calls
  BY Now DEF GoodTypes, Calling
<1>2. /\ Target(call[r]) \subseteq Entities /\ Rows(r, call[r]) \subseteq Entities
      /\ \A e \in Target(call[r]) : InScope(r, e)
      /\ \A e \in Rows(r, call[r]) : InScope(r, e)
  BY <1>1, RowsInScope
<1>3. PICK h : h = Answered(r, told)
  OBVIOUS
<1>4. /\ h \in HistoryType /\ h.refused = 0 /\ h.missed = 0
      /\ h.picked = history[r].picked /\ h.named = history[r].named
      /\ h.worked = history[r].worked \cup Target(call[r])
      /\ h.shown = history[r].shown \cup Rows(r, call[r]) \cup told
      /\ h.told = history[r].told \cup told
  BY <1>2, <1>3, AnsweredType
<1>5. GoodScope(row, h)
  <2>1. ASSUME run[r].scope.mode = "selected"
        PROVE  /\ row.scope.ids \subseteq h.picked \cup h.named
               /\ h.worked \subseteq h.picked \cup h.named
               /\ h.shown \subseteq h.picked \cup h.named \cup h.told
    <3>1. /\ Target(call[r]) \subseteq history[r].picked \cup history[r].named
          /\ Rows(r, call[r]) \subseteq history[r].picked \cup history[r].named
      BY <1>2, <2>1, ScopeGrows
    <3>2. /\ history[r].worked \subseteq history[r].picked \cup history[r].named
          /\ history[r].shown \subseteq
               history[r].picked \cup history[r].named \cup history[r].told
          /\ run[r].scope.ids \subseteq history[r].picked \cup history[r].named
      BY <2>1, Now DEF GoodScope
    <3> QED  BY <1>4, <3>1, <3>2
  <2> QED  BY <2>1 DEF GoodScope
<1> QED  BY <1>1, <1>3, <1>4, <1>5, ToolDoneGood

LEMMA ReadsKeep ==
  ASSUME LoopInv, NEW r \in Runs, ReadResult(r) \/ ReadTool(r)
  PROVE  LoopInv'
<1>1. /\ pc[r] = "executing" /\ ToolDone(r, run[r]) /\ graph' = graph
      /\ call[r].tool \in EntityTools => Resolves(r, call[r].entity)
      /\ call[r].tool # "create_entity"
  BY DEF ReadResult, ReadTool, EntityTools, ReadOnlyTools
<1>2. PICK told \in SUBSET Entities : history' = [history EXCEPT ![r] = Answered(r, told)]
  <2>1. CASE ReadResult(r) /\ call[r].tool = "get_transform_result"
    <3>1. PICK result \in Results : Remember(r, Answered(r, result[1]))
      BY <2>1 DEF ReadResult
    <3>2. result[1] \in SUBSET Entities
      BY LoopAssumption
    <3> QED  BY <3>1, <3>2 DEF Remember
  <2>2. CASE Remember(r, Answered(r, {}))
    BY <2>2 DEF Remember
  <2> QED  BY <2>1, <2>2 DEF ReadResult, ReadTool
<1>3. run[r] \in RowType /\ graph' \subseteq Entities
  BY <1>1, Now DEF GoodTypes
<1> QED  BY <1>1, <1>2, <1>3, AnswersKeep

LEMMA RunTransformKeeps ==
  ASSUME LoopInv, NEW r \in Runs, RunTransform(r)
  PROVE  LoopInv'
<1>1. /\ pc[r] = "executing" /\ call[r].tool = "run_transform"
      /\ Resolves(r, call[r].entity)
  BY DEF RunTransform
<1>2. PICK result \in Results :
        /\ graph' = graph \cup result[1]
        /\ ToolDone(r, Scored(run[r], call[r], result[1], result[2]))
        /\ history' = [history EXCEPT ![r] = Answered(r, result[1])]
  BY DEF RunTransform, Remember
<1>3. result[1] \in SUBSET Entities /\ result[2] \in SUBSET Links
  BY LoopAssumption
<1>4. call[r] \in Calls /\ run[r] \in RowType /\ graph' \subseteq Entities
  BY <1>1, <1>2, <1>3, Now DEF GoodTypes, Calling
<1>5. PICK row : row = Scored(run[r], call[r], result[1], result[2])
  OBVIOUS
<1>6. row \in RowType /\ row.scope = run[r].scope
  BY <1>3, <1>4, <1>5, ScoredType
<1>7. ToolDone(r, row)
  BY <1>2, <1>5
<1>8. PICK told \in SUBSET Entities : told = result[1]
  BY <1>3
<1>9. history' = [history EXCEPT ![r] = Answered(r, told)]
  BY <1>2, <1>8
<1>10. call[r].tool # "create_entity"
  BY <1>1
<1> QED  BY <1>1, <1>4, <1>6, <1>7, <1>9, <1>10, AnswersKeep

LEMMA CreateEntityKeeps ==
  ASSUME LoopInv, NEW r \in Runs, CreateEntity(r)
  PROVE  LoopInv'
<1> DEFINE wide == IF run[r].scope.mode = "selected"
                   THEN [run[r].scope EXCEPT !.ids = @ \cup {call[r].entity}]
                   ELSE run[r].scope
           grown == [run[r] EXCEPT !.scope = wide]
           added == [Answered(r, {}) EXCEPT !.named = @ \cup {call[r].entity}]
<1>1. PICK e, wider, row, h :
        e = call[r].entity /\ wider = wide /\ row = grown /\ h = added
  OBVIOUS
<1>2. /\ pc[r] = "executing" /\ call[r].tool = "create_entity"
      /\ call[r].link # None => Resolves(r, call[r].link)
      /\ graph' = graph \cup {e}
      /\ ToolDone(r, row)
      /\ history' = [history EXCEPT ![r] = h]
  BY <1>1 DEF CreateEntity, Remember
<1>3. call[r] \in Calls /\ run[r] \in RowType
  BY <1>2, Now DEF GoodTypes, Calling
<1>4. e \in Entities /\ call[r].tool \notin EntityTools
  BY <1>1, <1>2, <1>3, CallFields DEF EntityTools
<1>5. graph' \subseteq Entities
  BY <1>2, <1>4, Now
<1>6. run[r].scope \in ScopeType
  BY <1>3 DEF RowType
<1>7. /\ wider \in ScopeType /\ wider.mode = run[r].scope.mode
      /\ wider.mode = "selected" => wider.ids = run[r].scope.ids \cup {e}
  BY <1>1, <1>4, <1>6 DEF ScopeType
<1>8. row = [run[r] EXCEPT !.scope = wider]
  BY <1>1
<1>9. row \in RowType /\ row.scope = wider
  BY <1>3, <1>7, <1>8 DEF RowType
<1>10. /\ Target(call[r]) \subseteq Entities /\ Rows(r, call[r]) \subseteq Entities
       /\ \A x \in Target(call[r]) : InScope(r, x)
       /\ \A x \in Rows(r, call[r]) \ {e} : InScope(r, x)
  BY <1>1, <1>2, <1>3, <1>4, RowsInScope
<1>11. PICK none \in SUBSET Entities : none = {}
  OBVIOUS
<1>12. PICK t : t = Answered(r, none)
  OBVIOUS
<1>13. /\ t \in HistoryType /\ t.refused = 0 /\ t.missed = 0
       /\ t.picked = history[r].picked /\ t.named = history[r].named
       /\ t.worked = history[r].worked \cup Target(call[r])
       /\ t.shown = history[r].shown \cup Rows(r, call[r])
       /\ t.told = history[r].told
  <2>1. /\ t \in HistoryType /\ t.refused = 0 /\ t.missed = 0
        /\ t.picked = history[r].picked /\ t.named = history[r].named
        /\ t.worked = history[r].worked \cup Target(call[r])
        /\ t.shown = history[r].shown \cup Rows(r, call[r]) \cup none
        /\ t.told = history[r].told \cup none
    BY <1>2, <1>10, <1>12, AnsweredType
  <2> QED  BY <1>11, <2>1
<1>14. PICK named \in SUBSET Entities : named = history[r].named \cup {e}
  BY <1>4, <1>13 DEF HistoryType
<1>15. h = [t EXCEPT !.named = named]
  <2>1. h = [t EXCEPT !.named = t.named \cup {e}]
    BY <1>1, <1>11, <1>12
  <2> QED  BY <1>13, <1>14, <2>1
<1>16. /\ h \in HistoryType /\ h.refused = 0 /\ h.missed = 0
       /\ h.picked = t.picked /\ h.named = named
       /\ h.worked = t.worked /\ h.shown = t.shown /\ h.told = t.told
  BY <1>13, <1>15 DEF HistoryType
<1>17. GoodScope(row, h)
  <2>1. ASSUME row.scope.mode = "selected"
        PROVE  /\ row.scope.ids \subseteq h.picked \cup h.named
               /\ h.worked \subseteq h.picked \cup h.named
               /\ h.shown \subseteq h.picked \cup h.named \cup h.told
    <3>1. run[r].scope.mode = "selected" /\ row.scope.ids = run[r].scope.ids \cup {e}
      BY <1>7, <1>9, <2>1
    <3>2. /\ Target(call[r]) \subseteq history[r].picked \cup history[r].named
          /\ Rows(r, call[r]) \ {e} \subseteq history[r].picked \cup history[r].named
      <4>1. Target(call[r]) \subseteq history[r].picked \cup history[r].named
        BY <1>10, <3>1, ScopeGrows
      <4>2. (Rows(r, call[r]) \ {e}) \subseteq history[r].picked \cup history[r].named
        BY <1>10, <3>1, ScopeGrows
      <4> QED  BY <4>1, <4>2
    <3>3. /\ history[r].worked \subseteq history[r].picked \cup history[r].named
          /\ history[r].shown \subseteq
               history[r].picked \cup history[r].named \cup history[r].told
          /\ run[r].scope.ids \subseteq history[r].picked \cup history[r].named
      BY <3>1, Now DEF GoodScope
    <3> QED  BY <1>13, <1>14, <1>16, <3>1, <3>2, <3>3
  <2> QED  BY <2>1 DEF GoodScope
<1> HIDE DEF wide, grown, added
<1> QED  BY <1>2, <1>3, <1>5, <1>9, <1>16, <1>17, ToolDoneGood

LEMMA ToolInvalidKeeps ==
  ASSUME LoopInv, NEW r \in Runs, ToolInvalid(r)
  PROVE  LoopInv'
<1> DEFINE row == WithInvalid(run[r])
           n == history[r].missed + 1
           h == [history[r] EXCEPT !.missed = n]
<1>1. /\ run[r] \in RowType /\ history[r] \in HistoryType /\ GoodScope(run[r], history[r])
      /\ pc[r] = "executing" /\ call[r] \in Calls /\ history[r].refused = 0
      /\ graph \subseteq Entities
  BY Now DEF GoodTypes, GoodFeedback, Calling, ToolInvalid
<1>2. /\ row \in RowType /\ row.scope = run[r].scope /\ row.feedback # <<>>
  BY <1>1, InvalidType
<1>3. n \in Nat
  BY <1>1 DEF HistoryType
<1>4. history' = [history EXCEPT ![r] = h]
  BY DEF ToolInvalid, Remember
<1>5. \/ Fail(r, row)
      \/ /\ Becomes(r, Completed(row, call[r]), "read")
         /\ SyncThen(r, row.status, "think")
         /\ call' = [call EXCEPT ![r] = None]
         /\ graph' = graph
  BY DEF ToolInvalid
<1> HIDE DEF row, n
<1>6. /\ h \in HistoryType /\ h.refused = 0 /\ h.picked = history[r].picked
      /\ h.named = history[r].named /\ h.worked = history[r].worked
      /\ h.shown = history[r].shown /\ h.told = history[r].told
  BY <1>1, <1>3 DEF HistoryType
<1> HIDE DEF h
<1>7. GoodScope(row, h)
  BY <1>1, <1>2, <1>6 DEF GoodScope
<1>8. CASE Fail(r, row)
  BY <1>2, <1>4, <1>6, <1>7, <1>8, FailsGood
<1>9. CASE /\ Becomes(r, Completed(row, call[r]), "read")
           /\ SyncThen(r, row.status, "think")
           /\ call' = [call EXCEPT ![r] = None]
           /\ graph' = graph
  <2> DEFINE new == Completed(row, call[r])
             s == [NoSync EXCEPT !.status = row.status, !.then = "think"]
  <2>1. new \in RowType /\ new.scope = row.scope /\ new.feedback # <<>>
    BY <1>1, <1>2, CompletedType
  <2>2. DOMAIN s = SyncFields /\ s.then = "think"
    BY OpenedSync
  <2> HIDE DEF new, s
  <2>3. GoodTypes(new, "read", None, s, h)
    BY <1>6, <2>1, <2>2 DEF GoodTypes, Pcs, BusyPcs, Calling
  <2>4. GoodScope(new, h)
    BY <1>7, <2>1 DEF GoodScope
  <2>5. GoodFeedback(new, "read", s, h) /\ GoodCount(new, "read", h)
    BY <1>6, <2>1, LoopAssumption DEF GoodFeedback, GoodCount, Calling, Thinking
  <2>6. Good(new, "read", None, s, h)
    BY <2>3, <2>4, <2>5 DEF Good
  <2>7. /\ run' = [run EXCEPT ![r] = new] /\ pc' = [pc EXCEPT ![r] = "read"]
        /\ call' = [call EXCEPT ![r] = None] /\ sync' = [sync EXCEPT ![r] = s]
        /\ graph' \subseteq Entities
    BY <1>1, <1>9 DEF Becomes, SyncThen, new, s
  <2> QED  BY <1>4, <2>6, <2>7, Lands
<1> QED  BY <1>5, <1>8, <1>9
LEMMA ToolBreaksKeeps ==
  ASSUME LoopInv, NEW r \in Runs, ToolBreaks(r)
  PROVE  LoopInv'
<1> DEFINE new == [run[r] EXCEPT !.status = "failed"]
           s == [NoSync EXCEPT !.status = "failed", !.then = "over"]
<1>1. /\ run[r] \in RowType /\ history[r] \in HistoryType /\ GoodScope(run[r], history[r])
      /\ call[r] \in Calls /\ graph \subseteq Entities
  BY Now DEF GoodTypes, Calling, ToolBreaks
<1>2. new \in RowType /\ new.scope = run[r].scope /\ new.status = "failed"
  BY <1>1, StatusType DEF Statuses, EndedStatuses
<1>3. DOMAIN s = SyncFields /\ s.then = "over"
  BY OpenedSync
<1>4. PICK left \in Leftovers(call[r]) : graph' = graph \cup left
  BY DEF ToolBreaks
<1>5. left \subseteq Entities
  <2>1. CASE call[r].tool = "create_entity"
    <3>1. call[r].entity \in Entities
      BY <1>1, <2>1, CallFields
    <3> QED  BY <1>4, <2>1, <3>1 DEF Leftovers
  <2>2. CASE call[r].tool = "run_transform"
    <3>1. left \in UNION {SUBSET result[1] : result \in Results}
      BY <1>4, <2>2 DEF Leftovers
    <3>2. PICK result \in Results : left \in SUBSET result[1]
      BY <3>1
    <3> QED  BY <3>2, LoopAssumption
  <2>3. CASE call[r].tool \notin {"create_entity", "run_transform"}
    BY <1>4, <2>3 DEF Leftovers
  <2> QED  BY <2>1, <2>2, <2>3
<1>6. /\ run' = [run EXCEPT ![r] = new] /\ pc' = [pc EXCEPT ![r] = "read"]
      /\ call' = [call EXCEPT ![r] = None] /\ sync' = [sync EXCEPT ![r] = s]
      /\ history' = [history EXCEPT ![r] = history[r]] /\ graph' \subseteq Entities
  BY <1>1, <1>4, <1>5, Same, Now DEF ToolBreaks, Becomes, SyncThen
<1> HIDE DEF new, s
<1>7. GoodTypes(new, "read", None, s, history[r])
  BY <1>1, <1>2, <1>3 DEF GoodTypes, Pcs, BusyPcs, Calling
<1>8. GoodScope(new, history[r])
  BY <1>1, <1>2 DEF GoodScope
<1>9. GoodFeedback(new, "read", s, history[r]) /\ GoodCount(new, "read", history[r])
  BY <1>2, <1>3 DEF GoodFeedback, GoodCount, Syncing, Calling, Thinking, OnToThink
<1>10. Good(new, "read", None, s, history[r])
  BY <1>7, <1>8, <1>9 DEF Good
<1> QED  BY <1>6, <1>10, Lands

LEMMA SummarizeKeeps ==
  ASSUME LoopInv, NEW r \in Runs, Summarize(r)
  PROVE  LoopInv'
<1> DEFINE charged == Charged(run[r], None)
           new == [charged EXCEPT !.status = "completed"]
           s == [NoSync EXCEPT !.status = "completed", !.then = "over"]
<1>1. run[r] \in RowType /\ run[r].status # "failed"
  BY Now DEF GoodTypes, Summarize, Runnable
<1>2. charged \in RowType /\ charged.scope = run[r].scope
  BY <1>1, ChargedType
<1> HIDE DEF charged
<1>3. new \in RowType /\ new.scope = run[r].scope
  BY <1>2, StatusType DEF Statuses, EndedStatuses
<1>4. DOMAIN s = SyncFields /\ s.then = "over"
  BY OpenedSync
<1>5. /\ run' = [run EXCEPT ![r] = new] /\ pc' = [pc EXCEPT ![r] = "read"]
      /\ call' = [call EXCEPT ![r] = call[r]] /\ sync' = [sync EXCEPT ![r] = s]
      /\ history' = [history EXCEPT ![r] = history[r]] /\ graph' \subseteq Entities
  BY Same, Now DEF Summarize, Becomes, SyncThen, charged
<1> HIDE DEF new, s
<1>6. GoodTypes(new, "read", call[r], s, history[r])
  BY <1>3, <1>4, Now DEF GoodTypes, Pcs, BusyPcs, Calling
<1>7. GoodScope(new, history[r])
  BY <1>3, Now DEF GoodScope
<1>8. GoodFeedback(new, "read", s, history[r])
  BY <1>4 DEF GoodFeedback, Syncing, Calling, Thinking, OnToThink
<1>9. GoodCount(new, "read", history[r])
  BY <1>1, Now DEF GoodCount, Thinking
<1>10. Good(new, "read", call[r], s, history[r])
  BY <1>6, <1>7, <1>8, <1>9 DEF Good
<1> QED  BY <1>5, <1>10, Lands

-----------------------------------------------------------------------------
(* The project memory. *)

\* A session that goes on reading and writing leaves its run as it was.
LEMMA SyncGood ==
  ASSUME LoopInv, NEW r \in Runs, pc[r] \in Syncing, NEW next \in Syncing,
         pc' = [pc EXCEPT ![r] = next], UNCHANGED <<run, call, graph, history>>,
         NEW s, DOMAIN s = SyncFields, s.then = sync[r].then,
         sync' = [sync EXCEPT ![r] = s]
  PROVE  LoopInv'
<1>1. GoodTypes(run[r], next, call[r], s, history[r])
  BY Now DEF GoodTypes, Pcs, BusyPcs, Calling, Syncing
<1>2. GoodScope(run[r], history[r])
  BY Now
<1>3. GoodFeedback(run[r], next, s, history[r]) /\ GoodCount(run[r], next, history[r])
  BY Now DEF GoodFeedback, GoodCount, OnToThink, Syncing, Thinking, Calling
<1>4. Good(run[r], next, call[r], s, history[r])
  BY <1>1, <1>2, <1>3 DEF Good
<1>5. /\ run' = [run EXCEPT ![r] = run[r]] /\ call' = [call EXCEPT ![r] = call[r]]
      /\ history' = [history EXCEPT ![r] = history[r]] /\ graph' \subseteq Entities
  BY Same, Now
<1>6. /\ LoopInv /\ r \in Runs /\ pc' = [pc EXCEPT ![r] = next]
      /\ sync' = [sync EXCEPT ![r] = s]
  OBVIOUS
<1> QED  BY ONLY <1>4, <1>5, <1>6, Lands

LEMMA ReadMemoryKeeps ==
  ASSUME LoopInv, NEW r \in Runs, ReadMemory(r)
  PROVE  LoopInv'
<1>1. pc[r] \in Syncing /\ UNCHANGED <<run, call, graph, history>>
      /\ DOMAIN sync[r] = SyncFields
  BY Now DEF ReadMemory, Syncing, GoodTypes
<1>2. CASE memory = None
  <2>1. /\ pc' = [pc EXCEPT ![r] = "create"] /\ "create" \in Syncing
        /\ sync' = [sync EXCEPT ![r] = sync[r]]
    BY <1>2, Same, Now DEF ReadMemory, Syncing
  <2> QED  BY <1>1, <2>1, SyncGood
<1>3. CASE memory # None
  <2> DEFINE s == [sync[r] EXCEPT !.runs = memory.runs, !.paths = memory.paths,
                                  !.id = memory.id]
  <2>1. DOMAIN s = SyncFields /\ s.then = sync[r].then
    BY <1>1 DEF SyncFields
  <2>2. /\ pc' = [pc EXCEPT ![r] = "write"] /\ "write" \in Syncing
        /\ sync' = [sync EXCEPT ![r] = s]
    BY <1>3, Now DEF ReadMemory, Syncing, Shapes
  <2> HIDE DEF s
  <2> QED  BY <1>1, <2>1, <2>2, SyncGood
<1> QED  BY <1>2, <1>3

LEMMA CreateMemoryKeeps ==
  ASSUME LoopInv, NEW r \in Runs, CreateMemory(r)
  PROVE  LoopInv'
<1> DEFINE s == [sync[r] EXCEPT !.id = bounds.meddling]
<1>1. pc[r] \in Syncing /\ UNCHANGED <<run, call, graph, history>>
      /\ DOMAIN sync[r] = SyncFields
  BY Now DEF CreateMemory, Syncing, GoodTypes
<1>2. DOMAIN s = SyncFields /\ s.then = sync[r].then
  BY <1>1 DEF SyncFields
<1>3. /\ pc' = [pc EXCEPT ![r] = "write"] /\ "write" \in Syncing
      /\ sync' = [sync EXCEPT ![r] = s]
  BY Now DEF CreateMemory, Syncing, Shapes
<1> HIDE DEF s
<1> QED  BY <1>1, <1>2, <1>3, SyncGood

\* A session that is over lets its run go on or settles it.
LEMMA ContinueGood ==
  ASSUME LoopInv, NEW r \in Runs, pc[r] \in Syncing,
         NEW next \in {"think", "over", "stranded"},
         next = "think" => sync[r].then = "think",
         Continue(r, next), UNCHANGED <<call, graph>>,
         sync' = [sync EXCEPT ![r] = NoSync]
  PROVE  LoopInv'
<1>1. /\ run[r] \in RowType /\ GoodScope(run[r], history[r])
      /\ call[r] \in Calls \cup {None}
  BY Now DEF GoodTypes
<1>2. DOMAIN NoSync = SyncFields /\ NoSync.then = "over"
  BY DEF NoSync, SyncFields
<1>3. call' = [call EXCEPT ![r] = call[r]] /\ graph' = graph
  BY Same, Now
<1>4. CASE Settle(r, run[r])
  BY <1>1, <1>2, <1>3, <1>4, SettlesGood
<1>5. CASE next # "over" /\ pc' = [pc EXCEPT ![r] = next] /\ UNCHANGED <<run, history>>
  <2>1. GoodTypes(run[r], next, call[r], NoSync, history[r])
    BY <1>2, Now DEF GoodTypes, Pcs, Calling
  <2>2. GoodFeedback(run[r], next, NoSync, history[r])
    BY <1>5, Now DEF GoodFeedback, OnToThink, Syncing, Thinking, Calling
  <2>3. GoodCount(run[r], next, history[r])
    <3>1. next = "think" => history[r].refused = 0
      BY Now DEF GoodFeedback
    <3>2. run[r].duplicates \in Nat
      BY <1>1 DEF RowType
    <3> QED  BY <1>5, <3>1, <3>2, Now DEF GoodCount, Thinking
  <2>4. Good(run[r], next, call[r], NoSync, history[r])
    BY <1>1, <2>1, <2>2, <2>3 DEF Good
  <2>5. /\ run' = [run EXCEPT ![r] = run[r]]
        /\ history' = [history EXCEPT ![r] = history[r]] /\ graph' \subseteq Entities
    BY <1>5, Same, Now
  <2>6. /\ LoopInv /\ r \in Runs /\ pc' = [pc EXCEPT ![r] = next]
        /\ sync' = [sync EXCEPT ![r] = NoSync]
    BY <1>5
  <2> QED  BY ONLY <1>3, <2>4, <2>5, <2>6, Lands
<1> QED  BY <1>4, <1>5 DEF Continue

\* A run that fails after a commit goes on to its last session.
LEMMA FailLateKeeps ==
  ASSUME LoopInv, NEW r \in Runs, FailLate(r), UNCHANGED <<call, graph>>
  PROVE  LoopInv'
<1>1. PICK new, s : /\ new = [run[r] EXCEPT !.status = "failed"]
                    /\ s = [NoSync EXCEPT !.status = "failed", !.then = "over"]
  OBVIOUS
<1>2. run[r] \in RowType
  BY Now DEF GoodTypes
<1>3. new \in RowType /\ new.scope = run[r].scope /\ new.status = "failed"
  BY <1>1, <1>2, StatusType DEF Statuses, EndedStatuses
<1>4. DOMAIN s = SyncFields /\ s.then = "over"
  BY <1>1, OpenedSync
<1>5. /\ run' = [run EXCEPT ![r] = new] /\ pc' = [pc EXCEPT ![r] = "read"]
      /\ call' = [call EXCEPT ![r] = call[r]] /\ sync' = [sync EXCEPT ![r] = s]
      /\ history' = [history EXCEPT ![r] = history[r]] /\ graph' \subseteq Entities
  BY <1>1, Same, Now DEF FailLate, Becomes, SyncThen
<1>6. GoodTypes(new, "read", call[r], s, history[r])
  BY <1>3, <1>4, Now DEF GoodTypes, Pcs, BusyPcs, Calling
<1>7. GoodScope(new, history[r])
  BY <1>3, Now DEF GoodScope
<1>8. GoodFeedback(new, "read", s, history[r]) /\ GoodCount(new, "read", history[r])
  BY <1>3, <1>4 DEF GoodFeedback, GoodCount, Syncing, Calling, Thinking, OnToThink
<1>9. Good(new, "read", call[r], s, history[r])
  BY <1>6, <1>7, <1>8 DEF Good
<1> QED  BY <1>5, <1>9, Lands

LEMMA SessionEndsKeep ==
  ASSUME LoopInv, NEW r \in Runs,
         \/ WriteMemory(r) \/ MemoryConflict(r)
         \/ FailUnsynced(r) \/ WorkerDies(r)
  PROVE  LoopInv'
<1>1. sync[r].then \in {"think", "over"}
  BY Now DEF GoodTypes
<1>2. CASE WriteMemory(r) /\ ~FailLate(r)
  <2>1. /\ pc[r] \in Syncing /\ Continue(r, sync[r].then)
        /\ UNCHANGED <<call, graph>> /\ sync' = [sync EXCEPT ![r] = NoSync]
    BY <1>2 DEF WriteMemory, Syncing
  <2> QED  BY <1>1, <2>1, ContinueGood
<1>3. CASE FailLate(r)
  BY <1>3, FailLateKeeps DEF WriteMemory, FailUnsynced, MemoryConflict, WorkerDies, Unsynced
<1>4. CASE MemoryConflict(r) \/ WorkerDies(r)
  <2> DEFINE next == IF sync[r].then = "think" THEN "stranded" ELSE "over"
  <2>1. next \in {"think", "over", "stranded"} /\ next # "think"
    OBVIOUS
  <2>2. /\ pc[r] \in Syncing /\ Continue(r, next)
        /\ UNCHANGED <<call, graph>> /\ sync' = [sync EXCEPT ![r] = NoSync]
    BY <1>4 DEF MemoryConflict, WorkerDies, Unsynced, Syncing
  <2> HIDE DEF next
  <2> QED  BY <2>1, <2>2, ContinueGood
<1> QED  BY <1>2, <1>3, <1>4 DEF FailUnsynced

\* A run that was left without a step is settled.
LEMMA RecoverKeeps ==
  ASSUME LoopInv, NEW r \in Runs, RecoverStale(r)
  PROVE  LoopInv'
<1>1. PICK row : row = [run[r] EXCEPT !.status = "failed"]
  OBVIOUS
<1>2. /\ run[r] \in RowType /\ DOMAIN sync[r] = SyncFields
      /\ sync[r].then \in {"think", "over"} /\ call[r] \in Calls \cup {None}
  BY Now DEF GoodTypes
<1>3. row \in RowType /\ row.scope = run[r].scope
  BY <1>1, <1>2, StatusType DEF Statuses, EndedStatuses
<1>4. GoodScope(row, history[r])
  BY <1>3, Now DEF GoodScope
<1>5. /\ Settle(r, row) /\ graph' = graph
      /\ call' = [call EXCEPT ![r] = call[r]] /\ sync' = [sync EXCEPT ![r] = sync[r]]
  BY <1>1, Same, Now DEF RecoverStale
<1> QED  BY <1>2, <1>3, <1>4, <1>5, SettlesGood

-----------------------------------------------------------------------------
(* What users decide. *)

LEMMA CancelKeeps ==
  ASSUME LoopInv, NEW r \in Runs, Cancel(r)
  PROVE  LoopInv'
<1> DEFINE row == [run[r] EXCEPT !.status = "cancelled"]
<1>1. /\ run[r] \in RowType /\ run[r].status # "failed" /\ DOMAIN sync[r] = SyncFields
      /\ sync[r].then \in {"think", "over"}
  BY Now DEF GoodTypes, Cancel, Active, ActiveStatuses
<1>2. /\ row \in RowType /\ row.status = "cancelled" /\ row.scope = run[r].scope
      /\ row.feedback = run[r].feedback /\ row.duplicates = run[r].duplicates
  BY <1>1, StatusType DEF Statuses, EndedStatuses
<1>3. GoodScope(row, history[r])
  BY <1>2, Now DEF GoodScope
<1>4. sync' = [sync EXCEPT ![r] = sync[r]] /\ graph' = graph
  BY Same, Now DEF Cancel
<1>5. \/ Becomes(r, row, pc[r]) /\ UNCHANGED <<call, history>>
      \/ Settle(r, row) /\ call' = [call EXCEPT ![r] = None]
  BY DEF Cancel
<1> HIDE DEF row
<1>6. CASE Becomes(r, row, pc[r]) /\ UNCHANGED <<call, history>>
  <2>1. GoodTypes(row, pc[r], call[r], sync[r], history[r])
    BY <1>2, Now DEF GoodTypes
  <2>2. GoodFeedback(row, pc[r], sync[r], history[r])
    BY <1>2, Now DEF GoodFeedback
  <2>3. GoodCount(row, pc[r], history[r])
    BY <1>1, <1>2, Now DEF GoodCount
  <2>4. Good(row, pc[r], call[r], sync[r], history[r])
    BY <1>3, <2>1, <2>2, <2>3 DEF Good
  <2>5. /\ run' = [run EXCEPT ![r] = row] /\ pc' = [pc EXCEPT ![r] = pc[r]]
        /\ call' = [call EXCEPT ![r] = call[r]]
        /\ history' = [history EXCEPT ![r] = history[r]] /\ graph' \subseteq Entities
    BY <1>4, <1>6, Same, Now DEF Becomes
  <2> QED  BY <1>4, <2>4, <2>5, Lands
<1>7. CASE Settle(r, row) /\ call' = [call EXCEPT ![r] = None]
  BY <1>1, <1>2, <1>3, <1>4, <1>7, SettlesGood
<1> QED  BY <1>5, <1>6, <1>7

LEMMA RejectKeeps ==
  ASSUME LoopInv, NEW r \in Runs, Reject(r)
  PROVE  LoopInv'
<1>1. /\ run[r] \in RowType /\ GoodScope(run[r], history[r])
      /\ DOMAIN sync[r] = SyncFields /\ sync[r].then \in {"think", "over"}
  BY Now DEF GoodTypes
<1>2. /\ Settle(r, run[r]) /\ call' = [call EXCEPT ![r] = None]
      /\ sync' = [sync EXCEPT ![r] = sync[r]] /\ graph' = graph
  BY Same, Now DEF Reject
<1> QED  BY <1>1, <1>2, SettlesGood

LEMMA StartsKeep ==
  ASSUME LoopInv, NEW r \in Runs, Start(r) \/ \E q \in Runs : Retry(r, q)
  PROVE  LoopInv'
<1>1. CASE Start(r)
  <2>1. PICK scope \in Scopes : Launch(r, scope, scope.ids)
    BY <1>1 DEF Start
  <2>2. scope \in ScopeType /\ scope.ids \in SUBSET Entities
    BY LoopAssumption DEF ScopeType
  <2> QED  BY <2>1, <2>2, StartsGood
<1>2. CASE \E q \in Runs : Retry(r, q)
  <2>1. PICK q \in Runs : Retry(r, q)
    BY <1>2
  <2> DEFINE picked == history[q].picked \cup history[q].named
  <2>2. /\ run[q].scope \in ScopeType /\ picked \in SUBSET Entities
        /\ run[q].scope.mode = "selected" => run[q].scope.ids \subseteq picked
    BY Now DEF GoodTypes, GoodScope, RowType, HistoryType
  <2>3. Launch(r, run[q].scope, picked)
    BY <2>1 DEF Retry
  <2> HIDE DEF picked
  <2> QED  BY <2>2, <2>3, StartsGood
<1> QED  BY <1>1, <1>2
-----------------------------------------------------------------------------
(* The theorems. *)

LEMMA LoopInvInit == Init => LoopInv
<1> SUFFICES ASSUME Init  PROVE LoopInv
  OBVIOUS
<1> DEFINE scope == [mode |-> "all", ids |-> {}]
           row == [NewRun(scope) EXCEPT !.status = "absent"]
<1>1. Shapes /\ graph \subseteq Entities
  BY LoopAssumption DEF Init, Shapes
<1>2. /\ row \in RowType /\ row.scope = scope
  <2>1. scope \in ScopeType
    BY DEF ScopeType
  <2>2. NewRun(scope) \in RowType /\ NewRun(scope).scope = scope
    BY <2>1, NewRunType DEF NewRun
  <2> HIDE DEF scope
  <2> QED  BY <2>2, StatusType DEF Statuses
<1>3. NoHistory \in HistoryType /\ NoHistory.refused = 0 /\ NoHistory.missed = 0
  BY DEF NoHistory, HistoryType
<1>4. DOMAIN NoSync = SyncFields /\ NoSync.then = "over"
  BY DEF NoSync, SyncFields
<1>5. scope.mode # "selected"
  OBVIOUS
<1>6. ASSUME NEW r \in Runs
      PROVE  /\ run[r] = row /\ pc[r] = "none" /\ call[r] = None
             /\ sync[r] = NoSync /\ history[r] = NoHistory
  BY DEF Init
<1> HIDE DEF scope, row
<1>7. GoodTypes(row, "none", None, NoSync, NoHistory)
  BY <1>2, <1>3, <1>4 DEF GoodTypes, Pcs, Calling
<1>8. GoodScope(row, NoHistory)
  BY <1>2, <1>5 DEF GoodScope
<1>9. GoodFeedback(row, "none", NoSync, NoHistory) /\ GoodCount(row, "none", NoHistory)
  BY <1>3, LoopAssumption DEF GoodFeedback, GoodCount, OnToThink, Syncing, Thinking, Calling
<1>10. Good(row, "none", None, NoSync, NoHistory)
  BY <1>7, <1>8, <1>9 DEF Good
<1> QED  BY <1>1, <1>6, <1>10 DEF LoopInv

LEMMA LoopInvNext == LoopInv /\ [Next]_vars => LoopInv'
<1> SUFFICES ASSUME LoopInv, [Next]_vars  PROVE LoopInv'
  OBVIOUS
<1>1. ASSUME NEW r \in Runs, Thinks(r)  PROVE LoopInv'
  <2>1. CASE Ask(r)                       BY <2>1, AskKeeps
  <2>2. CASE AskAgain(r)                  BY <2>2, AskAgainKeeps
  <2>3. CASE GiveUp(r) \/ Astray(r)       BY <2>3, FailuresKeep
  <2>4. CASE Finish(r)                    BY <2>4, FinishKeeps
  <2>5. ASSUME NEW c \in Calls, Refuse(r, c)  PROVE LoopInv'
    BY <2>5, RefuseKeeps
  <2>6. CASE \E c \in Calls : Loop(r, c)  BY <2>6, FailuresKeep
  <2>7. ASSUME NEW c \in Calls, Plan(r, c)  PROVE LoopInv'
    BY <2>7, PlanKeeps
  <2> QED  BY <1>1, <2>1, <2>2, <2>3, <2>4, <2>5, <2>6, <2>7 DEF Thinks
<1>2. ASSUME NEW r \in Runs, Acts(r)  PROVE LoopInv'
  <2>1. CASE Exceeded(r)                       BY <2>1, FailuresKeep
  <2>2. CASE AskApproval(r) \/ Execute(r)      BY <2>2, StatusStepsKeep
  <2>3. CASE ReadTool(r) \/ ReadResult(r)      BY <2>3, ReadsKeep
  <2>4. CASE RunTransform(r)                   BY <2>4, RunTransformKeeps
  <2>5. CASE CreateEntity(r)                   BY <2>5, CreateEntityKeeps
  <2>6. CASE ToolInvalid(r)                    BY <2>6, ToolInvalidKeeps
  <2>7. CASE ToolBreaks(r)                     BY <2>7, ToolBreaksKeeps
  <2>8. CASE Summarize(r)                      BY <2>8, SummarizeKeeps
  <2> QED  BY <1>2, <2>1, <2>2, <2>3, <2>4, <2>5, <2>6, <2>7, <2>8 DEF Acts
<1>3. ASSUME NEW r \in Runs, Syncs(r)  PROVE LoopInv'
  <2>1. CASE ReadMemory(r)                          BY <2>1, ReadMemoryKeeps
  <2>2. CASE CreateMemory(r)                        BY <2>2, CreateMemoryKeeps
  <2>3. CASE \/ WriteMemory(r) \/ MemoryConflict(r)
             \/ FailUnsynced(r) \/ WorkerDies(r)      BY <2>3, SessionEndsKeep
  <2>4. CASE RecoverStale(r)                        BY <2>4, RecoverKeeps
  <2> QED  BY <1>3, <2>1, <2>2, <2>3, <2>4 DEF Syncs
<1>4. ASSUME NEW r \in Runs, Decides(r)  PROVE LoopInv'
  <2>1. CASE Start(r)    BY <2>1, StartsKeep
  <2>2. CASE Cancel(r)   BY <2>2, CancelKeeps
  <2>3. CASE Approve(r)  BY <2>3, StatusStepsKeep
  <2>4. CASE Reject(r)   BY <2>4, RejectKeeps
  <2> QED  BY <1>4, <2>1, <2>2, <2>3, <2>4 DEF Decides
<1>5. ASSUME NEW r \in Runs, NEW q \in Runs, Retry(r, q)  PROVE LoopInv'
  BY <1>5, StartsKeep
<1>6. ASSUME NEW e \in Entities, DeleteEntity(e)  PROVE LoopInv'
  <2>1. UNCHANGED <<run, pc, call, sync, history>> /\ graph' \subseteq graph
    BY <1>6 DEF DeleteEntity
  <2> QED  BY <2>1 DEF LoopInv, Shapes
<1>7. ASSUME ResetMemory \/ UNCHANGED vars  PROVE LoopInv'
  <2>1. UNCHANGED <<run, pc, call, sync, history, graph>>
    BY <1>7 DEF ResetMemory, vars
  <2> QED  BY <2>1 DEF LoopInv, Shapes
<1> QED  BY <1>1, <1>2, <1>3, <1>4, <1>5, <1>6, <1>7 DEF Next

THEOREM LoopInvariant == Spec => []LoopInv
BY LoopInvInit, LoopInvNext, PTL DEF Spec

\* Every reachable state is well typed, and a run whose model was refused
\* DuplicateReadReplanLimit times in a row has failed: two of the three parts
\* of LimitsKept (agent/orchestrator.py:239-260).
THEOREM RefusalsEnd == Spec => [](TypeOK /\ RefusalsBounded)
<1>1. LoopInv => TypeOK /\ RefusalsBounded
  <2> SUFFICES ASSUME LoopInv  PROVE TypeOK /\ RefusalsBounded
    OBVIOUS
  <2>1. RefusalsBounded
    BY Now DEF RefusalsBounded, GoodCount
  <2>2. ASSUME NEW r \in Runs
        PROVE  /\ run[r].status \in Statuses
               /\ run[r].scope \in ScopeType
               /\ run[r].entities \subseteq Entities /\ run[r].links \subseteq Links
               /\ run[r].attempt \in 1 .. RetryAttempts
               /\ pc[r] \in Pcs
               /\ call[r] \in Calls \cup {None}
               /\ sync[r].then \in {"think", "over"}
    BY Now DEF GoodTypes, RowType
  <2> QED  BY <2>1, <2>2, Now DEF TypeOK, LoopInv
<1> QED  BY <1>1, LoopInvariant, PTL

\* No tool of a run with a selected scope works on an entity that its user did not
\* pick and its agent did not name in create_entity, and what else it is shown
\* comes from results of transforms, whatever the users and the runs of the
\* project do at the same time (_ensure_scope, _resolve_entity, the scope
\* extension of create_entity, retry_agent_run, get_transform_result).
THEOREM ScopesHold == Spec => []ScopeKept
<1>1. LoopInv => ScopeKept
  BY Now DEF ScopeKept, GoodScope
<1> QED  BY <1>1, LoopInvariant, PTL

\* The prompt that follows a refused or an invalid choice has a complaint in it
\* (_append_policy_feedback, _clear_policy_feedback, build_messages).
THEOREM ComplaintsReachTheModel == Spec => []ComplaintsAreHeard
<1>1. LoopInv => ComplaintsAreHeard
  <2> SUFFICES ASSUME LoopInv, NEW r \in Runs, pc[r] \in {"think", "asking"},
                      history[r].refused + history[r].missed > 0
               PROVE  Prompt(r).feedback # <<>>
    BY DEF ComplaintsAreHeard
  <2>1. run[r].feedback # <<>>
    BY Now DEF GoodFeedback, OnToThink, Thinking
  <2>2. run[r].feedback \in Seq(Lines)
    BY Now DEF GoodTypes, RowType
  <2>3. 3 \in Nat \ {0}
    OBVIOUS
  <2>4. Latest(run[r].feedback, 3) # <<>>
    BY <2>1, <2>2, <2>3, LatestProperties
  <2>5. Prompt(r).feedback = FeedbackShown(r)
    BY DEF Prompt
  <2> QED  BY <2>4, <2>5 DEF FeedbackShown
<1> QED  BY <1>1, LoopInvariant, PTL
-----------------------------------------------------------------------------
(***************************************************************************)
(* Families that are worn out.  Nothing is forgotten of the exhausted      *)
(* families as long as the budget does not allow for eleven of them: each  *)
(* one has cost FamilyMinRuns transforms.                                  *)
(***************************************************************************)
FewFamilies == MaxTransforms < 11 * FamilyMinRuns

\* The remembered outcomes that have not been part of an exhaustion.
Unrested(outcomes, exhausted) ==
  {i \in DOMAIN outcomes : outcomes[i].family \notin Range(exhausted)}

GoodFamilies(outcomes, exhausted, transforms) ==
  /\ \A f \in Families : WornOut(outcomes, f) => f \in Range(exhausted)
  /\ FamilyMinRuns * Len(exhausted) + Cardinality(Unrested(outcomes, exhausted)) <= transforms
  /\ transforms <= MaxTransforms

\* The latest entries are those at the end, in their order.
LEMMA LatestShift ==
  ASSUME NEW S, NEW s \in Seq(S), NEW n \in Nat \ {0}
  PROVE  /\ Latest(s, n) \in Seq(S)
         /\ \E d \in Nat : /\ Len(Latest(s, n)) + d = Len(s)
                           /\ Len(s) <= n => d = 0
                           /\ \A i \in 1 .. Len(Latest(s, n)) : Latest(s, n)[i] = s[i + d]
<1> DEFINE d == IF Len(s) > n THEN Len(s) - n ELSE 0
<1>1. Len(s) \in Nat
  OBVIOUS
<1>2. d \in Nat /\ (Len(s) <= n => d = 0) /\ d <= Len(s)
  BY <1>1
<1>3. Latest(s, n) = SubSeq(s, d + 1, Len(s))
  BY <1>1 DEF Latest
<1> HIDE DEF d
<1>4. \A i \in d + 1 .. Len(s) : s[i] \in S
  BY <1>1, <1>2
<1>5. /\ SubSeq(s, d + 1, Len(s)) \in Seq(S)
      /\ Len(SubSeq(s, d + 1, Len(s))) = IF d + 1 <= Len(s) THEN Len(s) - d ELSE 0
      /\ \A i \in 1 .. Len(s) - d : SubSeq(s, d + 1, Len(s))[i] = s[d + i]
  BY <1>1, <1>2, <1>4, SubSeqProperties
<1>6. Len(SubSeq(s, d + 1, Len(s))) + d = Len(s)
  BY <1>1, <1>2, <1>5
<1>7. \A i \in 1 .. Len(SubSeq(s, d + 1, Len(s))) :
        SubSeq(s, d + 1, Len(s))[i] = s[i + d]
  BY <1>1, <1>2, <1>5, <1>6
<1> QED  BY <1>2, <1>3, <1>5, <1>6, <1>7

\* A set of places that all move by the same distance into another set is not
\* larger than that.
LEMMA Shifted ==
  ASSUME NEW A \in SUBSET Nat, NEW B \in SUBSET Nat, IsFiniteSet(B), NEW d \in Nat,
         \A i \in A : i + d \in B
  PROVE  IsFiniteSet(A) /\ Cardinality(A) <= Cardinality(B)
<1> DEFINE f == [i \in A |-> i + d]
<1>1. f \in Injection(A, B)
  BY DEF Injection, IsInjective
<1> HIDE DEF f
<1> QED  BY <1>1, FS_Injection

LEMMA PlacesFinite ==
  ASSUME NEW S, NEW s \in Seq(S), NEW A \in SUBSET (DOMAIN s)
  PROVE  IsFiniteSet(A) /\ A \subseteq Nat /\ Cardinality(A) \in Nat
<1>1. Len(s) \in Nat /\ DOMAIN s = 1 .. Len(s) /\ IsFiniteSet(1 .. Len(s))
  BY FS_Interval
<1> QED  BY <1>1, FS_Subset, FS_CardinalityType

\* What slides out of the memory wears no other family out.
LEMMA OthersWearNoFurther ==
  ASSUME NEW old \in Seq(Outcomes), NEW x \in Outcomes, NEW new \in Seq(Outcomes),
         NEW d \in Nat, Len(new) + d = Len(old) + 1,
         \A i \in 1 .. Len(new) : new[i] = Append(old, x)[i + d],
         NEW f, f # x.family, WornOut(new, f)
  PROVE  WornOut(old, f)
<1>1. Len(old) \in Nat /\ DOMAIN old = 1 .. Len(old) /\ DOMAIN new = 1 .. Len(new)
      /\ Len(new) \in Nat
  OBVIOUS
<1>2. ASSUME NEW i \in 1 .. Len(new), new[i].family = f
      PROVE  i + d \in 1 .. Len(old) /\ new[i] = old[i + d]
  <2>1. i + d \in 1 .. Len(old) + 1
    BY <1>1
  <2>2. CASE i + d = Len(old) + 1
    <3>1. Append(old, x)[i + d] = x
      BY <2>2
    <3> QED  BY <1>2, <3>1
  <2>3. CASE i + d # Len(old) + 1
    <3>1. i + d \in 1 .. Len(old)
      BY <1>1, <2>1, <2>3
    <3>2. Append(old, x)[i + d] = old[i + d]
      BY <3>1
    <3> QED  BY <3>1, <3>2
  <2> QED  BY <2>2, <2>3
<1> DEFINE A == HistoryOf(new, f)
           B == HistoryOf(old, f)
<1>3. A \subseteq 1 .. Len(new) /\ B \subseteq 1 .. Len(old)
      /\ \A i \in A : i + d \in B
  BY <1>1, <1>2 DEF HistoryOf
<1>4. /\ IsFiniteSet(A) /\ A \subseteq Nat /\ Cardinality(A) \in Nat
      /\ IsFiniteSet(B) /\ B \subseteq Nat /\ Cardinality(B) \in Nat
  BY <1>1, <1>3, PlacesFinite
<1>5. Cardinality(A) <= Cardinality(B)
  BY <1>3, <1>4, Shifted
<1>6. ASSUME NEW i \in Greatest(A, 3)  PROVE i + d \in Greatest(B, 3)
  <2> DEFINE Above == {y \in A : y > i}
             Beyond == {y \in B : y > i + d}
  <2>1. i \in A /\ Cardinality(Above) < 3
    BY DEF Greatest
  <2>2. \A y \in Beyond : y - d \in Above
    <3> SUFFICES ASSUME NEW y \in B, y > i + d  PROVE y - d \in A /\ y - d > i
      OBVIOUS
    <3>1. y \in 1 .. Len(old) /\ old[y].family = f /\ i \in 1 .. Len(new)
      BY <1>1, <1>3, <2>1 DEF HistoryOf
    <3>2. y - d \in 1 .. Len(new) /\ y - d > i /\ (y - d) + d = y
      BY <1>1, <3>1
    <3>3. Append(old, x)[y] = old[y]
      BY <3>1
    <3>4. new[y - d].family = f
      BY <3>1, <3>2, <3>3
    <3> QED  BY <1>1, <3>2, <3>4 DEF HistoryOf
  <2>3. /\ IsFiniteSet(Above) /\ Above \subseteq Nat /\ Cardinality(Above) \in Nat
        /\ IsFiniteSet(Beyond) /\ Beyond \subseteq Nat /\ Cardinality(Beyond) \in Nat
    <3>1. Above \subseteq DOMAIN new /\ Beyond \subseteq DOMAIN old
      BY <1>1, <1>3
    <3> HIDE DEF Above, Beyond, A, B
    <3> QED  BY <3>1, PlacesFinite
  <2>4. Cardinality(Beyond) <= Cardinality(Above)
    <3> DEFINE g == [y \in Beyond |-> y - d]
    <3>1. g \in Injection(Beyond, Above)
      BY <2>2, <2>3 DEF Injection, IsInjective
    <3> HIDE DEF g, Above, Beyond
    <3> QED  BY <2>3, <3>1, FS_Injection
  <2>5. Cardinality(Beyond) < 3
    <3> HIDE DEF Above, Beyond
    <3> QED  BY <2>1, <2>3, <2>4
  <2> QED  BY <1>3, <2>1, <2>5 DEF Greatest
<1>7. \A i \in RecentLow(new, f) : i + d \in RecentLow(old, f)
  <2> SUFFICES ASSUME NEW i \in Greatest(A, 3), new[i].low
               PROVE  i + d \in Greatest(B, 3) /\ old[i + d].low
    BY DEF RecentLow
  <2>1. i \in 1 .. Len(new) /\ new[i].family = f
    BY <1>1 DEF Greatest, HistoryOf
  <2> QED  BY <1>2, <1>6, <2>1
<1>8. /\ RecentLow(new, f) \subseteq DOMAIN new /\ RecentLow(old, f) \subseteq DOMAIN old
  BY DEF RecentLow, Greatest, HistoryOf
<1>9. Cardinality(RecentLow(new, f)) <= Cardinality(RecentLow(old, f))
  <2>1. /\ RecentLow(new, f) \subseteq Nat
        /\ IsFiniteSet(RecentLow(old, f)) /\ RecentLow(old, f) \subseteq Nat
    BY <1>8, PlacesFinite
  <2> QED  BY <1>7, <2>1, Shifted
<1>10. /\ Cardinality(RecentLow(new, f)) \in Nat /\ Cardinality(RecentLow(old, f)) \in Nat
  BY <1>8, PlacesFinite
<1>11. FamilyMinRuns \in Nat /\ LowYieldThreshold \in Nat
  BY LoopAssumption
<1>12. Cardinality(A) >= FamilyMinRuns /\ Cardinality(RecentLow(new, f)) >= LowYieldThreshold
  BY DEF WornOut
<1> HIDE DEF A, B
<1>13. Cardinality(B) >= FamilyMinRuns /\ Cardinality(RecentLow(old, f)) >= LowYieldThreshold
  BY <1>4, <1>5, <1>9, <1>10, <1>11, <1>12
<1> QED  BY <1>13 DEF WornOut, B
LEMMA ContainsRange ==
  ASSUME NEW S, NEW s \in Seq(S), NEW x
  PROVE  Contains(s, x) <=> x \in Range(s)
BY DEF Contains, Range

LEMMA AppendedRange ==
  ASSUME NEW S, NEW s \in Seq(S), NEW x \in S
  PROVE  Range(Append(s, x)) = Range(s) \cup {x}
<1>1. Len(s) \in Nat /\ DOMAIN s = 1 .. Len(s) /\ DOMAIN Append(s, x) = 1 .. Len(s) + 1
  OBVIOUS
<1>2. \A i \in 1 .. Len(s) : Append(s, x)[i] = s[i]
  OBVIOUS
<1>3. Append(s, x)[Len(s) + 1] = x
  OBVIOUS
<1>4. \A i \in 1 .. Len(s) + 1 : i \in 1 .. Len(s) \/ i = Len(s) + 1
  BY <1>1
<1>5. 1 .. Len(s) \subseteq 1 .. Len(s) + 1 /\ Len(s) + 1 \in 1 .. Len(s) + 1
  BY <1>1
<1> QED  BY <1>1, <1>2, <1>3, <1>4, <1>5 DEF Range

\* One more outcome leaves one more unrested at most; those of a family that is
\* exhausted by it are unrested no more.
LEMMA UnrestedCount ==
  ASSUME NEW old \in Seq(Outcomes), NEW x \in Outcomes, NEW new \in Seq(Outcomes),
         NEW d \in Nat, Len(new) + d = Len(old) + 1,
         \A i \in 1 .. Len(new) : new[i] = Append(old, x)[i + d],
         NEW exhausted \in Seq(Families), x.family \in Families
  PROVE  /\ Cardinality(Unrested(new, exhausted)) <= Cardinality(Unrested(old, exhausted)) + 1
         /\ x.family \notin Range(exhausted) =>
              Cardinality(Unrested(new, Append(exhausted, x.family)))
                + Cardinality(HistoryOf(new, x.family))
              <= Cardinality(Unrested(old, exhausted)) + 1
<1>1. Len(old) \in Nat /\ DOMAIN old = 1 .. Len(old) /\ DOMAIN new = 1 .. Len(new)
      /\ Len(new) \in Nat
  OBVIOUS
<1> DEFINE U == Unrested(old, exhausted)
           V == Unrested(new, exhausted)
           W == Unrested(new, Append(exhausted, x.family))
           H == HistoryOf(new, x.family)
           B == U \cup {Len(old) + 1}
<1>2. U \subseteq DOMAIN old /\ V \subseteq DOMAIN new /\ W \subseteq DOMAIN new
      /\ H \subseteq DOMAIN new
  BY DEF Unrested, HistoryOf
<1>3. /\ IsFiniteSet(U) /\ U \subseteq Nat /\ Cardinality(U) \in Nat
      /\ IsFiniteSet(V) /\ V \subseteq Nat /\ Cardinality(V) \in Nat
      /\ IsFiniteSet(W) /\ W \subseteq Nat /\ Cardinality(W) \in Nat
      /\ IsFiniteSet(H) /\ H \subseteq Nat /\ Cardinality(H) \in Nat
  <2> HIDE DEF U, V, W, H
  <2> QED  BY <1>2, PlacesFinite
<1>4. IsFiniteSet(B) /\ Cardinality(B) = Cardinality(U) + 1 /\ B \subseteq Nat
  <2>1. Len(old) + 1 \notin U
    BY <1>1, <1>2
  <2>2. Len(old) + 1 \in Nat
    BY <1>1
  <2> HIDE DEF U
  <2>3. IsFiniteSet(U \cup {Len(old) + 1})
        /\ Cardinality(U \cup {Len(old) + 1}) = Cardinality(U) + 1
    BY <1>3, <2>1, FS_AddElement
  <2> QED  BY <1>3, <2>2, <2>3
<1>5. ASSUME NEW i \in 1 .. Len(new), new[i].family \notin Range(exhausted)
      PROVE  i + d \in B
  <2>1. i + d \in 1 .. Len(old) + 1
    BY <1>1
  <2>2. CASE i + d = Len(old) + 1
    BY <2>2
  <2>3. CASE i + d # Len(old) + 1
    <3>1. i + d \in 1 .. Len(old)
      BY <1>1, <2>1, <2>3
    <3>2. Append(old, x)[i + d] = old[i + d]
      BY <3>1
    <3>3. old[i + d].family \notin Range(exhausted)
      BY <1>5, <3>2
    <3> QED  BY <1>1, <3>1, <3>3 DEF Unrested
  <2> QED  BY <2>2, <2>3
<1>6. Cardinality(V) <= Cardinality(B)
  <2>1. \A i \in V : i + d \in B
    <3> HIDE DEF B
    <3> QED  BY <1>1, <1>5 DEF Unrested
  <2> HIDE DEF V, B
  <2> QED  BY <1>3, <1>4, <2>1, Shifted
<1>7. ASSUME x.family \notin Range(exhausted)
      PROVE  Cardinality(W) + Cardinality(H) <= Cardinality(B)
  <2>1. Range(Append(exhausted, x.family)) = Range(exhausted) \cup {x.family}
    BY AppendedRange
  <2>2. W \cap H = {} /\ \A i \in W \cup H : i + d \in B
    <3>1. \A i \in W : new[i].family # x.family /\ new[i].family \notin Range(exhausted)
      BY <2>1 DEF Unrested
    <3>2. \A i \in H : new[i].family = x.family
      BY DEF HistoryOf
    <3> HIDE DEF W, H, B
    <3> QED  BY <1>1, <1>2, <1>5, <1>7, <3>1, <3>2
  <2> HIDE DEF W, H, B
  <2>3. IsFiniteSet(W \cup H) /\ W \cup H \subseteq Nat
        /\ Cardinality(W \cup H) = Cardinality(W) + Cardinality(H)
    <3>1. Cardinality(W \cap H) = 0
      BY <2>2, FS_EmptySet
    <3>2. Cardinality(W \cup H) = Cardinality(W) + Cardinality(H) - Cardinality(W \cap H)
          /\ IsFiniteSet(W \cup H)
      BY <1>3, FS_Union
    <3> QED  BY <1>3, <3>1, <3>2
  <2> QED  BY <1>4, <2>2, <2>3, Shifted
<1> QED  BY <1>4, <1>6, <1>7

\* One more run of a family that is not exhausted.
LEMMA ScoredFamilies ==
  ASSUME FewFamilies, NEW row \in RowType, NEW c \in Calls,
         NEW ents \in SUBSET Entities, NEW links \in SUBSET Links,
         GoodFamilies(row.outcomes, row.exhausted, row.transforms),
         row.transforms < MaxTransforms, ~Contains(row.exhausted, c.family),
         NEW new, new = Scored(row, c, ents, links)
  PROVE  /\ new \in RowType /\ new.transforms = row.transforms
         /\ GoodFamilies(new.outcomes, new.exhausted, row.transforms + 1)
<1>1. PICK low : low = LowYield(ents \ row.entities, links \ row.links)
  OBVIOUS
<1>2. PICK x : x = [family |-> c.family, low |-> low]
  OBVIOUS
<1>3. x \in Outcomes /\ x.family = c.family /\ c.family \in Families
  BY <1>1, <1>2 DEF Outcomes, LowYield, Families
<1>4. /\ row.outcomes \in Seq(Outcomes) /\ row.exhausted \in Seq(Families)
      /\ row.transforms \in Nat
  BY DEF RowType
<1>5. PICK outs : outs = Latest(Append(row.outcomes, x), TransformMemoryLimit)
  OBVIOUS
<1>6. TransformMemoryLimit \in Nat \ {0} /\ FamilyMinRuns \in Nat \ {0} /\ MaxTransforms \in Nat
  BY LoopAssumption
<1>7. Append(row.outcomes, x) \in Seq(Outcomes) /\ Len(Append(row.outcomes, x)) = Len(row.outcomes) + 1
  BY <1>3, <1>4
<1>8. /\ outs \in Seq(Outcomes)
      /\ \E d \in Nat : /\ Len(outs) + d = Len(row.outcomes) + 1
                        /\ \A i \in 1 .. Len(outs) : outs[i] = Append(row.outcomes, x)[i + d]
  <2>1. PICK long : long = Append(row.outcomes, x)
    OBVIOUS
  <2>2. long \in Seq(Outcomes) /\ Len(long) = Len(row.outcomes) + 1
    BY <1>7, <2>1
  <2>3. /\ Latest(long, TransformMemoryLimit) \in Seq(Outcomes)
        /\ \E d \in Nat : /\ Len(Latest(long, TransformMemoryLimit)) + d = Len(long)
                          /\ Len(long) <= TransformMemoryLimit => d = 0
                          /\ \A i \in 1 .. Len(Latest(long, TransformMemoryLimit)) :
                               Latest(long, TransformMemoryLimit)[i] = long[i + d]
    BY <1>6, <2>2, LatestShift
  <2>4. outs = Latest(long, TransformMemoryLimit)
    BY <1>5, <2>1
  <2>5. outs \in Seq(Outcomes)
    BY <2>3, <2>4
  <2>6. \E d \in Nat : Len(outs) + d = Len(long) /\ \A i \in 1 .. Len(outs) : outs[i] = long[i + d]
    BY <2>3, <2>4
  <2> QED  BY <2>1, <2>2, <2>5, <2>6
<1>9. PICK d \in Nat : /\ Len(outs) + d = Len(row.outcomes) + 1
                       /\ \A i \in 1 .. Len(outs) : outs[i] = Append(row.outcomes, x)[i + d]
  BY <1>8
<1>10. new \in RowType
  BY ScoredType
<1>11. /\ new.outcomes = outs /\ new.transforms = row.transforms
       /\ new.exhausted = IF WornOut(outs, c.family)
                          THEN Latest(Append(row.exhausted, c.family), 10) ELSE row.exhausted
  BY <1>1, <1>2, <1>5 DEF Scored, RowType
<1>12. c.family \notin Range(row.exhausted)
  BY <1>4, ContainsRange
<1>13. Cardinality(Unrested(outs, row.exhausted)) <= Cardinality(Unrested(row.outcomes, row.exhausted)) + 1
       /\ Cardinality(Unrested(outs, Append(row.exhausted, c.family)))
            + Cardinality(HistoryOf(outs, c.family))
          <= Cardinality(Unrested(row.outcomes, row.exhausted)) + 1
  BY <1>3, <1>4, <1>8, <1>9, <1>12, UnrestedCount
<1>14. ASSUME NEW f \in Families, f # c.family, WornOut(outs, f)
       PROVE  f \in Range(row.exhausted)
  BY <1>3, <1>4, <1>8, <1>9, <1>14, OthersWearNoFurther DEF GoodFamilies
<1>15. /\ Cardinality(Unrested(row.outcomes, row.exhausted)) \in Nat
       /\ Cardinality(Unrested(outs, row.exhausted)) \in Nat
       /\ Cardinality(Unrested(outs, Append(row.exhausted, c.family))) \in Nat
       /\ Cardinality(HistoryOf(outs, c.family)) \in Nat
  <2>1. /\ Unrested(row.outcomes, row.exhausted) \in SUBSET (DOMAIN row.outcomes)
        /\ Unrested(outs, row.exhausted) \in SUBSET (DOMAIN outs)
        /\ Unrested(outs, Append(row.exhausted, c.family)) \in SUBSET (DOMAIN outs)
        /\ HistoryOf(outs, c.family) \in SUBSET (DOMAIN outs)
    BY DEF Unrested, HistoryOf
  <2> QED  BY <1>4, <1>8, <2>1, PlacesFinite
<1>16. PICK n \in Nat : n = Len(row.exhausted)
  BY <1>4
<1>17. /\ FamilyMinRuns * n + Cardinality(Unrested(row.outcomes, row.exhausted)) <= row.transforms
       /\ row.transforms <= MaxTransforms
  BY <1>16 DEF GoodFamilies
<1>18. CASE ~WornOut(outs, c.family)
  <2>1. \A f \in Families : WornOut(outs, f) => f \in Range(row.exhausted)
    BY <1>14, <1>18
  <2>2. FamilyMinRuns * n + Cardinality(Unrested(outs, row.exhausted)) <= row.transforms + 1
    <3>1. FamilyMinRuns * n \in Nat
      BY <1>6, <1>16
    <3> QED  BY <1>4, <1>13, <1>15, <1>17, <3>1
  <2>3. row.transforms + 1 <= MaxTransforms
    BY <1>4, <1>6
  <2> QED  BY <1>10, <1>11, <1>16, <1>18, <2>1, <2>2, <2>3 DEF GoodFamilies
<1>19. CASE WornOut(outs, c.family)
  <2>1. Cardinality(HistoryOf(outs, c.family)) >= FamilyMinRuns
    BY <1>19 DEF WornOut
  <2>2. FamilyMinRuns * (n + 1) = FamilyMinRuns * n + FamilyMinRuns /\ FamilyMinRuns * n \in Nat
    BY <1>6, <1>16
  <2>3. FamilyMinRuns * (n + 1) + Cardinality(Unrested(outs, Append(row.exhausted, c.family)))
          <= row.transforms + 1
    BY <1>4, <1>6, <1>13, <1>15, <1>17, <2>1, <2>2
  <2>4. row.transforms + 1 <= MaxTransforms
    BY <1>4, <1>6
  <2>5. n + 1 <= 10
    <3> SUFFICES ASSUME n + 1 >= 11  PROVE FALSE
      BY <1>16
    <3>1. PICK m \in Nat : n + 1 = 11 + m
      <4>1. n + 1 = 11 + (n - 10) /\ n - 10 \in Nat
        BY <1>16
      <4> QED  BY <4>1
    <3>2. FamilyMinRuns * (11 + m) = 11 * FamilyMinRuns + FamilyMinRuns * m
          /\ FamilyMinRuns * m \in Nat /\ 11 * FamilyMinRuns \in Nat
      BY <1>6, <3>1
    <3>3. FamilyMinRuns * (n + 1) >= 11 * FamilyMinRuns
      BY <1>6, <3>1, <3>2
    <3>4. FamilyMinRuns * (n + 1) \in Nat
      BY <1>6, <2>2
    <3> QED  BY <1>4, <1>6, <1>15, <2>3, <2>4, <3>2, <3>3, <3>4 DEF FewFamilies
  <2>6. PICK more : more = Append(row.exhausted, c.family)
    OBVIOUS
  <2>7. more \in Seq(Families) /\ Len(more) = n + 1
        /\ Range(more) = Range(row.exhausted) \cup {c.family}
    BY <1>3, <1>4, <1>16, <2>6, AppendedRange
  <2>8. Latest(more, 10) = more
    <3>1. Latest(more, 10) = SubSeq(more, 1, Len(more))
      <4>1. Len(more) = n + 1 /\ ~(n + 1 > 10)
        BY <2>5, <2>7, <1>16
      <4> QED  BY <4>1 DEF Latest
    <3> QED  BY <2>7, <3>1, SubSeqFull
  <2>9. new.exhausted = more
    BY <1>11, <1>19, <2>6, <2>8
  <2>10. \A f \in Families : WornOut(outs, f) => f \in Range(more)
    BY <1>14, <2>7
  <2> QED  BY <1>10, <1>11, <2>3, <2>4, <2>6, <2>7, <2>9, <2>10 DEF GoodFamilies
<1> QED  BY <1>18, <1>19
-----------------------------------------------------------------------------
\* What a row says of its families.
Core(row) == <<row.outcomes, row.exhausted, row.transforms>>

FamilyGood(row, next, c) ==
  /\ GoodFamilies(row.outcomes, row.exhausted, row.transforms)
  /\ next = "executing" /\ c.tool = "run_transform" =>
       row.transforms < MaxTransforms /\ ~Contains(row.exhausted, c.family)

FamiliesInv == \A r \in Runs : FamilyGood(run[r], pc[r], call[r])

LEMMA CoreKept ==
  ASSUME NEW row \in RowType, NEW c, NEW v
  PROVE  /\ Core([row EXCEPT !.status = v]) = Core(row)
         /\ Core([row EXCEPT !.scope = v]) = Core(row)
         /\ Core([row EXCEPT !.attempt = v]) = Core(row)
         /\ Core(Cleared(row)) = Core(row)
         /\ Core(Completed(row, c)) = Core(row)
         /\ Core(WithDuplicate(row, v)) = Core(row)
         /\ Core(WithInvalid(row)) = Core(row)
         /\ c = None \/ c.tool # "run_transform" => Core(Charged(row, c)) = Core(row)
<1>1. DOMAIN row = {"status", "scope", "steps", "transforms", "attempt", "duplicates",
        "invalids", "feedback", "completed", "entities", "links", "outcomes", "exhausted"}
  BY DEF RowType
<1>2. Core(Cleared(row)) = Core(row)
  BY <1>1 DEF Core, Cleared
<1>3. Core(WithDuplicate(row, v)) = Core(row)
  BY <1>1 DEF Core, WithDuplicate, WithFeedback
<1>4. Core(WithInvalid(row)) = Core(row)
  BY <1>1 DEF Core, WithInvalid, WithFeedback
<1>5. c = None \/ c.tool # "run_transform" => Core(Charged(row, c)) = Core(row)
  BY <1>1 DEF Core, Charged
<1>6. Core(Completed(row, c)) = Core(row)
  BY <1>1 DEF Core, Completed
<1> QED  BY <1>1, <1>2, <1>3, <1>4, <1>5, <1>6 DEF Core

LEMMA NothingWornOut ==
  ASSUME NEW row, row.outcomes = <<>>, row.exhausted = <<>>, row.transforms = 0
  PROVE  GoodFamilies(row.outcomes, row.exhausted, row.transforms)
<1>1. FamilyMinRuns \in Nat \ {0} /\ MaxTransforms \in Nat
  BY LoopAssumption
<1>2. ASSUME NEW f, WornOut(<<>>, f)  PROVE FALSE
  <2>1. HistoryOf(<<>>, f) = {}
    BY DEF HistoryOf
  <2>2. Cardinality(HistoryOf(<<>>, f)) = 0
    BY <2>1, FS_EmptySet
  <2>3. Cardinality(HistoryOf(<<>>, f)) >= FamilyMinRuns
    BY <1>2 DEF WornOut
  <2> QED  BY <1>1, <2>2, <2>3
<1>3. Cardinality(Unrested(<<>>, <<>>)) = 0
  <2>1. Unrested(<<>>, <<>>) = {}
    BY DEF Unrested
  <2> QED  BY <2>1, FS_EmptySet
<1>4. Len(<<>>) = 0
  OBVIOUS
<1>5. FamilyMinRuns * 0 + 0 <= 0
  BY <1>1
<1> QED  BY <1>1, <1>2, <1>3, <1>4, <1>5 DEF GoodFamilies

\* A step of one run that leaves its families alone, or forgets them.
LEMMA FamiliesKept ==
  ASSUME LoopInv, FamiliesInv, NEW r \in Runs, NEW row, NEW next, NEW c,
         run' = [run EXCEPT ![r] = row], pc' = [pc EXCEPT ![r] = next],
         call' = [call EXCEPT ![r] = c],
         FamilyGood(row, next, c)
  PROVE  FamiliesInv'
<1>1. Shapes
  BY DEF LoopInv
<1>2. ASSUME NEW q \in Runs  PROVE FamilyGood(run'[q], pc'[q], call'[q])
  <2>1. CASE q = r
    <3>1. run'[q] = row /\ pc'[q] = next /\ call'[q] = c
      BY <1>1, <2>1 DEF Shapes
    <3> QED  BY <3>1
  <2>2. CASE q # r
    <3>1. run'[q] = run[q] /\ pc'[q] = pc[q] /\ call'[q] = call[q]
      BY <1>1, <2>2 DEF Shapes
    <3> QED  BY <3>1 DEF FamiliesInv
  <2> QED  BY <2>1, <2>2
<1> QED  BY <1>2 DEF FamiliesInv

LEMMA SameCore ==
  ASSUME FamiliesInv, NEW r \in Runs, NEW row, Core(row) = Core(run[r]),
         NEW next, NEW c, next = "executing" => pc[r] = "executing" /\ c = call[r]
  PROVE  FamilyGood(row, next, c)
<1>1. row.outcomes = run[r].outcomes /\ row.exhausted = run[r].exhausted
      /\ row.transforms = run[r].transforms
  BY DEF Core
<1> QED  BY <1>1 DEF FamiliesInv, FamilyGood

LEMMA FailKeepsFamilies ==
  ASSUME LoopInv, FamiliesInv, NEW r \in Runs, NEW row \in RowType,
         Core(row) = Core(run[r]), Fail(r, row)
  PROVE  FamiliesInv'
<1>1. PICK new : new = [row EXCEPT !.status = "failed"]
  OBVIOUS
<1>2. Core(new) = Core(run[r])
  BY <1>1, CoreKept
<1>3. /\ run' = [run EXCEPT ![r] = new] /\ pc' = [pc EXCEPT ![r] = "read"]
      /\ call' = [call EXCEPT ![r] = None]
  BY <1>1 DEF Fail, Becomes
<1>4. FamilyGood(new, "read", None)
  BY <1>2, SameCore
<1> QED  BY <1>3, <1>4, FamiliesKept

LEMMA SettleKeepsFamilies ==
  ASSUME LoopInv, FamiliesInv, NEW r \in Runs, NEW row, Settle(r, row),
         NEW c, call' = [call EXCEPT ![r] = c]
  PROVE  FamiliesInv'
<1>1. PICK new : new = [NewRun(row.scope) EXCEPT !.status = row.status]
  OBVIOUS
<1>2. new.outcomes = <<>> /\ new.exhausted = <<>> /\ new.transforms = 0
  BY <1>1 DEF NewRun
<1>3. run' = [run EXCEPT ![r] = new] /\ pc' = [pc EXCEPT ![r] = "over"]
  BY <1>1 DEF Settle, Becomes
<1>4. FamilyGood(new, "over", c)
  BY <1>2, NothingWornOut DEF FamilyGood
<1> QED  BY <1>3, <1>4, FamiliesKept

\* A tool that ran no transform.
LEMMA ToolDoneKeepsFamilies ==
  ASSUME LoopInv, FamiliesInv, NEW r \in Runs, NEW row \in RowType, call[r] \in Calls,
         Core(row) = Core(run[r]), call[r].tool # "run_transform", ToolDone(r, row)
  PROVE  FamiliesInv'
<1>1. PICK counted : counted = Completed(row, call[r])
  OBVIOUS
<1>2. PICK new : new = Charged(counted, call[r])
  OBVIOUS
<1>3. counted \in RowType /\ Core(counted) = Core(run[r])
  BY <1>1, CompletedType, CoreKept
<1>4. Core(new) = Core(run[r])
  BY <1>2, <1>3, CoreKept
<1>5. /\ run' = [run EXCEPT ![r] = new] /\ pc' = [pc EXCEPT ![r] = "read"]
      /\ call' = [call EXCEPT ![r] = None]
  BY <1>1, <1>2 DEF ToolDone, Becomes
<1>6. FamilyGood(new, "read", None)
  BY <1>4, SameCore
<1> QED  BY <1>5, <1>6, FamiliesKept

\* A transform that has run is counted before the next plan is made.
LEMMA TransformKeepsFamilies ==
  ASSUME FewFamilies, LoopInv, FamiliesInv, NEW r \in Runs, RunTransform(r)
  PROVE  FamiliesInv'
<1>1. pc[r] = "executing" /\ call[r].tool = "run_transform"
  BY DEF RunTransform
<1>2. PICK result \in Results :
        ToolDone(r, Scored(run[r], call[r], result[1], result[2]))
  BY DEF RunTransform
<1>3. result[1] \in SUBSET Entities /\ result[2] \in SUBSET Links
  BY LoopAssumption
<1>4. call[r] \in Calls /\ run[r] \in RowType /\ call[r] # None
  <2>1. call[r] \in Calls /\ run[r] \in RowType
    BY <1>1, Now DEF GoodTypes, Calling
  <2> QED  BY <2>1, LoopAssumption
<1>5. PICK scored : scored = Scored(run[r], call[r], result[1], result[2])
  OBVIOUS
<1>6. /\ GoodFamilies(run[r].outcomes, run[r].exhausted, run[r].transforms)
      /\ run[r].transforms < MaxTransforms /\ ~Contains(run[r].exhausted, call[r].family)
  BY <1>1 DEF FamiliesInv, FamilyGood
<1>7. /\ scored \in RowType /\ scored.transforms = run[r].transforms
      /\ GoodFamilies(scored.outcomes, scored.exhausted, run[r].transforms + 1)
  BY <1>3, <1>4, <1>5, <1>6, ScoredFamilies
<1>8. PICK counted : counted = Completed(scored, call[r])
  OBVIOUS
<1>9. counted \in RowType /\ Core(counted) = Core(scored)
  BY <1>4, <1>7, <1>8, CompletedType, CoreKept
<1>10. PICK new : new = Charged(counted, call[r])
  OBVIOUS
<1>11. /\ new.outcomes = scored.outcomes /\ new.exhausted = scored.exhausted
       /\ new.transforms = run[r].transforms + 1
  <2>1. new.outcomes = counted.outcomes /\ new.exhausted = counted.exhausted
        /\ new.transforms = counted.transforms + 1
    BY <1>1, <1>4, <1>9, <1>10 DEF Charged, RowType
  <2> QED  BY <1>7, <1>9, <2>1 DEF Core
<1>12. /\ run' = [run EXCEPT ![r] = new] /\ pc' = [pc EXCEPT ![r] = "read"]
       /\ call' = [call EXCEPT ![r] = None]
  BY <1>2, <1>5, <1>8, <1>10 DEF ToolDone, Becomes
<1>13. FamilyGood(new, "read", None)
  BY <1>7, <1>11 DEF FamilyGood
<1> QED  BY <1>12, <1>13, FamiliesKept

\* Within the budget, and of a family that may still be run.
LEMMA ExecuteKeepsFamilies ==
  ASSUME LoopInv, FamiliesInv, NEW r \in Runs, Execute(r)
  PROVE  FamiliesInv'
<1>1. PICK row : row = [run[r] EXCEPT !.status = "running"]
  OBVIOUS
<1>2. run[r] \in RowType /\ call[r] \in Calls /\ call[r] # None
  <2>1. run[r] \in RowType /\ call[r] \in Calls
    BY Now DEF Execute, GoodTypes, Calling
  <2> QED  BY <2>1, LoopAssumption
<1>3. Core(row) = Core(run[r])
  BY <1>1, <1>2, CoreKept
<1>4. run' = [run EXCEPT ![r] = row] /\ pc' = [pc EXCEPT ![r] = "executing"]
      /\ call' = [call EXCEPT ![r] = call[r]]
  BY <1>1, Same, Now DEF Execute, Becomes
<1>5. call[r].tool = "run_transform" =>
        run[r].transforms < MaxTransforms /\ ~Contains(run[r].exhausted, call[r].family)
  <2> SUFFICES ASSUME call[r].tool = "run_transform"
               PROVE  run[r].transforms < MaxTransforms
                      /\ ~Contains(run[r].exhausted, call[r].family)
    OBVIOUS
  <2>1. ~OverBudget(r, call[r]) /\ Policy(r, call[r]) = "allow"
    BY DEF Execute
  <2>2. run[r].transforms \in Nat /\ MaxTransforms \in Nat
    BY <1>2, LoopAssumption DEF RowType
  <2>3. run[r].transforms < MaxTransforms
    BY <1>2, <2>1, <2>2 DEF OverBudget
  <2> QED  BY <2>1, <2>3 DEF Policy
<1>6. FamilyGood(row, "executing", call[r])
  BY <1>3, <1>5 DEF FamilyGood, FamiliesInv, Core
<1> QED  BY <1>4, <1>6, FamiliesKept
\* A step that leaves the families of its run alone.
LEMMA QuietKeepsFamilies ==
  ASSUME LoopInv, FamiliesInv, NEW r \in Runs, NEW row, Core(row) = Core(run[r]),
         NEW next, Becomes(r, row, next), NEW c, call' = [call EXCEPT ![r] = c],
         next = "executing" => pc[r] = "executing" /\ c = call[r]
  PROVE  FamiliesInv'
<1>1. FamilyGood(row, next, c)
  BY SameCore
<1>2. run' = [run EXCEPT ![r] = row] /\ pc' = [pc EXCEPT ![r] = next]
  BY DEF Becomes
<1> QED  BY <1>1, <1>2, FamiliesKept

LEMMA ThinkingKeepsFamilies ==
  ASSUME LoopInv, FamiliesInv, NEW r \in Runs, Thinks(r)
  PROVE  FamiliesInv'
<1>1. run[r] \in RowType
  BY Now DEF GoodTypes
<1>2. call' = call => call' = [call EXCEPT ![r] = call[r]]
  BY Same, Now
<1>3. PICK charged : charged = Charged(run[r], None)
  OBVIOUS
<1>4. charged \in RowType /\ Core(charged) = Core(run[r])
  BY <1>1, <1>3, ChargedType, CoreKept
<1>5. CASE Ask(r)
  <2>1. PICK row : row = [run[r] EXCEPT !.status = "running"]
    OBVIOUS
  <2>2. Core(row) = Core(run[r]) /\ Becomes(r, row, "asking") /\ call' = call
    BY <1>1, <1>5, <2>1, CoreKept DEF Ask
  <2> QED  BY <1>2, <2>2, QuietKeepsFamilies
<1>6. CASE AskAgain(r)
  <2>1. PICK row : row = [run[r] EXCEPT !.attempt = run[r].attempt + 1]
    OBVIOUS
  <2>2. Core(row) = Core(run[r])
    BY <1>1, <2>1, CoreKept
  <2>3. pc[r] = "asking" /\ call' = call /\ Becomes(r, row, "asking")
    BY <1>1, <1>6, <2>1, Same, Now DEF AskAgain, Becomes, RowType, Shapes
  <2> QED  BY <1>2, <2>2, <2>3, QuietKeepsFamilies
<1>7. CASE GiveUp(r) \/ Astray(r) \/ \E c \in Calls : Loop(r, c)
  <2>1. Fail(r, run[r]) \/ Fail(r, charged)
    BY <1>3, <1>7 DEF GiveUp, Astray, Loop
  <2> QED  BY <1>1, <1>4, <2>1, FailKeepsFamilies
<1>8. CASE Finish(r)
  <2>1. PICK row : row = Cleared(charged)
    OBVIOUS
  <2>2. Core(row) = Core(run[r])
    BY <1>4, <2>1, CoreKept
  <2>3. Becomes(r, row, "summary") /\ call' = call
    BY <1>3, <1>8, <2>1 DEF Finish
  <2> QED  BY <1>2, <2>2, <2>3, QuietKeepsFamilies
<1>9. ASSUME NEW c \in Calls, Refuse(r, c)  PROVE FamiliesInv'
  <2>1. PICK row : row = WithDuplicate(charged, c)
    OBVIOUS
  <2>2. row \in RowType /\ Core(row) = Core(run[r])
    BY <1>4, <2>1, DuplicateType, CoreKept
  <2>3. Fail(r, row) \/ (Becomes(r, row, "think") /\ call' = call)
    BY <1>3, <1>9, <2>1 DEF Refuse
  <2> QED  BY <1>2, <2>2, <2>3, FailKeepsFamilies, QuietKeepsFamilies
<1>10. ASSUME NEW c \in Calls, Plan(r, c)  PROVE FamiliesInv'
  <2>1. PICK row : row = Cleared(charged)
    OBVIOUS
  <2>2. Core(row) = Core(run[r])
    BY <1>4, <2>1, CoreKept
  <2>3. Becomes(r, row, "tool") /\ call' = [call EXCEPT ![r] = c]
    BY <1>3, <1>10, <2>1 DEF Plan
  <2>4. FamilyGood(row, "tool", c)
    BY <2>2, SameCore
  <2>5. run' = [run EXCEPT ![r] = row] /\ pc' = [pc EXCEPT ![r] = "tool"]
    BY <2>3 DEF Becomes
  <2> QED  BY <2>3, <2>4, <2>5, FamiliesKept
<1> QED  BY <1>5, <1>6, <1>7, <1>8, <1>9, <1>10 DEF Thinks

LEMMA ActingKeepsFamilies ==
  ASSUME FewFamilies, LoopInv, FamiliesInv, NEW r \in Runs, Acts(r)
  PROVE  FamiliesInv'
<1>1. run[r] \in RowType
  BY Now DEF GoodTypes
<1>2. call' = call => call' = [call EXCEPT ![r] = call[r]]
  BY Same, Now
<1>3. pc[r] = "executing" => call[r] \in Calls /\ call[r] # None
  <2>1. pc[r] = "executing" => call[r] \in Calls
    BY Now DEF GoodTypes, Calling
  <2> QED  BY <2>1, LoopAssumption
<1>4. CASE Exceeded(r)
  BY <1>1, <1>4, FailKeepsFamilies DEF Exceeded
<1>5. CASE AskApproval(r)
  <2>1. PICK row : row = [run[r] EXCEPT !.status = "paused"]
    OBVIOUS
  <2>2. Core(row) = Core(run[r]) /\ Becomes(r, row, "waiting") /\ call' = call
    BY <1>1, <1>5, <2>1, CoreKept DEF AskApproval
  <2> QED  BY <1>2, <2>2, QuietKeepsFamilies
<1>6. CASE Execute(r)
  BY <1>6, ExecuteKeepsFamilies
<1>7. CASE ReadTool(r) \/ ReadResult(r)
  <2>1. /\ pc[r] = "executing" /\ call[r].tool # "run_transform" /\ ToolDone(r, run[r])
    BY <1>7 DEF ReadTool, ReadResult, ReadOnlyTools
  <2> QED  BY <1>1, <1>3, <2>1, ToolDoneKeepsFamilies
<1>8. CASE RunTransform(r)
  BY <1>8, TransformKeepsFamilies
<1>9. CASE CreateEntity(r)
  <2>1. PICK wider : wider = IF run[r].scope.mode = "selected"
                             THEN [run[r].scope EXCEPT !.ids = @ \cup {call[r].entity}]
                             ELSE run[r].scope
    OBVIOUS
  <2>2. /\ pc[r] = "executing" /\ call[r].tool = "create_entity"
        /\ ToolDone(r, [run[r] EXCEPT !.scope = wider])
    BY <1>9, <2>1 DEF CreateEntity
  <2>3. wider \in ScopeType
    <3>1. call[r].entity \in Entities
      BY <1>3, <2>2, LoopAssumption DEF CallType
    <3> QED  BY <1>1, <2>1, <3>1 DEF RowType, ScopeType
  <2>4. PICK row : row = [run[r] EXCEPT !.scope = wider]
    OBVIOUS
  <2>5. row \in RowType
    BY <1>1, <2>3, <2>4 DEF RowType
  <2>6. Core(row) = Core(run[r])
    BY <1>1, <2>4, CoreKept
  <2> QED  BY <1>3, <2>2, <2>4, <2>5, <2>6, ToolDoneKeepsFamilies
<1>10. CASE ToolInvalid(r)
  <2>1. PICK row : row = WithInvalid(run[r])
    OBVIOUS
  <2>2. row \in RowType /\ Core(row) = Core(run[r])
    BY <1>1, <2>1, InvalidType, CoreKept
  <2>3. PICK counted : counted = Completed(row, call[r])
    OBVIOUS
  <2>4. Core(counted) = Core(run[r])
    BY <2>2, <2>3, CoreKept
  <2>5. \/ Fail(r, row)
        \/ Becomes(r, counted, "read") /\ call' = [call EXCEPT ![r] = None]
    BY <1>10, <2>1, <2>3 DEF ToolInvalid
  <2> QED  BY <2>2, <2>4, <2>5, FailKeepsFamilies, QuietKeepsFamilies
<1>11. CASE ToolBreaks(r)
  <2>1. PICK row : row = [run[r] EXCEPT !.status = "failed"]
    OBVIOUS
  <2>2. /\ Core(row) = Core(run[r]) /\ Becomes(r, row, "read")
        /\ call' = [call EXCEPT ![r] = None]
    BY <1>1, <1>11, <2>1, CoreKept DEF ToolBreaks
  <2>3. FamilyGood(row, "read", None)
    BY <2>2, SameCore
  <2>4. run' = [run EXCEPT ![r] = row] /\ pc' = [pc EXCEPT ![r] = "read"]
    BY <2>2 DEF Becomes
  <2> QED  BY <2>2, <2>3, <2>4, FamiliesKept
<1>12. CASE Summarize(r)
  <2>1. PICK charged : charged = Charged(run[r], None)
    OBVIOUS
  <2>2. PICK row : row = [charged EXCEPT !.status = "completed"]
    OBVIOUS
  <2>3. charged \in RowType /\ Core(charged) = Core(run[r])
    BY <1>1, <2>1, ChargedType, CoreKept
  <2>4. Core(row) = Core(run[r])
    BY <2>2, <2>3, CoreKept
  <2>5. Becomes(r, row, "read") /\ call' = call
    BY <1>12, <2>1, <2>2 DEF Summarize
  <2> QED  BY <1>2, <2>4, <2>5, QuietKeepsFamilies
<1> QED  BY <1>4, <1>5, <1>6, <1>7, <1>8, <1>9, <1>10, <1>11, <1>12 DEF Acts

LEMMA SyncingKeepsFamilies ==
  ASSUME LoopInv, FamiliesInv, NEW r \in Runs, Syncs(r)
  PROVE  FamiliesInv'
<1>1. call' = [call EXCEPT ![r] = call[r]]
  BY Same, Now DEF Syncs, ReadMemory, CreateMemory, WriteMemory, MemoryConflict,
                   FailUnsynced, WorkerDies, RecoverStale, Unsynced
<1>2. PICK failed : failed = [run[r] EXCEPT !.status = "failed"]
  OBVIOUS
<1>3. Core(failed) = Core(run[r])
  <2>1. run[r] \in RowType
    BY Now DEF GoodTypes
  <2> QED  BY <1>2, <2>1, CoreKept
<1>4. \/ Settle(r, run[r]) \/ Settle(r, failed) \/ Becomes(r, failed, "read")
      \/ \E next \in Pcs \ {"executing"} : pc' = [pc EXCEPT ![r] = next] /\ run' = run
  <2>1. CASE ReadMemory(r) \/ CreateMemory(r)
    <3>1. "create" \in Pcs \ {"executing"} /\ "write" \in Pcs \ {"executing"}
      BY DEF Pcs, BusyPcs
    <3> QED  BY <2>1, <3>1 DEF ReadMemory, CreateMemory
  <2>2. CASE MemoryConflict(r) \/ WorkerDies(r) \/ (WriteMemory(r) /\ ~FailLate(r))
    <3>1. \E next \in {"think", "over", "stranded"} : Continue(r, next)
      <4>1. sync[r].then \in {"think", "over"}
        BY Now DEF GoodTypes
      <4> QED  BY <2>2, <4>1 DEF WriteMemory, MemoryConflict, WorkerDies, Unsynced
    <3> QED  BY <3>1 DEF Continue, Pcs
  <2>3. CASE FailLate(r) \/ RecoverStale(r)
    BY <1>2, <2>3 DEF FailLate, RecoverStale
  <2> QED  BY <2>1, <2>2, <2>3 DEF Syncs, FailUnsynced
<1>5. CASE Settle(r, run[r])
  BY <1>1, <1>5, SettleKeepsFamilies
<1>6. CASE Settle(r, failed)
  BY <1>1, <1>6, SettleKeepsFamilies
<1>7. CASE Becomes(r, failed, "read")
  <2>1. "read" \in Pcs \ {"executing"}
    BY DEF Pcs, BusyPcs
  <2> QED  BY <1>1, <1>3, <1>7, <2>1, QuietKeepsFamilies
<1>8. ASSUME NEW next \in Pcs \ {"executing"}, pc' = [pc EXCEPT ![r] = next], run' = run
      PROVE  FamiliesInv'
  <2>1. Becomes(r, run[r], next)
    BY <1>8, Same, Now DEF Becomes
  <2> QED  BY <1>1, <2>1, QuietKeepsFamilies
<1> QED  BY <1>4, <1>5, <1>6, <1>7, <1>8

LEMMA DecidingKeepsFamilies ==
  ASSUME LoopInv, FamiliesInv, NEW r \in Runs,
         Decides(r) \/ \E q \in Runs : Retry(r, q)
  PROVE  FamiliesInv'
<1>1. run[r] \in RowType
  BY Now DEF GoodTypes
<1>2. call' = call => call' = [call EXCEPT ![r] = call[r]]
  BY Same, Now
<1>3. CASE Start(r) \/ \E q \in Runs : Retry(r, q)
  <2>1. \E scope, picked : Launch(r, scope, picked)
    BY <1>3 DEF Start, Retry
  <2>2. PICK scope, picked : Launch(r, scope, picked)
    BY <2>1
  <2>3. PICK row : row = NewRun(scope)
    OBVIOUS
  <2>4. row.outcomes = <<>> /\ row.exhausted = <<>> /\ row.transforms = 0
    BY <2>3 DEF NewRun
  <2>5. FamilyGood(row, "think", call[r])
    BY <2>4, NothingWornOut DEF FamilyGood
  <2>6. /\ run' = [run EXCEPT ![r] = row] /\ pc' = [pc EXCEPT ![r] = "think"]
        /\ call' = [call EXCEPT ![r] = call[r]]
    BY <1>2, <2>2, <2>3 DEF Launch, Becomes
  <2> QED  BY <2>5, <2>6, FamiliesKept
<1>4. CASE Cancel(r)
  <2>1. PICK row : row = [run[r] EXCEPT !.status = "cancelled"]
    OBVIOUS
  <2>2. Core(row) = Core(run[r])
    BY <1>1, <2>1, CoreKept
  <2>3. \/ Becomes(r, row, pc[r]) /\ call' = call
        \/ Settle(r, row) /\ call' = [call EXCEPT ![r] = None]
    BY <1>4, <2>1 DEF Cancel
  <2> QED  BY <1>2, <2>2, <2>3, QuietKeepsFamilies, SettleKeepsFamilies
<1>5. CASE Approve(r)
  <2>1. PICK row : row = [run[r] EXCEPT !.status = "pending"]
    OBVIOUS
  <2>2. Core(row) = Core(run[r]) /\ Becomes(r, row, "approved") /\ call' = call
    BY <1>1, <1>5, <2>1, CoreKept DEF Approve
  <2> QED  BY <1>2, <2>2, QuietKeepsFamilies
<1>6. CASE Reject(r)
  BY <1>6, SettleKeepsFamilies DEF Reject
<1> QED  BY <1>3, <1>4, <1>5, <1>6 DEF Decides

LEMMA FamiliesInit == Init => FamiliesInv
<1> SUFFICES ASSUME Init, NEW r \in Runs  PROVE FamilyGood(run[r], pc[r], call[r])
  BY DEF FamiliesInv
<1>1. /\ run[r] = [NewRun([mode |-> "all", ids |-> {}]) EXCEPT !.status = "absent"]
      /\ pc[r] = "none"
  BY DEF Init
<1>2. run[r].outcomes = <<>> /\ run[r].exhausted = <<>> /\ run[r].transforms = 0
  BY <1>1 DEF NewRun
<1> QED  BY <1>1, <1>2, NothingWornOut DEF FamilyGood

LEMMA FamiliesNext ==
  ASSUME FewFamilies
  PROVE  LoopInv /\ FamiliesInv /\ [Next]_vars => FamiliesInv'
<1> SUFFICES ASSUME LoopInv, FamiliesInv, [Next]_vars  PROVE FamiliesInv'
  OBVIOUS
<1>1. ASSUME NEW r \in Runs, Thinks(r) \/ Acts(r) \/ Syncs(r) \/ Decides(r)
      PROVE  FamiliesInv'
  BY <1>1, ThinkingKeepsFamilies, ActingKeepsFamilies, SyncingKeepsFamilies,
     DecidingKeepsFamilies
<1>2. ASSUME NEW r \in Runs, NEW q \in Runs, Retry(r, q)  PROVE FamiliesInv'
  BY <1>2, DecidingKeepsFamilies
<1>3. ASSUME UNCHANGED <<run, pc, call>>  PROVE FamiliesInv'
  BY <1>3 DEF FamiliesInv
<1> QED  BY <1>1, <1>2, <1>3 DEF Next, vars, DeleteEntity, ResetMemory

\* The limits that the loop keeps whatever the model chooses: within a budget
\* that does not allow for eleven exhausted families - the list of them holds
\* ten -, no transform family is run that brought little in its last runs
\* (orchestrator.py:172-183 and 352-387); and the two of RefusalsEnd.
THEOREM LimitsHold == FewFamilies /\ Spec => []LimitsKept
<1> SUFFICES ASSUME FewFamilies  PROVE Spec => []LimitsKept
  OBVIOUS
<1>1. LoopInv /\ FamiliesInv => WornOutFamiliesRest
  <2> SUFFICES ASSUME LoopInv, FamiliesInv, NEW r \in Runs, pc[r] = "executing",
                      call[r].tool = "run_transform",
                      WornOut(run[r].outcomes, call[r].family)
               PROVE  FALSE
    BY DEF WornOutFamiliesRest
  <2>1. call[r] \in Calls /\ run[r] \in RowType
    BY Now DEF GoodTypes, Calling
  <2>2. call[r].family \in Families /\ run[r].exhausted \in Seq(Families)
    BY <2>1 DEF Families, RowType
  <2>3. ~Contains(run[r].exhausted, call[r].family)
        /\ call[r].family \in Range(run[r].exhausted)
    BY <2>2 DEF FamiliesInv, FamilyGood, GoodFamilies
  <2> QED  BY <2>2, <2>3, ContainsRange
<1>2. LoopInv /\ FamiliesInv /\ [Next]_vars => FamiliesInv'
  BY FamiliesNext
<1> QED  BY <1>1, <1>2, FamiliesInit, LoopInvariant, RefusalsEnd, PTL DEF Spec, LimitsKept
-----------------------------------------------------------------------------
(***************************************************************************)
(* What the project memory says of the runs that have ended.               *)
(***************************************************************************)

\* The entries at some places of a list: each place is met once, in its order.
LEMMA AtPlacesEmbed ==
  ASSUME NEW S, NEW s \in Seq(S), NEW P \in SUBSET (DOMAIN s)
  PROVE  /\ AtPlaces(s, P) \in Seq(S) /\ Len(AtPlaces(s, P)) = Cardinality(P)
         /\ Cardinality(P) \in Nat
         /\ \E e \in [1 .. Cardinality(P) -> P] :
              /\ \A k \in 1 .. Cardinality(P) : AtPlaces(s, P)[k] = s[e[k]]
              /\ \A k, l \in 1 .. Cardinality(P) : k < l => e[k] < e[l]
              /\ \A i \in P : \E k \in 1 .. Cardinality(P) : e[k] = i
<1>1. IsFiniteSet(P) /\ P \subseteq Nat /\ Cardinality(P) \in Nat
  BY PlacesFinite
<1> DEFINE n == Cardinality(P)
           UpTo(i) == {j \in P : j <= i}
<1>2. \A i \in P : IsFiniteSet(UpTo(i)) /\ Cardinality(UpTo(i)) \in Nat
                   /\ Cardinality(UpTo(i)) <= n
  BY <1>1, FS_Subset, FS_CardinalityType
<1>3. ASSUME NEW i \in P  PROVE Cardinality(UpTo(i)) >= 1
  <2>1. i \in UpTo(i)
    BY <1>1
  <2>2. Cardinality(UpTo(i)) # 0
    <3> HIDE DEF UpTo
    <3> QED  BY <1>2, <2>1, FS_EmptySet
  <2> HIDE DEF UpTo
  <2> QED  BY <1>2, <2>2
<1>4. ASSUME NEW i \in P, NEW j \in P, i < j
      PROVE  Cardinality(UpTo(i)) < Cardinality(UpTo(j))
  <2>1. UpTo(i) \subseteq UpTo(j) /\ j \in UpTo(j) /\ j \notin UpTo(i)
    BY <1>1, <1>4
  <2> HIDE DEF UpTo
  <2> QED  BY <1>2, <2>1, FS_Subset
<1> DEFINE rank == [i \in P |-> Rank(i, P)]
<1>5. \A i \in P : Rank(i, P) = Cardinality(UpTo(i))
  BY DEF Rank
<1>6. rank \in Injection(P, 1 .. n)
  <2>1. \A i \in P : Rank(i, P) \in 1 .. n
    <3> HIDE DEF UpTo
    <3> QED  BY <1>1, <1>2, <1>3, <1>5
  <2>2. ASSUME NEW i \in P, NEW j \in P, i # j  PROVE Rank(i, P) # Rank(j, P)
    <3>1. i < j \/ j < i
      BY <1>1, <2>2
    <3> HIDE DEF UpTo
    <3> QED  BY <1>2, <1>4, <1>5, <3>1
  <2> QED  BY <2>1, <2>2 DEF Injection, IsInjective
<1>7. rank \in Surjection(P, 1 .. n)
  <2>1. IsFiniteSet(1 .. n) /\ Cardinality(1 .. n) = n
    BY <1>1, FS_Interval
  <2> HIDE DEF rank, n
  <2>2. Cardinality(P) = Cardinality(1 .. n)
    BY <2>1 DEF n
  <2> QED  BY <1>6, <2>1, <2>2, FS_Injection
<1>8. \A k \in 1 .. n : \E i \in P : Rank(i, P) = k
  BY <1>7 DEF Surjection
<1> DEFINE e == [k \in 1 .. n |-> CHOOSE i \in P : Rank(i, P) = k]
<1>9. \A k \in 1 .. n : e[k] \in P /\ Rank(e[k], P) = k
  BY <1>8
<1>10. \A k \in 1 .. n : AtPlaces(s, P)[k] = s[e[k]]
  BY DEF AtPlaces
<1>11. AtPlaces(s, P) \in Seq(S) /\ Len(AtPlaces(s, P)) = n
  <2>1. \A k \in 1 .. n : s[e[k]] \in S
    <3> HIDE DEF e
    <3> QED  BY <1>9
  <2>2. AtPlaces(s, P) = [k \in 1 .. n |-> s[e[k]]]
    BY DEF AtPlaces
  <2> HIDE DEF e, n
  <2>3. AtPlaces(s, P) \in [1 .. n -> S]
    BY <2>1, <2>2
  <2> QED  BY <1>1, <2>3 DEF n
<1>12. \A k, l \in 1 .. n : k < l => e[k] < e[l]
  <2> SUFFICES ASSUME NEW k \in 1 .. n, NEW l \in 1 .. n, k < l  PROVE e[k] < e[l]
    OBVIOUS
  <2>1. e[k] \in P /\ e[l] \in P /\ Rank(e[k], P) = k /\ Rank(e[l], P) = l
    BY <1>9
  <2>2. e[k] \in Nat /\ e[l] \in Nat
    BY <1>1, <2>1
  <2>3. PICK u \in P : u = e[k]
    BY <2>1
  <2>4. PICK v \in P : v = e[l]
    BY <2>1
  <2>5. ~(v < u) /\ u # v
    <3>1. Rank(u, P) = k /\ Rank(v, P) = l
      BY <2>1, <2>3, <2>4
    <3>2. k \in Nat /\ l \in Nat
      BY <1>1
    <3> HIDE DEF UpTo
    <3> QED  BY <1>4, <1>5, <3>1, <3>2
  <2> QED  BY <2>2, <2>3, <2>4, <2>5
<1>13. \A i \in P : \E k \in 1 .. n : e[k] = i
  <2> SUFFICES ASSUME NEW i \in P  PROVE \E k \in 1 .. n : e[k] = i
    OBVIOUS
  <2>1. Rank(i, P) \in 1 .. n
    BY <1>6 DEF Injection
  <2>2. e[Rank(i, P)] \in P /\ Rank(e[Rank(i, P)], P) = Rank(i, P)
    BY <1>9, <2>1
  <2>3. e[Rank(i, P)] = i
    BY <1>6, <2>2 DEF Injection, IsInjective
  <2> QED  BY <2>1, <2>3
<1>14. e \in [1 .. n -> P]
  BY <1>9
<1> HIDE DEF e
<1> QED  BY <1>1, <1>10, <1>11, <1>12, <1>13, <1>14
Done     == {"completed", "failed"}

\* No run is entered twice.
Once(list) == \A i, j \in DOMAIN list : list[i].run = list[j].run => i = j

\* What is kept of the other runs, and the entry of the one that is written.
LEMMA MergedRuns ==
  ASSUME IsFiniteSet(Runs), NEW list \in Seq(Entry), Once(list), NEW r \in Runs,
         NEW status \in Statuses, NEW new, new = MergeRecentRuns(list, r, status)
  PROVE  /\ new \in Seq(Entry) /\ Once(new)
         /\ [run |-> r, status |-> status] \in Range(new)
         /\ Cardinality(Runs) <= MaxRecentRuns =>
              \A x \in Range(list) : x.run # r => x \in Range(new)
<1> DEFINE P == {i \in DOMAIN list : list[i] \in {x \in Range(list) : x.run # r}}
           x == [run |-> r, status |-> status]
<1>1. \A i \in DOMAIN list : list[i] \in Range(list)
  BY DEF Range
<1>2. \A i \in DOMAIN list : i \in P <=> list[i].run # r
  BY <1>1
<1>3. P \in SUBSET (DOMAIN list)
  OBVIOUS
<1>4. PICK kept : kept = AtPlaces(list, P)
  OBVIOUS
<1>5. PICK n : n = Cardinality(P)
  OBVIOUS
<1>6. PICK e \in [1 .. n -> P] :
        /\ \A k \in 1 .. n : kept[k] = list[e[k]]
        /\ \A k, l \in 1 .. n : k < l => e[k] < e[l]
        /\ \A i \in P : \E k \in 1 .. n : e[k] = i
  <2> HIDE DEF P
  <2>1. \E f \in [1 .. Cardinality(P) -> P] :
          /\ \A k \in 1 .. Cardinality(P) : AtPlaces(list, P)[k] = list[f[k]]
          /\ \A k, l \in 1 .. Cardinality(P) : k < l => f[k] < f[l]
          /\ \A i \in P : \E k \in 1 .. Cardinality(P) : f[k] = i
    BY <1>3, AtPlacesEmbed
  <2> QED  BY <1>4, <1>5, <2>1
<1>7. kept \in Seq(Entry) /\ Len(kept) = n /\ n \in Nat
  <2> HIDE DEF P
  <2> QED  BY <1>3, <1>4, <1>5, AtPlacesEmbed
<1>8. new = Latest(Append(kept, x), MaxRecentRuns)
  BY <1>4 DEF MergeRecentRuns, Only
<1>9. x \in Entry
  BY DEF Entry
<1>10. \A k \in 1 .. n : e[k] \in DOMAIN list /\ kept[k].run # r
  BY <1>2, <1>6
<1>11. \A k, l \in 1 .. n : kept[k].run = kept[l].run => k = l
  <2> SUFFICES ASSUME NEW k \in 1 .. n, NEW l \in 1 .. n, kept[k].run = kept[l].run
               PROVE  k = l
    OBVIOUS
  <2>1. e[k] = e[l]
    BY <1>6, <1>10 DEF Once
  <2>2. e[k] \in Int /\ e[l] \in Int
    BY <1>10
  <2>3. ~(k < l) /\ ~(l < k)
    <3>1. ~(e[k] < e[l]) /\ ~(e[l] < e[k])
      BY <2>1, <2>2
    <3> QED  BY <1>6, <3>1
  <2> QED  BY <1>7, <2>3
<1> HIDE DEF P, x
<1>12. PICK all : all = Append(kept, x)
  OBVIOUS
<1>13. /\ all \in Seq(Entry) /\ Len(all) = n + 1 /\ all[n + 1] = x
       /\ \A k \in 1 .. n : all[k] = kept[k]
  BY <1>7, <1>9, <1>12
<1>14. \A k, l \in 1 .. n + 1 : all[k].run = all[l].run => k = l
  <2>1. x.run = r
    BY DEF x
  <2>2. \A k \in 1 .. n + 1 : k \in 1 .. n \/ k = n + 1
    BY <1>7
  <2> QED  BY <1>10, <1>11, <1>13, <2>1, <2>2
<1>15. n + 1 <= Cardinality(Runs) /\ Cardinality(Runs) \in Nat
  <2> DEFINE f == [k \in 1 .. n + 1 |-> all[k].run]
  <2>1. \A k \in 1 .. n + 1 : all[k] \in Entry
    BY <1>7, <1>13
  <2>2. f \in Injection(1 .. n + 1, Runs)
    BY <1>14, <2>1 DEF Injection, IsInjective, Entry
  <2> HIDE DEF f
  <2>3. Cardinality(1 .. n + 1) <= Cardinality(Runs) /\ Cardinality(Runs) \in Nat
    BY <2>2, FS_Injection, FS_CardinalityType
  <2>4. Cardinality(1 .. n + 1) = n + 1
    BY <1>7, FS_Interval
  <2> QED  BY <2>3, <2>4
<1>16. MaxRecentRuns \in Nat \ {0}
  BY LoopAssumption
<1>17. PICK d \in Nat : Len(new) + d = Len(all) /\ \A i \in 1 .. Len(new) : new[i] = all[i + d]
  <2>1. /\ Latest(all, MaxRecentRuns) \in Seq(Entry)
        /\ \E d \in Nat : /\ Len(Latest(all, MaxRecentRuns)) + d = Len(all)
                          /\ Len(all) <= MaxRecentRuns => d = 0
                          /\ \A i \in 1 .. Len(Latest(all, MaxRecentRuns)) :
                               Latest(all, MaxRecentRuns)[i] = all[i + d]
    BY <1>13, <1>16, LatestShift
  <2>2. new = Latest(all, MaxRecentRuns)
    BY <1>8, <1>12
  <2> QED  BY <2>1, <2>2
<1>18. new \in Seq(Entry) /\ new # <<>>
  BY <1>7, <1>8, <1>9, <1>16, AppendedLatest
<1>19. Len(new) \in Nat /\ Len(new) >= 1 /\ DOMAIN new = 1 .. Len(new)
  <2>1. Len(new) \in Nat /\ DOMAIN new = 1 .. Len(new)
    BY <1>18
  <2>2. Len(new) # 0
    BY <1>18, EmptySeq
  <2> QED  BY <2>1, <2>2
<1>20. Once(new)
  <2> SUFFICES ASSUME NEW i \in 1 .. Len(new), NEW j \in 1 .. Len(new), new[i].run = new[j].run
               PROVE  i = j
    BY <1>19 DEF Once
  <2>1. i + d \in 1 .. n + 1 /\ j + d \in 1 .. n + 1
    BY <1>7, <1>13, <1>17, <1>19
  <2>2. i + d = j + d
    BY <1>14, <1>17, <2>1
  <2> QED  BY <1>17, <2>2
<1>21. x \in Range(new)
  <2>1. new[Len(new)] = x /\ Len(new) \in DOMAIN new
    BY <1>13, <1>17, <1>19
  <2> QED  BY <2>1 DEF Range
<1>22. ASSUME Cardinality(Runs) <= MaxRecentRuns, NEW y \in Range(list), y.run # r
       PROVE  y \in Range(new)
  <2>1. d = 0 /\ Len(new) = n + 1
    <3>1. n + 1 <= MaxRecentRuns
      BY <1>7, <1>15, <1>16, <1>22
    <3>2. Latest(all, MaxRecentRuns) = SubSeq(all, 1, Len(all))
      BY <1>7, <1>13, <1>16, <3>1 DEF Latest
    <3>3. SubSeq(all, 1, Len(all)) = all
      BY <1>13
    <3>4. new = all
      BY <1>8, <1>12, <3>2, <3>3
    <3> QED  BY <1>7, <1>13, <1>17, <3>4
  <2>2. PICK i \in DOMAIN list : list[i] = y
    BY DEF Range
  <2>3. i \in P
    BY <1>2, <1>22, <2>2
  <2>4. PICK k \in 1 .. n : e[k] = i
    BY <1>6, <2>3
  <2>5. k \in 1 .. Len(new) /\ k + d = k
    BY <1>7, <2>1
  <2>6. new[k] = y
    BY <1>6, <1>13, <1>17, <2>2, <2>4, <2>5
  <2> QED  BY <1>19, <2>5, <2>6 DEF Range
<1> QED  BY <1>18, <1>20, <1>21, <1>22 DEF x
\* What a run's row, its next step and its session say of each other: a run
\* that is done is settled, or its session is about to write how it ended.
SessionGood(row, next, s) ==
  /\ s.runs \in Seq(Entry) /\ Once(s.runs)
  /\ s.status \in Statuses /\ s.paths \in Seq(Families \cup Lines) /\ s.id \in Nat
  /\ row.status \in Done =>
       /\ next \in Syncing \cup {"over"}
       /\ next \in Syncing => s.status = row.status /\ s.then = "over"

SessionsGood == \A r \in Runs : SessionGood(run[r], pc[r], sync[r])

Written(m) ==
  m # None => /\ m \in MemoryType
              /\ Once(m.runs)

Told(r) ==
  memory # None /\ [run |-> r, status |-> run[r].status] \in Range(memory.runs)

\* The memory tells of every run that is settled and done, if it could.
AllTold ==
  Cardinality(Runs) <= MaxRecentRuns =>
    \A r \in Runs \ disturbed : pc[r] = "over" /\ run[r].status \in Done => Told(r)

MemoryInv ==
  /\ bounds \in [asked : Nat, meddling : Nat]
  /\ SessionsGood
  /\ Written(memory)
  /\ AllTold

LEMMA SessionsLand ==
  ASSUME LoopInv, SessionsGood, NEW r \in Runs, NEW row, NEW next, NEW s,
         run' = [run EXCEPT ![r] = row], pc' = [pc EXCEPT ![r] = next],
         sync' = [sync EXCEPT ![r] = s], SessionGood(row, next, s)
  PROVE  /\ SessionsGood'
         /\ run'[r] = row /\ pc'[r] = next /\ sync'[r] = s
         /\ \A q \in Runs \ {r} : run'[q] = run[q] /\ pc'[q] = pc[q]
<1>1. Shapes
  BY DEF LoopInv
<1>2. run'[r] = row /\ pc'[r] = next /\ sync'[r] = s
  BY <1>1 DEF Shapes
<1>3. \A q \in Runs \ {r} : run'[q] = run[q] /\ pc'[q] = pc[q] /\ sync'[q] = sync[q]
  BY <1>1 DEF Shapes
<1>4. ASSUME NEW q \in Runs  PROVE SessionGood(run'[q], pc'[q], sync'[q])
  BY <1>2, <1>3 DEF SessionsGood
<1> QED  BY <1>2, <1>3, <1>4 DEF SessionsGood

\* A step that leaves the memory alone and settles no run that is done.
LEMMA UntoldKept ==
  ASSUME LoopInv, MemoryInv, NEW r \in Runs, NEW row, NEW next, NEW s,
         run' = [run EXCEPT ![r] = row], pc' = [pc EXCEPT ![r] = next],
         sync' = [sync EXCEPT ![r] = s], SessionGood(row, next, s),
         row.status \in Done => next # "over",
         bounds' \in [asked : Nat, meddling : Nat],
         UNCHANGED <<memory, disturbed>>
  PROVE  MemoryInv'
<1>1. SessionsGood
  BY DEF MemoryInv
<1>2. /\ SessionsGood'
      /\ run'[r] = row /\ pc'[r] = next /\ sync'[r] = s
      /\ \A q \in Runs \ {r} : run'[q] = run[q] /\ pc'[q] = pc[q]
  <2>1. /\ LoopInv /\ r \in Runs /\ run' = [run EXCEPT ![r] = row]
        /\ pc' = [pc EXCEPT ![r] = next] /\ sync' = [sync EXCEPT ![r] = s]
        /\ SessionGood(row, next, s)
    OBVIOUS
  <2> QED  BY ONLY <1>1, <2>1, SessionsLand
<1>3. ASSUME Cardinality(Runs) <= MaxRecentRuns, NEW q \in Runs \ disturbed',
             pc'[q] = "over", run'[q].status \in Done
      PROVE  Told(q)'
  <2>1. q # r
    BY <1>2, <1>3
  <2>2. run'[q] = run[q] /\ pc'[q] = pc[q]
    BY <1>2, <2>1
  <2>3. Told(q)
    BY <1>3, <2>2 DEF MemoryInv, AllTold
  <2> QED  BY <2>2, <2>3 DEF Told
<1>4. AllTold'
  BY <1>3 DEF AllTold
<1>5. Written(memory)'
  BY DEF MemoryInv, Written
<1> QED  BY <1>2, <1>4, <1>5 DEF MemoryInv

\* A step of a run that is not done, and leaves its session alone.
LEMMA UndoneKept ==
  ASSUME LoopInv, MemoryInv, NEW r \in Runs, NEW row, NEW next, Becomes(r, row, next),
         row.status \notin Done, sync' = sync, UNCHANGED <<memory, disturbed>>,
         bounds' \in [asked : Nat, meddling : Nat]
  PROVE  MemoryInv'
<1>1. SessionGood(row, next, sync[r])
  BY DEF MemoryInv, SessionsGood, SessionGood
<1>2. run' = [run EXCEPT ![r] = row] /\ pc' = [pc EXCEPT ![r] = next]
  BY DEF Becomes
<1>3. sync' = [sync EXCEPT ![r] = sync[r]]
  BY Same, Now
<1> QED  BY <1>1, <1>2, <1>3, UntoldKept

\* A step that hands its run over to the session.
LEMMA HandedOver ==
  ASSUME LoopInv, MemoryInv, NEW r \in Runs, NEW row, Becomes(r, row, "read"),
         NEW status \in Statuses, NEW then, SyncThen(r, status, then),
         row.status \in Done => status = row.status /\ then = "over",
         UNCHANGED <<memory, disturbed, bounds>>
  PROVE  MemoryInv'
<1>1. PICK s : s = [NoSync EXCEPT !.status = status, !.then = then]
  OBVIOUS
<1>2. /\ s.runs = <<>> /\ s.paths = <<>> /\ s.id = 0
      /\ s.status = status /\ s.then = then
  BY <1>1 DEF NoSync
<1>3. SessionGood(row, "read", s)
  BY <1>2 DEF SessionGood, Once, Syncing
<1>4. /\ run' = [run EXCEPT ![r] = row] /\ pc' = [pc EXCEPT ![r] = "read"]
      /\ sync' = [sync EXCEPT ![r] = s]
  BY <1>1 DEF Becomes, SyncThen
<1>5. bounds' \in [asked : Nat, meddling : Nat]
  BY DEF MemoryInv
<1> QED  BY <1>3, <1>4, <1>5, UntoldKept

LEMMA FailTells ==
  ASSUME LoopInv, MemoryInv, NEW r \in Runs, NEW row \in RowType, Fail(r, row)
  PROVE  MemoryInv'
<1>1. PICK new : new = [row EXCEPT !.status = "failed"]
  OBVIOUS
<1>2. new.status = "failed"
  BY <1>1 DEF RowType
<1>3. "failed" \in Statuses
  BY DEF Statuses, EndedStatuses
<1>4. /\ Becomes(r, new, "read") /\ SyncThen(r, "failed", "over")
      /\ UNCHANGED <<memory, disturbed, bounds>>
  BY <1>1 DEF Fail
<1> QED  BY <1>2, <1>3, <1>4, HandedOver

\* How a step changes the status of the row.
LEMMA StatusKept ==
  ASSUME NEW row \in RowType, NEW c, NEW d, NEW v
  PROVE  /\ Charged(row, c).status = row.status
         /\ Cleared(row).status = row.status
         /\ Completed(row, c).status = row.status
         /\ WithDuplicate(row, d).status = row.status
         /\ WithInvalid(row).status = row.status
         /\ Scored(row, c, d, v).status = row.status
         /\ [row EXCEPT !.status = v].status = v
         /\ [row EXCEPT !.scope = v].status = row.status
<1>1. DOMAIN row = {"status", "scope", "steps", "transforms", "attempt", "duplicates",
        "invalids", "feedback", "completed", "entities", "links", "outcomes", "exhausted"}
  BY DEF RowType
<1>2. Cleared(row).status = row.status
  BY <1>1 DEF Cleared
<1>3. WithDuplicate(row, d).status = row.status
  BY <1>1 DEF WithDuplicate, WithFeedback
<1>4. WithInvalid(row).status = row.status
  BY <1>1 DEF WithInvalid, WithFeedback
<1>5. Charged(row, c).status = row.status
  BY <1>1 DEF Charged
<1>6. Completed(row, c).status = row.status
  BY <1>1 DEF Completed
<1>7. Scored(row, c, d, v).status = row.status
  BY <1>1 DEF Scored
<1> QED  BY <1>1, <1>2, <1>3, <1>4, <1>5, <1>6, <1>7

LEMMA ToolDoneTells ==
  ASSUME LoopInv, MemoryInv, NEW r \in Runs, NEW row \in RowType, ToolDone(r, row),
         call[r] \in Calls, row.status \notin Done, UNCHANGED <<memory, disturbed, bounds>>
  PROVE  MemoryInv'
<1>1. PICK counted : counted = Completed(row, call[r])
  OBVIOUS
<1>2. PICK new : new = Charged(counted, call[r])
  OBVIOUS
<1>3. counted \in RowType
  BY <1>1, CompletedType
<1>4. new.status = row.status
  BY <1>1, <1>2, <1>3, StatusKept
<1>5. Becomes(r, new, "read") /\ SyncThen(r, row.status, "think")
  BY <1>1, <1>2 DEF ToolDone
<1>6. row.status \in Statuses
  BY DEF RowType, Statuses
<1> QED  BY <1>4, <1>5, <1>6, HandedOver

\* Settling a run that is not done.
LEMMA SettleTells ==
  ASSUME LoopInv, MemoryInv, NEW r \in Runs, NEW row, Settle(r, row),
         row.status \notin Done, sync' = sync, UNCHANGED <<memory, disturbed, bounds>>
  PROVE  MemoryInv'
<1>1. PICK new : new = [NewRun(row.scope) EXCEPT !.status = row.status]
  OBVIOUS
<1>2. new.status = row.status
  BY <1>1 DEF NewRun
<1>3. Becomes(r, new, "over") /\ bounds' \in [asked : Nat, meddling : Nat]
  BY <1>1 DEF Settle, MemoryInv
<1> QED  BY <1>2, <1>3, UndoneKept
LEMMA ThinkingTells ==
  ASSUME LoopInv, MemoryInv, NEW r \in Runs, Thinks(r)
  PROVE  MemoryInv'
<1>1. run[r] \in RowType /\ bounds \in [asked : Nat, meddling : Nat]
  BY Now DEF GoodTypes, MemoryInv
<1>2. PICK charged : charged = Charged(run[r], None)
  OBVIOUS
<1>3. charged \in RowType /\ charged.status = run[r].status
  BY <1>1, <1>2, ChargedType, StatusKept
<1>4. pc[r] = "asking" => run[r].status \notin Done
  BY DEF MemoryInv, SessionsGood, SessionGood, Syncing
<1>5. CASE Ask(r)
  <2>1. PICK row : row = [run[r] EXCEPT !.status = "running"]
    OBVIOUS
  <2>2. row.status \notin Done
    BY <1>1, <2>1, StatusKept DEF Done
  <2>3. /\ Becomes(r, row, "asking") /\ sync' = sync /\ UNCHANGED <<memory, disturbed>>
        /\ bounds' \in [asked : Nat, meddling : Nat]
    BY <1>1, <1>5, <2>1 DEF Ask
  <2> QED  BY <2>2, <2>3, UndoneKept
<1>6. CASE AskAgain(r)
  <2>1. PICK row : row = [run[r] EXCEPT !.attempt = run[r].attempt + 1]
    OBVIOUS
  <2>2. row.status = run[r].status
    BY <1>1, <2>1 DEF RowType
  <2>3. /\ pc[r] = "asking" /\ Becomes(r, row, "asking") /\ sync' = sync
        /\ UNCHANGED <<memory, disturbed>> /\ bounds' \in [asked : Nat, meddling : Nat]
    BY <1>1, <1>6, <2>1, Same, Now DEF AskAgain, Becomes, RowType, Shapes
  <2> QED  BY <1>4, <2>2, <2>3, UndoneKept
<1>7. CASE GiveUp(r) \/ Astray(r) \/ \E c \in Calls : Loop(r, c)
  <2>1. Fail(r, run[r]) \/ Fail(r, charged)
    BY <1>2, <1>7 DEF GiveUp, Astray, Loop
  <2> QED  BY <1>1, <1>3, <2>1, FailTells
<1>8. CASE Finish(r)
  <2>1. PICK row : row = Cleared(charged)
    OBVIOUS
  <2>2. row.status = run[r].status
    BY <1>3, <2>1, StatusKept
  <2>3. /\ pc[r] = "asking" /\ Becomes(r, row, "summary") /\ sync' = sync
        /\ UNCHANGED <<memory, disturbed>> /\ bounds' \in [asked : Nat, meddling : Nat]
    BY <1>1, <1>2, <1>8, <2>1 DEF Finish
  <2> QED  BY <1>4, <2>2, <2>3, UndoneKept
<1>9. ASSUME NEW c \in Calls, Refuse(r, c)  PROVE MemoryInv'
  <2>1. PICK row : row = WithDuplicate(charged, c)
    OBVIOUS
  <2>2. row \in RowType /\ row.status = run[r].status
    BY <1>3, <2>1, DuplicateType, StatusKept
  <2>3. /\ pc[r] = "asking"
        /\ \/ Fail(r, row)
           \/ /\ Becomes(r, row, "think") /\ sync' = sync /\ UNCHANGED <<memory, disturbed>>
              /\ bounds' \in [asked : Nat, meddling : Nat]
    BY <1>1, <1>2, <1>9, <2>1 DEF Refuse
  <2> QED  BY <1>4, <2>2, <2>3, FailTells, UndoneKept
<1>10. ASSUME NEW c \in Calls, Plan(r, c)  PROVE MemoryInv'
  <2>1. PICK row : row = Cleared(charged)
    OBVIOUS
  <2>2. row.status = run[r].status
    BY <1>3, <2>1, StatusKept
  <2>3. /\ pc[r] = "asking" /\ Becomes(r, row, "tool") /\ sync' = sync
        /\ UNCHANGED <<memory, disturbed>> /\ bounds' \in [asked : Nat, meddling : Nat]
    BY <1>1, <1>2, <1>10, <2>1 DEF Plan
  <2> QED  BY <1>4, <2>2, <2>3, UndoneKept
<1> QED  BY <1>5, <1>6, <1>7, <1>8, <1>9, <1>10 DEF Thinks

LEMMA ActingTells ==
  ASSUME LoopInv, MemoryInv, NEW r \in Runs, Acts(r)
  PROVE  MemoryInv'
<1>1. run[r] \in RowType /\ bounds \in [asked : Nat, meddling : Nat]
  BY Now DEF GoodTypes, MemoryInv
<1>2. pc[r] = "executing" => /\ run[r].status \notin Done
                             /\ call[r] \in Calls /\ call[r] # None
  <2>1. pc[r] = "executing" => call[r] \in Calls
    BY Now DEF GoodTypes, Calling
  <2>2. pc[r] = "executing" => run[r].status \notin Done
    BY DEF MemoryInv, SessionsGood, SessionGood, Syncing
  <2> QED  BY <2>1, <2>2, LoopAssumption
<1>3. CASE Exceeded(r)
  BY <1>1, <1>3, FailTells DEF Exceeded
<1>4. CASE AskApproval(r)
  <2>1. PICK row : row = [run[r] EXCEPT !.status = "paused"]
    OBVIOUS
  <2>2. /\ row.status \notin Done /\ Becomes(r, row, "waiting") /\ sync' = sync
        /\ UNCHANGED <<memory, disturbed>> /\ bounds' \in [asked : Nat, meddling : Nat]
    BY <1>1, <1>4, <2>1, StatusKept DEF AskApproval, Done
  <2> QED  BY <2>2, UndoneKept
<1>5. CASE Execute(r)
  <2>1. PICK row : row = [run[r] EXCEPT !.status = "running"]
    OBVIOUS
  <2>2. row.status \notin Done
    BY <1>1, <2>1, StatusKept DEF Done
  <2>3. /\ Becomes(r, row, "executing") /\ sync' = sync
        /\ UNCHANGED <<memory, disturbed>> /\ bounds' \in [asked : Nat, meddling : Nat]
    BY <1>1, <1>5, <2>1 DEF Execute
  <2> QED  BY <2>2, <2>3, UndoneKept
<1>6. CASE ReadTool(r) \/ ReadResult(r)
  <2>1. /\ pc[r] = "executing" /\ ToolDone(r, run[r])
        /\ UNCHANGED <<memory, disturbed, bounds>>
    BY <1>6 DEF ReadTool, ReadResult
  <2> QED  BY <1>1, <1>2, <2>1, ToolDoneTells
<1>7. CASE RunTransform(r)
  <2>1. PICK result \in Results : ToolDone(r, Scored(run[r], call[r], result[1], result[2]))
    BY <1>7 DEF RunTransform
  <2>2. PICK row : row = Scored(run[r], call[r], result[1], result[2])
    OBVIOUS
  <2>3. pc[r] = "executing" /\ UNCHANGED <<memory, disturbed, bounds>>
    BY <1>7 DEF RunTransform
  <2>4. result[1] \in SUBSET Entities /\ result[2] \in SUBSET Links
    BY LoopAssumption
  <2>5. row \in RowType
    BY <1>1, <1>2, <2>2, <2>3, <2>4, ScoredType
  <2>6. row.status = run[r].status
    BY <1>1, <2>2, StatusKept
  <2> QED  BY <1>2, <2>1, <2>2, <2>3, <2>5, <2>6, ToolDoneTells
<1>8. CASE CreateEntity(r)
  <2>1. PICK wider : wider = IF run[r].scope.mode = "selected"
                             THEN [run[r].scope EXCEPT !.ids = @ \cup {call[r].entity}]
                             ELSE run[r].scope
    OBVIOUS
  <2>2. /\ pc[r] = "executing" /\ call[r].tool = "create_entity"
        /\ ToolDone(r, [run[r] EXCEPT !.scope = wider])
        /\ UNCHANGED <<memory, disturbed, bounds>>
    BY <1>8, <2>1 DEF CreateEntity
  <2>3. wider \in ScopeType
    <3>1. call[r].entity \in Entities
      BY <1>2, <2>2, LoopAssumption DEF CallType
    <3> QED  BY <1>1, <2>1, <3>1 DEF RowType, ScopeType
  <2>4. PICK row : row = [run[r] EXCEPT !.scope = wider]
    OBVIOUS
  <2>5. row \in RowType /\ row.status = run[r].status
    BY <1>1, <2>3, <2>4 DEF RowType
  <2> QED  BY <1>2, <2>2, <2>4, <2>5, ToolDoneTells
<1>9. CASE ToolInvalid(r)
  <2>1. PICK row : row = WithInvalid(run[r])
    OBVIOUS
  <2>2. row \in RowType /\ row.status = run[r].status
    BY <1>1, <2>1, InvalidType, StatusKept
  <2>3. PICK counted : counted = Completed(row, call[r])
    OBVIOUS
  <2>4. counted.status = run[r].status
    BY <2>2, <2>3, StatusKept
  <2>5. /\ pc[r] = "executing"
        /\ \/ Fail(r, row)
           \/ /\ Becomes(r, counted, "read") /\ SyncThen(r, row.status, "think")
              /\ UNCHANGED <<memory, disturbed, bounds>>
    BY <1>9, <2>1, <2>3 DEF ToolInvalid
  <2>6. row.status \in Statuses
    BY <2>2 DEF RowType, Statuses
  <2> QED  BY <1>2, <2>2, <2>4, <2>5, <2>6, FailTells, HandedOver
<1>10. CASE ToolBreaks(r)
  <2>1. PICK row : row = [run[r] EXCEPT !.status = "failed"]
    OBVIOUS
  <2>2. /\ Becomes(r, row, "read") /\ SyncThen(r, "failed", "over")
        /\ UNCHANGED <<memory, disturbed, bounds>>
    BY <1>10, <2>1 DEF ToolBreaks
  <2>3. row.status = "failed" /\ "failed" \in Statuses
    BY <1>1, <2>1, StatusKept DEF Statuses, EndedStatuses
  <2> QED  BY <2>2, <2>3, HandedOver
<1>11. CASE Summarize(r)
  <2>1. PICK charged : charged = Charged(run[r], None)
    OBVIOUS
  <2>2. PICK row : row = [charged EXCEPT !.status = "completed"]
    OBVIOUS
  <2>3. charged \in RowType
    BY <1>1, <2>1, ChargedType
  <2>4. row.status = "completed" /\ "completed" \in Statuses
    BY <2>2, <2>3, StatusKept DEF Statuses, EndedStatuses
  <2>5. /\ Becomes(r, row, "read") /\ SyncThen(r, "completed", "over")
        /\ UNCHANGED <<memory, disturbed, bounds>>
    BY <1>11, <2>1, <2>2 DEF Summarize
  <2> QED  BY <2>4, <2>5, HandedOver
<1> QED  BY <1>3, <1>4, <1>5, <1>6, <1>7, <1>8, <1>9, <1>10, <1>11 DEF Acts

LEMMA DecidingTells ==
  ASSUME LoopInv, MemoryInv, NEW r \in Runs,
         Decides(r) \/ \E q \in Runs : Retry(r, q)
  PROVE  MemoryInv'
<1>1. run[r] \in RowType /\ bounds \in [asked : Nat, meddling : Nat]
  BY Now DEF GoodTypes, MemoryInv
<1>2. CASE Start(r) \/ \E q \in Runs : Retry(r, q)
  <2>1. \E scope, picked : Launch(r, scope, picked)
    BY <1>2 DEF Start, Retry
  <2>2. PICK scope, picked : Launch(r, scope, picked)
    BY <2>1
  <2>3. PICK row : row = NewRun(scope)
    OBVIOUS
  <2>4. row.status \notin Done
    BY <2>3 DEF NewRun, Done
  <2>5. /\ Becomes(r, row, "think") /\ sync' = sync
        /\ UNCHANGED <<memory, disturbed>> /\ bounds' \in [asked : Nat, meddling : Nat]
    BY <1>1, <2>2, <2>3 DEF Launch
  <2> QED  BY <2>4, <2>5, UndoneKept
<1>3. CASE Cancel(r)
  <2>1. PICK row : row = [run[r] EXCEPT !.status = "cancelled"]
    OBVIOUS
  <2>2. row.status \notin Done
    BY <1>1, <2>1, StatusKept DEF Done
  <2>3. /\ Becomes(r, row, pc[r]) \/ Settle(r, row)
        /\ sync' = sync /\ UNCHANGED <<memory, disturbed, bounds>>
        /\ bounds' \in [asked : Nat, meddling : Nat]
    BY <1>1, <1>3, <2>1 DEF Cancel
  <2> QED  BY <2>2, <2>3, UndoneKept, SettleTells
<1>4. CASE Approve(r)
  <2>1. PICK row : row = [run[r] EXCEPT !.status = "pending"]
    OBVIOUS
  <2>2. row.status \notin Done
    BY <1>1, <2>1, StatusKept DEF Done
  <2>3. /\ Becomes(r, row, "approved") /\ sync' = sync
        /\ UNCHANGED <<memory, disturbed>> /\ bounds' \in [asked : Nat, meddling : Nat]
    BY <1>1, <1>4, <2>1 DEF Approve
  <2> QED  BY <2>2, <2>3, UndoneKept
<1>5. CASE Reject(r)
  <2>1. pc[r] = "waiting" /\ Settle(r, run[r]) /\ sync' = sync
        /\ UNCHANGED <<memory, disturbed, bounds>>
    BY <1>5 DEF Reject
  <2>2. run[r].status \notin Done
    BY <2>1 DEF MemoryInv, SessionsGood, SessionGood, Syncing
  <2> QED  BY <2>1, <2>2, SettleTells
<1> QED  BY <1>2, <1>3, <1>4, <1>5 DEF Decides
-----------------------------------------------------------------------------
(* The sessions. *)

\* What is picked out of a list is a list of the same kind.
LEMMA PickedOut ==
  ASSUME NEW S, NEW s \in Seq(S), NEW T
  PROVE  Only(s, T) \in Seq(S) /\ Distinct(s) \in Seq(S)
<1>1. {i \in DOMAIN s : s[i] \in T} \in SUBSET (DOMAIN s)
  OBVIOUS
<1>2. {i \in DOMAIN s : \A j \in 1 .. i - 1 : s[j] # s[i]} \in SUBSET (DOMAIN s)
  OBVIOUS
<1> QED  BY <1>1, <1>2, AtPlacesEmbed DEF Only, Distinct

LEMMA PathsType ==
  ASSUME NEW r \in Runs, run[r] \in RowType, NEW old \in Seq(Families \cup Lines)
  PROVE  MergeUnique(old, ExhaustedPaths(r), MaxExhaustedPaths) \in Seq(Families \cup Lines)
<1>1. PICK said : said = {"low-yield", "already executed"}
  OBVIOUS
<1>2. run[r].exhausted \in Seq(Families \cup Lines) /\ run[r].feedback \in Seq(Families \cup Lines)
  <2>1. run[r].exhausted \in Seq(Families) /\ run[r].feedback \in Seq(Lines)
    BY DEF RowType
  <2> QED  BY <2>1, SeqMonotonic
<1>3. PICK heard : heard = Only(run[r].feedback, said)
  OBVIOUS
<1>4. heard \in Seq(Families \cup Lines)
  BY <1>2, <1>3, PickedOut
<1>5. MaxExhaustedPaths \in Nat \ {0}
  BY LoopAssumption
<1>6. PICK both : both = run[r].exhausted \o heard
  OBVIOUS
<1>7. both \in Seq(Families \cup Lines)
  BY <1>2, <1>4, <1>6
<1>8. PICK paths : paths = Latest(both, MaxExhaustedPaths)
  OBVIOUS
<1>9. paths \in Seq(Families \cup Lines)
  BY <1>5, <1>7, <1>8, LatestProperties
<1>10. ExhaustedPaths(r) = paths
  BY <1>1, <1>3, <1>6, <1>8 DEF ExhaustedPaths
<1>11. PICK joined : joined = old \o paths
  OBVIOUS
<1>12. joined \in Seq(Families \cup Lines)
  BY <1>9, <1>11
<1>13. PICK distinct : distinct = Distinct(joined)
  OBVIOUS
<1>14. distinct \in Seq(Families \cup Lines)
  BY <1>12, <1>13, PickedOut
<1>15. Latest(distinct, MaxExhaustedPaths) \in Seq(Families \cup Lines)
  BY <1>5, <1>14, LatestProperties
<1> QED  BY <1>10, <1>11, <1>13, <1>15 DEF MergeUnique

LEMMA ReadMemoryTells ==
  ASSUME LoopInv, MemoryInv, NEW r \in Runs, ReadMemory(r)
  PROVE  MemoryInv'
<1>1. run' = [run EXCEPT ![r] = run[r]] /\ UNCHANGED <<memory, disturbed, bounds>>
  BY Same, Now DEF ReadMemory
<1>2. bounds' \in [asked : Nat, meddling : Nat] /\ pc[r] \in Syncing
  BY <1>1 DEF MemoryInv, ReadMemory, Syncing
<1>3. DOMAIN sync[r] = SyncFields
  BY Now DEF GoodTypes
<1>4. SessionGood(run[r], pc[r], sync[r])
  BY DEF MemoryInv, SessionsGood
<1>5. CASE memory = None
  <2>1. pc' = [pc EXCEPT ![r] = "create"] /\ sync' = [sync EXCEPT ![r] = sync[r]]
    BY <1>5, Same, Now DEF ReadMemory
  <2>2. SessionGood(run[r], "create", sync[r])
    BY <1>2, <1>4 DEF SessionGood, Syncing
  <2> QED  BY <1>1, <1>2, <2>1, <2>2, UntoldKept
<1>6. CASE memory # None
  <2>1. PICK s : s = [sync[r] EXCEPT !.runs = memory.runs, !.paths = memory.paths,
                                     !.id = memory.id]
    OBVIOUS
  <2>2. pc' = [pc EXCEPT ![r] = "write"] /\ sync' = [sync EXCEPT ![r] = s]
    BY <1>6, <2>1, Now DEF ReadMemory, Shapes
  <2>3. /\ s.runs = memory.runs /\ s.paths = memory.paths /\ s.id = memory.id
        /\ s.status = sync[r].status /\ s.then = sync[r].then
    BY <1>3, <2>1 DEF SyncFields
  <2>4. /\ memory.runs \in Seq(Entry) /\ Once(memory.runs)
        /\ memory.paths \in Seq(Families \cup Lines) /\ memory.id \in Nat
    BY <1>6 DEF MemoryInv, Written, MemoryType
  <2>5. SessionGood(run[r], "write", s)
    BY <1>2, <1>4, <2>3, <2>4 DEF SessionGood, Syncing
  <2> QED  BY <1>1, <1>2, <2>2, <2>5, UntoldKept
<1> QED  BY <1>5, <1>6

LEMMA CreateMemoryTells ==
  ASSUME LoopInv, MemoryInv, NEW r \in Runs, CreateMemory(r)
  PROVE  MemoryInv'
<1>1. /\ run' = [run EXCEPT ![r] = run[r]] /\ pc' = [pc EXCEPT ![r] = "write"]
      /\ memory = None /\ UNCHANGED <<disturbed, bounds>>
  BY Same, Now DEF CreateMemory
<1>2. bounds \in [asked : Nat, meddling : Nat] /\ pc[r] \in Syncing
  BY DEF MemoryInv, CreateMemory, Syncing
<1>3. PICK s : s = [sync[r] EXCEPT !.id = bounds.meddling]
  OBVIOUS
<1>4. sync' = [sync EXCEPT ![r] = s]
  BY <1>3, Now DEF CreateMemory, Shapes
<1>5. DOMAIN sync[r] = SyncFields
  BY Now DEF GoodTypes
<1>6. /\ s.runs = sync[r].runs /\ s.paths = sync[r].paths /\ s.id = bounds.meddling
      /\ s.status = sync[r].status /\ s.then = sync[r].then
  BY <1>3, <1>5 DEF SyncFields
<1>7. SessionGood(run[r], pc[r], sync[r])
  BY DEF MemoryInv, SessionsGood
<1>8. SessionGood(run[r], "write", s)
  BY <1>2, <1>6, <1>7 DEF SessionGood, Syncing
<1>9. SessionsGood
  BY DEF MemoryInv
<1>10. /\ SessionsGood'
       /\ run'[r] = run[r] /\ pc'[r] = "write" /\ sync'[r] = s
       /\ \A q \in Runs \ {r} : run'[q] = run[q] /\ pc'[q] = pc[q]
  BY <1>1, <1>4, <1>8, <1>9, SessionsLand
<1>11. Written(memory)'
  <2>1. memory' = [runs |-> <<>>, paths |-> <<>>, id |-> bounds.meddling]
    BY DEF CreateMemory
  <2>2. /\ memory' \in MemoryType
        /\ memory'.runs = <<>>
    BY <1>2, <2>1 DEF MemoryType
  <2> QED  BY <2>2 DEF Written, Once
<1>12. ASSUME Cardinality(Runs) <= MaxRecentRuns, NEW q \in Runs \ disturbed',
              pc'[q] = "over", run'[q].status \in Done
       PROVE  FALSE
  <2>1. q # r
    BY <1>10, <1>12
  <2>2. pc[q] = "over" /\ run[q].status \in Done
    BY <1>10, <1>12, <2>1
  <2>3. Told(q)
    BY <1>1, <1>12, <2>2 DEF MemoryInv, AllTold
  <2> QED  BY <1>1, <2>3 DEF Told
<1>13. AllTold'
  BY <1>12 DEF AllTold
<1> QED  BY <1>1, <1>2, <1>10, <1>11, <1>13 DEF MemoryInv

\* Where a session leaves its run: it thinks on, or it is settled as it was.
LEMMA SessionEnds ==
  ASSUME LoopInv, MemoryInv, NEW r \in Runs, pc[r] \in Syncing,
         NEW next \in {"think", "over", "stranded"},
         next # "over" => sync[r].then = "think",
         Continue(r, next), sync' = [sync EXCEPT ![r] = NoSync]
  PROVE  /\ SessionsGood'
         /\ run'[r].status = run[r].status
         /\ \A q \in Runs \ {r} : run'[q] = run[q] /\ pc'[q] = pc[q]
<1>1. SessionGood(run[r], pc[r], sync[r]) /\ SessionsGood
  BY DEF MemoryInv, SessionsGood
<1>2. NoSync.runs = <<>> /\ NoSync.paths = <<>> /\ NoSync.id = 0 /\ NoSync.status = "absent"
  BY DEF NoSync
<1>3. "absent" \in Statuses
  BY DEF Statuses
<1>4. CASE Settle(r, run[r])
  <2>1. PICK new : new = [NewRun(run[r].scope) EXCEPT !.status = run[r].status]
    OBVIOUS
  <2>2. new.status = run[r].status
    BY <2>1 DEF NewRun
  <2>3. run' = [run EXCEPT ![r] = new] /\ pc' = [pc EXCEPT ![r] = "over"]
    BY <1>4, <2>1 DEF Settle, Becomes
  <2>4. SessionGood(new, "over", NoSync)
    BY <1>2, <1>3 DEF SessionGood, Once, Syncing
  <2>5. /\ SessionsGood'
        /\ run'[r] = new /\ pc'[r] = "over" /\ sync'[r] = NoSync
        /\ \A q \in Runs \ {r} : run'[q] = run[q] /\ pc'[q] = pc[q]
    BY <1>1, <2>3, <2>4, SessionsLand
  <2> QED  BY <2>2, <2>5
<1>5. CASE next # "over" /\ pc' = [pc EXCEPT ![r] = next] /\ run' = run
  <2>1. run' = [run EXCEPT ![r] = run[r]]
    BY <1>5, Same, Now
  <2>2. run[r].status \notin Done
    BY <1>1, <1>5 DEF SessionGood
  <2>3. SessionGood(run[r], next, NoSync)
    BY <1>2, <1>3, <2>2 DEF SessionGood, Once
  <2>4. /\ SessionsGood'
        /\ run'[r] = run[r] /\ pc'[r] = next /\ sync'[r] = NoSync
        /\ \A q \in Runs \ {r} : run'[q] = run[q] /\ pc'[q] = pc[q]
    BY <1>1, <1>5, <2>1, <2>3, SessionsLand
  <2> QED  BY <2>4
<1> QED  BY <1>4, <1>5 DEF Continue

\* A run that fails after a commit opens a session once more.
LEMMA FailsLate ==
  ASSUME LoopInv, MemoryInv, NEW r \in Runs, FailLate(r)
  PROVE  /\ SessionsGood' /\ pc'[r] = "read"
         /\ bounds' \in [asked : Nat, meddling : Nat]
         /\ \A q \in Runs \ {r} : run'[q] = run[q] /\ pc'[q] = pc[q]
<1>1. PICK new : new = [run[r] EXCEPT !.status = "failed"]
  OBVIOUS
<1>2. PICK s : s = [NoSync EXCEPT !.status = "failed", !.then = "over"]
  OBVIOUS
<1>3. /\ s.runs = <<>> /\ s.paths = <<>> /\ s.id = 0
      /\ s.status = "failed" /\ s.then = "over" /\ "failed" \in Statuses
  BY <1>2 DEF NoSync, Statuses, EndedStatuses
<1>4. new.status = "failed"
  BY <1>1, Now DEF GoodTypes, RowType
<1>5. SessionGood(new, "read", s)
  BY <1>3, <1>4 DEF SessionGood, Once, Syncing
<1>6. /\ run' = [run EXCEPT ![r] = new] /\ pc' = [pc EXCEPT ![r] = "read"]
      /\ sync' = [sync EXCEPT ![r] = s]
  BY <1>1, <1>2 DEF FailLate, Becomes, SyncThen
<1>7. SessionsGood /\ bounds' \in [asked : Nat, meddling : Nat]
  BY DEF MemoryInv, FailLate
<1>8. PICK read : read = "read"
  OBVIOUS
<1> QED  BY <1>5, <1>6, <1>7, <1>8, SessionsLand

\* A step of a run that leaves the memory alone; the run goes on, or the memory
\* could not tell of it.
LEMMA OthersTold ==
  ASSUME AllTold, NEW r \in Runs, memory' = memory, disturbed \subseteq disturbed',
         pc'[r] # "over" \/ r \in disturbed',
         \A q \in Runs \ {r} : run'[q] = run[q] /\ pc'[q] = pc[q]
  PROVE  AllTold'
<1>1. ASSUME Cardinality(Runs) <= MaxRecentRuns, NEW q \in Runs \ disturbed',
             pc'[q] = "over", run'[q].status \in Done
      PROVE  Told(q)'
  <2>1. q # r
    BY <1>1
  <2>2. run'[q] = run[q] /\ pc'[q] = pc[q]
    BY <2>1
  <2>3. Told(q)
    BY <1>1, <2>2 DEF AllTold
  <2> QED  BY <2>2, <2>3 DEF Told
<1> QED  BY <1>1 DEF AllTold

LEMMA WriteMemoryTells ==
  ASSUME IsFiniteSet(Runs), LoopInv, MemoryInv, NEW r \in Runs, WriteMemory(r)
  PROVE  MemoryInv'
<1>1. /\ pc[r] \in Syncing /\ memory # None
      /\ disturbed' = IF memory.runs = sync[r].runs THEN disturbed ELSE Runs
      /\ \/ /\ Continue(r, sync[r].then)
            /\ sync' = [sync EXCEPT ![r] = NoSync] /\ bounds' = bounds
         \/ FailLate(r)
  BY DEF WriteMemory, RowRemains, Syncing
<1>2. sync[r].then \in {"think", "over"} /\ run[r] \in RowType
  BY Now DEF GoodTypes
<1>3. SessionGood(run[r], pc[r], sync[r]) /\ Written(memory)
  BY DEF MemoryInv, SessionsGood
<1>4. /\ SessionsGood'
      /\ pc'[r] = "over" => run'[r].status = run[r].status
      /\ \A q \in Runs \ {r} : run'[q] = run[q] /\ pc'[q] = pc[q]
  <2>1. PICK next : next = sync[r].then
    OBVIOUS
  <2>2. CASE FailLate(r)
    BY <2>2, FailsLate
  <2>3. CASE ~FailLate(r)
    BY <1>1, <1>2, <2>1, <2>3, SessionEnds
  <2> QED  BY <2>2, <2>3
<1>5. PICK list : list = sync[r].runs
  OBVIOUS
<1>6. PICK status : status = sync[r].status
  OBVIOUS
<1>7. list \in Seq(Entry) /\ Once(list) /\ status \in Statuses
  BY <1>3, <1>5, <1>6 DEF SessionGood
<1>8. PICK new : new = MergeRecentRuns(list, r, status)
  OBVIOUS
<1>9. /\ new \in Seq(Entry) /\ Once(new)
      /\ [run |-> r, status |-> status] \in Range(new)
      /\ Cardinality(Runs) <= MaxRecentRuns =>
           \A x \in Range(list) : x.run # r => x \in Range(new)
  BY <1>7, <1>8, MergedRuns
<1>10. PICK paths : paths = MergeUnique(sync[r].paths, ExhaustedPaths(r), MaxExhaustedPaths)
  OBVIOUS
<1>11. paths \in Seq(Families \cup Lines)
  <2>1. sync[r].paths \in Seq(Families \cup Lines)
    BY <1>3 DEF SessionGood
  <2> QED  BY <1>2, <1>10, <2>1, PathsType
<1>12. memory' = [memory EXCEPT !.runs = new,
                                !.paths = IF paths = sync[r].paths THEN @ ELSE paths]
  BY <1>5, <1>6, <1>8, <1>10 DEF WriteMemory
<1>13. /\ memory' \in MemoryType
       /\ memory'.runs = new
  BY <1>1, <1>3, <1>9, <1>11, <1>12 DEF Written, MemoryType
<1>14. memory' # None
  BY <1>13, LoopAssumption
<1>15. ASSUME Cardinality(Runs) <= MaxRecentRuns, NEW q \in Runs \ disturbed',
              pc'[q] = "over", run'[q].status \in Done
       PROVE  Told(q)'
  <2>1. memory.runs = list /\ disturbed' = disturbed
    BY <1>1, <1>5, <1>15
  <2>2. CASE q = r
    <3>1. status = run'[q].status
      BY <1>1, <1>3, <1>4, <1>6, <1>15, <2>2 DEF SessionGood
    <3> QED  BY <1>9, <1>13, <1>14, <2>2, <3>1 DEF Told
  <2>3. CASE q # r
    <3>1. pc[q] = "over" /\ run[q].status \in Done /\ run'[q] = run[q]
      BY <1>4, <1>15, <2>3
    <3>2. Told(q)
      BY <1>15, <2>1, <3>1 DEF MemoryInv, AllTold
    <3>3. PICK x : x = [run |-> q, status |-> run[q].status]
      OBVIOUS
    <3>4. x \in Range(list) /\ x.run # r
      BY <2>1, <2>3, <3>2, <3>3 DEF Told
    <3>5. x \in Range(new)
      BY <1>9, <1>15, <3>4
    <3> QED  BY <1>13, <1>14, <3>1, <3>3, <3>5 DEF Told
  <2> QED  BY <2>2, <2>3
<1>16. AllTold'
  BY <1>15 DEF AllTold
<1>17. Written(memory)'
  BY <1>9, <1>13 DEF Written
<1>18. bounds' \in [asked : Nat, meddling : Nat]
  BY <1>1, FailsLate DEF MemoryInv
<1> QED  BY <1>4, <1>16, <1>17, <1>18 DEF MemoryInv

\* A session ends, and the run it was for is one the memory is not told of.
LEMMA UnsyncedTells ==
  ASSUME LoopInv, MemoryInv, NEW r \in Runs, MemoryConflict(r) \/ WorkerDies(r)
  PROVE  MemoryInv'
<1>1. PICK next : next = IF sync[r].then = "think" THEN "stranded" ELSE "over"
  OBVIOUS
<1>2. /\ pc[r] \in Syncing /\ Continue(r, next)
      /\ sync' = [sync EXCEPT ![r] = NoSync]
      /\ disturbed' = disturbed \cup {r} /\ memory' = memory
  BY <1>1 DEF MemoryConflict, WorkerDies, Unsynced, Syncing
<1>3. next \in {"think", "over", "stranded"} /\ (next # "over" => sync[r].then = "think")
  BY <1>1
<1>4. /\ SessionsGood'
      /\ \A q \in Runs \ {r} : run'[q] = run[q] /\ pc'[q] = pc[q]
  BY <1>2, <1>3, SessionEnds
<1>5. AllTold' /\ Written(memory)'
  BY <1>2, <1>4, OthersTold DEF MemoryInv, Written
<1>6. bounds' \in [asked : Nat, meddling : Nat]
  BY DEF MemoryInv, MemoryConflict, WorkerDies
<1> QED  BY <1>4, <1>5, <1>6 DEF MemoryInv

LEMMA FailUnsyncedTells ==
  ASSUME LoopInv, MemoryInv, NEW r \in Runs, FailUnsynced(r)
  PROVE  MemoryInv'
<1>1. /\ pc'[r] = "read" /\ SessionsGood' /\ bounds' \in [asked : Nat, meddling : Nat]
      /\ \A q \in Runs \ {r} : run'[q] = run[q] /\ pc'[q] = pc[q]
  BY FailsLate DEF FailUnsynced
<1>2. memory' = memory /\ disturbed' = disturbed
  BY DEF FailUnsynced
<1>3. AllTold' /\ Written(memory)'
  BY <1>1, <1>2, OthersTold DEF MemoryInv, Written
<1> QED  BY <1>1, <1>3 DEF MemoryInv

LEMMA RecoverStaleTells ==
  ASSUME LoopInv, MemoryInv, NEW r \in Runs, RecoverStale(r)
  PROVE  MemoryInv'
<1>1. PICK failed : failed = [run[r] EXCEPT !.status = "failed"]
  OBVIOUS
<1>2. PICK new : new = [NewRun(failed.scope) EXCEPT !.status = failed.status]
  OBVIOUS
<1>3. /\ run' = [run EXCEPT ![r] = new] /\ pc' = [pc EXCEPT ![r] = "over"]
      /\ sync' = sync /\ memory' = memory /\ bounds' = bounds
      /\ disturbed' = disturbed \cup {r}
  BY <1>1, <1>2 DEF RecoverStale, Settle, Becomes
<1>4. sync' = [sync EXCEPT ![r] = sync[r]]
  BY <1>3, Same, Now
<1>5. SessionGood(new, "over", sync[r])
  BY DEF MemoryInv, SessionsGood, SessionGood, Syncing
<1>6. SessionsGood
  BY DEF MemoryInv
<1>7. SessionsGood' /\ \A q \in Runs \ {r} : run'[q] = run[q] /\ pc'[q] = pc[q]
  BY <1>3, <1>4, <1>5, <1>6, SessionsLand
<1>8. AllTold' /\ Written(memory)'
  BY <1>3, <1>7, OthersTold DEF MemoryInv, Written
<1> QED  BY <1>3, <1>7, <1>8 DEF MemoryInv

LEMMA MemoryInit == Init => MemoryInv
<1> SUFFICES ASSUME Init  PROVE MemoryInv
  OBVIOUS
<1>1. NoSync.runs = <<>> /\ NoSync.paths = <<>> /\ NoSync.id = 0 /\ NoSync.status = "absent"
  BY DEF NoSync
<1>2. "absent" \in Statuses /\ "absent" \notin Done
  BY DEF Statuses, Done
<1>3. ASSUME NEW r \in Runs
      PROVE  run[r].status = "absent" /\ sync[r] = NoSync
  BY DEF Init, NewRun
<1>4. SessionsGood
  <2> SUFFICES ASSUME NEW r \in Runs  PROVE SessionGood(run[r], pc[r], sync[r])
    BY DEF SessionsGood
  <2>1. /\ sync[r].runs = <<>> /\ sync[r].paths = <<>> /\ sync[r].id = 0
        /\ sync[r].status \in Statuses /\ run[r].status \notin Done
    BY <1>1, <1>2, <1>3
  <2> QED  BY <2>1 DEF SessionGood, Once
<1>5. AllTold
  BY <1>2, <1>3 DEF AllTold
<1> QED  BY <1>4, <1>5 DEF Init, MemoryInv, Written

LEMMA MemoryNext ==
  ASSUME IsFiniteSet(Runs)
  PROVE  LoopInv /\ MemoryInv /\ [Next]_vars => MemoryInv'
<1> SUFFICES ASSUME LoopInv, MemoryInv, [Next]_vars  PROVE MemoryInv'
  OBVIOUS
<1>1. ASSUME NEW r \in Runs, Syncs(r)  PROVE MemoryInv'
  BY <1>1, ReadMemoryTells, CreateMemoryTells, WriteMemoryTells, UnsyncedTells,
     FailUnsyncedTells, RecoverStaleTells DEF Syncs
<1>2. ASSUME NEW r \in Runs, Thinks(r) \/ Acts(r) \/ Syncs(r) \/ Decides(r)
      PROVE  MemoryInv'
  BY <1>1, <1>2, ThinkingTells, ActingTells, DecidingTells
<1>3. ASSUME NEW r \in Runs, NEW q \in Runs, Retry(r, q)  PROVE MemoryInv'
  BY <1>3, DecidingTells
<1>4. ASSUME UNCHANGED <<run, pc, sync, memory, disturbed>>,
             bounds' \in [asked : Nat, meddling : Nat]
      PROVE  MemoryInv'
  BY <1>4 DEF MemoryInv, SessionsGood, AllTold, Told, Written
<1>5. ASSUME NEW e \in Entities, DeleteEntity(e)  PROVE MemoryInv'
  BY <1>4, <1>5 DEF DeleteEntity, MemoryInv
<1>6. CASE UNCHANGED vars
  BY <1>4, <1>6 DEF vars, MemoryInv
<1>7. CASE ResetMemory
  <2>1. /\ memory' = None /\ disturbed' = Runs /\ UNCHANGED <<run, pc, sync>>
        /\ bounds' \in [asked : Nat, meddling : Nat]
    BY <1>7 DEF ResetMemory, MemoryInv
  <2> QED  BY <2>1 DEF MemoryInv, SessionsGood, AllTold, Written
<1> QED  BY <1>2, <1>3, <1>5, <1>6, <1>7 DEF Next

\* Whatever runs overlap, as long as no two sessions rewrite the memory at the
\* same time and nobody resets it, the memory names every run that is done with
\* the status it ended with, and once (project_memory_store.py:150-170, called
\* by orchestrator.py's complete and fail paths), the runs excepted whose last
\* session ended before the memory was written and those that recover_stale_runs
\* failed.
THEOREM MemoryTells == IsFiniteSet(Runs) /\ Spec => []MemoryTellsHowRunsEnded
<1> SUFFICES ASSUME IsFiniteSet(Runs)  PROVE Spec => []MemoryTellsHowRunsEnded
  OBVIOUS
<1>1. MemoryInv => MemoryTellsHowRunsEnded
  <2> SUFFICES ASSUME MemoryInv, Cardinality(Runs) <= MaxRecentRuns,
                      NEW r \in Runs \ disturbed, pc[r] = "over",
                      run[r].status \in {"completed", "failed"}
               PROVE  /\ memory # None
                      /\ [run |-> r, status |-> run[r].status] \in Range(memory.runs)
                      /\ \A i, j \in DOMAIN memory.runs :
                           memory.runs[i].run = r /\ memory.runs[j].run = r => i = j
    BY DEF MemoryTellsHowRunsEnded
  <2>1. Told(r)
    BY DEF MemoryInv, AllTold, Done
  <2>2. Once(memory.runs)
    BY <2>1 DEF MemoryInv, Written, Told
  <2> QED  BY <2>1, <2>2 DEF Told, Once
<1>2. LoopInv /\ MemoryInv /\ [Next]_vars => MemoryInv'
  BY MemoryNext
<1> QED  BY <1>1, <1>2, MemoryInit, LoopInvariant, PTL DEF Spec
=============================================================================
