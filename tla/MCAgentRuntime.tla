--------------------------- MODULE MCAgentRuntime ---------------------------
(***************************************************************************)
(* Small instances of AgentRuntime.  The tools are a read-only one and a   *)
(* transform, which needs approval; processes of one kind are              *)
(* interchangeable.                                                        *)
(***************************************************************************)
EXTENDS AgentRuntime, TLC

CONSTANTS w1, w2, u1, u2, r1, r2

OneWorker  == {w1}
TwoWorkers == {w1, w2}
OneUser    == {u1}
TwoUsers   == {u1, u2}
OneRun     == {r1}
TwoRuns    == {r1, r2}

Symmetry == Permutations(Workers) \cup Permutations(Users) \cup Permutations(Runs)

-----------------------------------------------------------------------------
(***************************************************************************)
(* Two workers that are late, so that one takes the other's step, have one *)
(* user and one run, beside one that failed before it had a step; a worker *)
(* that works alone and in time has two users and two runs.                *)
(***************************************************************************)
CrewInit ==
  /\ run \in {[r \in Runs |-> IF r \in failed THEN [NoRun EXCEPT !.status = "failed"] ELSE NoRun] :
                failed \in {{}} \cup {{r} : r \in Runs}}
  /\ step = [x \in Rows |-> NoRow] /\ execs = [x \in Rows |-> 0] /\ granted = {}
  /\ worker = [w \in Workers |-> IdleWorker] /\ request = [u \in Users |-> IdleRequest]
  /\ crashes = 0

CrewSpec == CrewInit /\ [][Next]_vars

AtWork == {w \in Workers : worker[w].pc # "idle"}
Asking == {u \in Users : request[u].pc # "idle"}

\* Bound: see above; and two workers have four rows of gated calls, carry each
\* out twice at most, and do not both fail a step at a time; one worker with two
\* users has four rows in one run and three in the other.
CrewWorks ==
  IF \E r \in Runs : run[r].status = "failed" /\ ~ Exists(<<r, 1>>)
  THEN /\ Cardinality(Asking) <= 1
       /\ \A x \in Rows : /\ execs[x] <= 2 /\ step[x].tool \notin ReadOnlyTools
                          /\ x[2] > 4 => ~ Exists(x)
       /\ \E w \in Workers : worker[w].pc # "failing"
  ELSE /\ Cardinality((AtWork \cup {step[x].worker : x \in Rows}) \ {None}) <= 1
       /\ AtWork # {} => \A x \in Rows : ~ step[x].stale
       /\ Cardinality({x \in Rows : Exists(x) /\ x[2] > 3}) <= 1
=============================================================================
