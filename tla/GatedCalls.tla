----------------------------- MODULE GatedCalls ------------------------------
(***************************************************************************)
(* What an investigation promises about the calls it makes: the agent      *)
(* proposes a call once and for all, only a user approves one that needs   *)
(* it, and a call that needs an approval is carried out after that.  How   *)
(* often is not promised: a call may be carried out again when a worker    *)
(* died before it could tell.  Module AgentRuntime implements this.        *)
(***************************************************************************)
EXTENDS Naturals

CONSTANTS
  Calls,       \* identities of calls
  Tools,       \* what may be called
  GatedTools,  \* what needs an approval
  None

VARIABLES
  tool,       \* what each call is, None before it is proposed
  approved,   \* the calls a user has approved
  carriedOut  \* how often each was carried out

vars == <<tool, approved, carriedOut>>

Init ==
  /\ tool = [c \in Calls |-> None]
  /\ approved = {}
  /\ carriedOut = [c \in Calls |-> 0]

Propose(c) ==
  /\ tool[c] = None
  /\ \E t \in Tools : tool' = [tool EXCEPT ![c] = t]
  /\ UNCHANGED <<approved, carriedOut>>

Approve(c) ==
  /\ tool[c] \in GatedTools
  /\ approved' = approved \cup {c}
  /\ UNCHANGED <<tool, carriedOut>>

CarryOut(c) ==
  /\ tool[c] \in Tools
  /\ tool[c] \in GatedTools => c \in approved
  /\ carriedOut' = [carriedOut EXCEPT ![c] = @ + 1]
  /\ UNCHANGED <<tool, approved>>

Next == \E c \in Calls : Propose(c) \/ Approve(c) \/ CarryOut(c)

Spec == Init /\ [][Next]_vars
=============================================================================
