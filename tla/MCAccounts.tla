----------------------------- MODULE MCAccounts -----------------------------
(***************************************************************************)
(* Two requests at a time, two subscriptions or periods and two handlers   *)
(* of webhooks.                                                            *)
(***************************************************************************)
EXTENDS Accounts, TLC

\* Requests, secrets and handlers are interchangeable.
Symmetry == Permutations(Gates) \cup Permutations(Hooks) \cup Permutations(Secrets)
              \cup Permutations(Subs)

\* Bound: once there is a subscription, one request, to run a transform, of a
\* user who may, and none with further changes of the subscription; time
\* passes once something depends on it.
FewEvents == /\ latest.version > 0 =>
                  /\ asked + latest.version <= 2
                  /\ project = "private" /\ role # None /\ keys # {}
                  /\ \A c \in Clients : req[c].pc # "idle" => req[c].ask.op = "run"
             /\ now > 0 => latest.version > 0 \/ usage # None

\* Bound: requests that overlap are about one row, or one of them is to run a
\* transform or about the project, which the others read.
Related == \A c, d \in Clients :
             req[c].pc = "idle" \/ req[d].pc = "idle"
               \/ req[c].ask.subject = req[d].ask.subject
               \/ {None, "project"} \cap {req[c].ask.subject, req[d].ask.subject} # {}
=============================================================================
