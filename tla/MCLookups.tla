------------------------------ MODULE MCLookups ------------------------------
(***************************************************************************)
(* Two requests at a time.  A name and the longer one that is displayed    *)
(* for it, two places; two facilities and two networks.  Three browsers.   *)
(***************************************************************************)
EXTENDS Lookups, EventBridge

CONSTANTS par, paris, here, there, f1, f2, x, y

Beginnings == par :> {par, paris} @@ paris :> {paris}

Entity(label, place) == [label |-> label, place |-> place]

Maps == { <<Entity(par, here), Entity(None, None)>>,
          <<Entity(par, None), Entity(paris, there), Entity(None, here)>> }

Distances == x :> (f1 :> 1 @@ f2 :> 2) @@ y :> (f1 :> 9 @@ f2 :> 1)

AllOrNone == {{}, {f1, f2}}

Symmetry == Permutations(Clients)

\* Beside the lookups the process has its event bridge, which shares nothing
\* with them: each is looked at by itself.
ProcessInit == Init /\ BridgeInit

ProcessNext ==
  \/ BridgeInit /\ Next /\ UNCHANGED bridgeVars
  \/ Init /\ BridgeNext /\ UNCHANGED vars

ProcessSpec == ProcessInit /\ [][ProcessNext]_<<vars, bridgeVars>>

\* Bound: only for the popularity do more than two come.
TwoAtMost ==
  lookups > 2 => /\ facilityCache["api"] = None
                 /\ \A c \in Clients : lk[c].pc = "idle" \/ lk[c].ask.op = "popularity"
=============================================================================
