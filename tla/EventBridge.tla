---------------------------- MODULE EventBridge -----------------------------
(***************************************************************************)
(* How the events of one project's jobs get from Redis to its browsers     *)
(* (api/websocket.py): redis_pubsub_listener takes one message at a time   *)
(* and ConnectionManager sends it to every registered WebSocket in turn.   *)
(* While it waits for a send, sockets register and leave, in the list that *)
(* it is going through.                                                    *)
(***************************************************************************)
EXTENDS Integers, Sequences, FiniteSets, SequencesExt, Filtering

CONSTANTS
  Sockets,    \* connections that are made, each of which is new
  MaxEvents,  \* bound: messages that are published
  Nobody,     \* none of them
  MaxLosses   \* bound: losses of the connection to Redis

ASSUME EventBridgeAssumption == MaxEvents \in Nat /\ MaxLosses \in Nat

VARIABLES
  socket,    \* each connection: "absent", "open", "broken" or "left"
  conns,     \* _connections[project_id]; empty when there is no such key
  listener,  \* "subscribed", "sending", "waiting" for a send, or "lost"
  buffer,    \* what Redis has sent and the listener has not taken
  cast,      \* the broadcast that is going on
  events,    \* messages so far
  losses,    \* connections to Redis lost so far
  received,  \* history: what each browser has received
  left       \* history: who has left since the broadcast began

bridgeVars == <<socket, conns, listener, buffer, cast, events, losses, received, left>>

NoCast == [message |-> 0, next |-> 1, to |-> Nobody, dead |-> {}, detached |-> FALSE, owed |-> {}]

BridgeInit ==
  /\ socket = [s \in Sockets |-> "absent"]
  /\ conns = <<>> /\ listener = "lost" /\ buffer = <<>> /\ cast = NoCast
  /\ events = 0 /\ losses = 0
  /\ received = [s \in Sockets |-> <<>>] /\ left = {}

-----------------------------------------------------------------------------
\* The list that is gone through: the one registered, unless that was emptied
\* meanwhile, and so deleted and replaced by another.
Listed == IF cast.detached THEN <<>> ELSE conns

\* disconnect: whoever is registered is taken out of the list.
Without(S) == Only(conns, Range(conns) \ S)

Detaches(list) == IF cast = NoCast THEN NoCast ELSE [cast EXCEPT !.detached = @ \/ list = <<>>]

\* Mutant: a new connection is put first.
RegisterFirst(s) == <<s>> \o conns

Register(s) == Append(conns, s)

Connect(s) ==
  /\ socket[s] = "absent"
  /\ socket' = [socket EXCEPT ![s] = "open"] /\ conns' = Register(s)
  /\ UNCHANGED <<listener, buffer, cast, events, losses, received, left>>

\* The other end is gone and the endpoint has not noticed.
Break(s) ==
  /\ socket[s] = "open" /\ socket' = [socket EXCEPT ![s] = "broken"]
  /\ UNCHANGED <<conns, listener, buffer, cast, events, losses, received, left>>

\* receive_text raises, and the endpoint takes the connection out.
Disconnect(s) ==
  /\ socket[s] \in {"open", "broken"} /\ socket' = [socket EXCEPT ![s] = "left"]
  /\ conns' = Without({s}) /\ cast' = Detaches(Without({s}))
  /\ left' = IF cast = NoCast THEN {} ELSE left \cup {s}
  /\ UNCHANGED <<listener, buffer, events, losses, received>>

\* What is published while nobody has subscribed is lost.
Publish ==
  /\ events < MaxEvents /\ events' = events + 1
  /\ buffer' = IF listener = "lost" THEN buffer ELSE Append(buffer, events')
  /\ UNCHANGED <<socket, conns, listener, cast, losses, received, left>>

-----------------------------------------------------------------------------
Subscribe ==
  /\ listener = "lost" /\ listener' = "subscribed"
  /\ UNCHANGED <<socket, conns, buffer, cast, events, losses, received, left>>

\* The connection is lost with what it has not delivered.
LoseRedis ==
  /\ listener = "subscribed" /\ losses < MaxLosses
  /\ listener' = "lost" /\ buffer' = <<>> /\ losses' = losses + 1
  /\ UNCHANGED <<socket, conns, cast, events, received, left>>

Take ==
  /\ listener = "subscribed" /\ buffer # <<>> /\ buffer' = Tail(buffer)
  /\ \/ conns = <<>> /\ UNCHANGED <<listener, cast, left>>
     \/ /\ conns # <<>> /\ listener' = "sending" /\ left' = {}
        /\ cast' = [NoCast EXCEPT !.message = Head(buffer), !.owed = Range(conns)]
  /\ UNCHANGED <<socket, conns, events, losses, received>>

\* The next place of the list, as the list is by now.
Send ==
  /\ listener = "sending" /\ cast.next <= Len(Listed)
  /\ listener' = "waiting"
  /\ cast' = [cast EXCEPT !.next = @ + 1, !.to = Listed[cast.next],
                         !.dead = @ \cup {Listed[cast.next]}]
  /\ UNCHANGED <<socket, conns, buffer, events, losses, received, left>>

\* Mutant: a dead connection is taken out at once.
DropAtOnce(s) == conns' = Without({s}) /\ cast' = Detaches(Without({s}))

\* Dead ones are only noted, and taken out when everyone has been gone through.
DropLater(s) == UNCHANGED <<conns, cast>>

\* The connection that is sent to stands among the dead until the send ends.
\* It may be closed or break meanwhile: what was sent then may be lost or not.
EndSend ==
  /\ listener = "waiting" /\ listener' = "sending"
  /\ \/ /\ socket[cast.to] = "open"
        /\ cast' = [cast EXCEPT !.dead = @ \ {cast.to}]
        /\ received' = [received EXCEPT ![cast.to] = Append(@, cast.message)]
        /\ UNCHANGED conns
     \/ socket[cast.to] # "open" /\ DropLater(cast.to) /\ UNCHANGED received
  /\ UNCHANGED <<socket, buffer, events, losses, left>>

Ended == listener = "sending" /\ cast.next > Len(Listed)

EndCast ==
  /\ Ended /\ listener' = "subscribed"
  /\ conns' = Without(cast.dead) /\ cast' = NoCast /\ left' = {}
  /\ UNCHANGED <<socket, buffer, events, losses, received>>

BridgeNext ==
  \/ \E s \in Sockets : Connect(s) \/ Break(s) \/ Disconnect(s)
  \/ Publish \/ Subscribe \/ LoseRedis \/ Take \/ Send \/ EndSend \/ EndCast

BridgeSpec == BridgeInit /\ [][BridgeNext]_bridgeVars

-----------------------------------------------------------------------------
(***************************************************************************)
(* Properties.                                                             *)
(***************************************************************************)
\* websocket.py:87-102: a browser receives messages in the order they were
\* published in, none of them twice.
InOrderOnce ==
  \A s \in Sockets : \A i, j \in DOMAIN received[s] : i < j => received[s][i] < received[s][j]

\* websocket.py:45-55: who is passed over in a broadcast, though connected
\* from before it until its end, is so because another one has left meanwhile
\* (the list is gone through while it gets shorter): as many at most.
PassedOver ==
  {s \in cast.owed : s \in Range(conns) /\ s \notin cast.dead
                    /\ cast.message \notin Range(received[s])}
OnlyLeaversHideOthers == Ended => Cardinality(PassedOver) <= Cardinality(left)

\* websocket.py:36-41: whoever has left is not in the list.
LeaversAreForgotten == \A s \in Range(conns) : socket[s] # "left"

\* websocket.py:43-55: what a browser can rely on of its messages.
EventsArrive == InOrderOnce /\ OnlyLeaversHideOthers /\ LeaversAreForgotten
=============================================================================
