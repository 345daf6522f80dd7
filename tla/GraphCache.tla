----------------------------- MODULE GraphCache ------------------------------
(***************************************************************************)
(* The graph of one project: its rows in the database, and the GraphEngine *)
(* that an API process keeps of it (api/graph.py, api/entities.py,         *)
(* api/edges.py).  A request changes the database in one transaction and   *)
(* the engine when its coroutine goes on; between the two, and between the *)
(* two queries that hydrate the engine, any other request may run.         *)
(* Transform workers and agents write to the database alone.               *)
(***************************************************************************)
EXTENDS GraphEngine, Naturals

CONSTANTS
  Requests,   \* requests of the API process that may overlap
  MaxStrays   \* bound of the model: out-of-band writes and failed hydrations

ASSUME StraysAssumption == MaxStrays \in Nat

VARIABLES
  entity,   \* the row of each entity: "absent", "present" or "deleted"
  edge,     \* the row of each edge
  engine,   \* the engine of the process
  request,  \* each request: what its coroutine does next, and with what
  alone,    \* history: the refresh no other request or writer has overlapped
  strays    \* how many out-of-band writes and failed hydrations so far

database == <<entity, edge>>
vars == <<entity, edge, engine, request, alone, strays>>

RowStatuses == {"absent", "present", "deleted"}

\* What a request does next; it carries what it has written or read so far.
Steps == {"idle", "putEntities", "dropEntities", "putEdges", "replaceEdges",
          "dropEdges", "listEntities", "listEdges", "merge"}

RequestType == [pc : Steps, entities : SUBSET Entities, edges : SUBSET Edges]

Idle == [pc |-> "idle", entities |-> {}, edges |-> {}]

Init ==
  /\ entity = [x \in Entities |-> "absent"]
  /\ edge = [e \in Edges |-> "absent"]
  /\ engine = EmptyGraph
  /\ request = [r \in Requests |-> Idle]
  /\ alone = {}
  /\ strays = 0

StoredEntities == {x \in Entities : entity[x] = "present"}
StoredEdges    == {e \in Edges : edge[e] = "present"}

\* The types of the variables, and that stored edges have stored ends, which the
\* foreign keys of the edges table see to.
TypeOK ==
  /\ entity \in [Entities -> RowStatuses]
  /\ edge \in [Edges -> RowStatuses]
  /\ engine \in GraphType
  /\ request \in [Requests -> RequestType]
  /\ alone \subseteq Requests
  /\ strays \in 0 .. MaxStrays
  /\ \A e \in StoredEdges : Ends(e) \subseteq StoredEntities

-----------------------------------------------------------------------------
(* The rows. *)

\* create, save or import: an entity of that type and value is found or inserted.
SaveEntity(x) ==
  /\ entity[x] # "deleted"
  /\ entity' = [entity EXCEPT ![x] = "present"]
  /\ UNCHANGED edge

\* An edge with these ends and this label is found or inserted, if both ends are
\* stored.
SaveEdge(e) ==
  /\ edge[e] # "deleted"
  /\ Ends(e) \subseteq StoredEntities
  /\ edge' = [edge EXCEPT ![e] = "present"]
  /\ UNCHANGED entity

\* Mutant: no foreign keys (the PRAGMA that SQLite needs is forgotten).
DeleteRowsOnly(S) ==
  /\ entity' = [x \in Entities |-> IF x \in S THEN "deleted" ELSE entity[x]]
  /\ UNCHANGED edge

\* The edges of a deleted entity go with it, by the foreign keys.
DeleteRows(S) ==
  /\ entity' = [x \in Entities |-> IF x \in S THEN "deleted" ELSE entity[x]]
  /\ edge' = [e \in Edges |->
       IF e \in StoredEdges /\ Ends(e) \cap S # {} THEN "deleted" ELSE edge[e]]

-----------------------------------------------------------------------------
(* The requests. *)

Carry(pc, S, T) == [pc |-> pc, entities |-> S, edges |-> T]

\* A request begins: no refresh under way is alone any longer.
Begin(r, to) ==
  /\ request[r].pc = "idle"
  /\ request' = [request EXCEPT ![r] = to]
  /\ alone' = {}

\* A request goes on: any other refresh is not alone.
Becomes(r, from, to) ==
  /\ request[r].pc = from
  /\ request' = [request EXCEPT ![r] = to]
  /\ alone' = alone \cap {r}

CreateEntity(r, x) ==
  /\ Begin(r, Carry("putEntities", {x}, {}))
  /\ SaveEntity(x)
  /\ UNCHANGED <<engine, strays>>

UpdateEntity(r, x) ==
  /\ Begin(r, Carry("putEntities", {x}, {}))
  /\ entity[x] = "present"
  /\ UNCHANGED <<database, engine, strays>>

DeleteEntities(r, S) ==
  /\ Begin(r, Carry("dropEntities", S, {}))
  /\ S # {} /\ S \subseteq StoredEntities
  /\ DeleteRows(S)
  /\ UNCHANGED <<engine, strays>>

CreateEdge(r, e) ==
  /\ Begin(r, Carry("putEdges", {}, {e}))
  /\ SaveEdge(e)
  /\ UNCHANGED <<engine, strays>>

UpdateEdge(r, e) ==
  /\ Begin(r, Carry("replaceEdges", {}, {e}))
  /\ edge[e] = "present"
  /\ UNCHANGED <<database, engine, strays>>

DeleteEdge(r, e) ==
  /\ Begin(r, Carry("dropEdges", {}, {e}))
  /\ edge[e] = "present"
  /\ edge' = [edge EXCEPT ![e] = "deleted"]
  /\ UNCHANGED <<entity, engine, strays>>

\* The rest of a request that has changed the database: its write to the engine.
Finish(r, pc, graph) ==
  /\ Becomes(r, pc, Idle)
  /\ engine' = graph
  /\ UNCHANGED <<database, strays>>

PutEntities(r) ==
  Finish(r, "putEntities", AddEntities(engine, request[r].entities))

DropEntities(r) ==
  Finish(r, "dropEntities", RemoveEntities(engine, request[r].entities))

PutEdges(r) ==
  Finish(r, "putEdges", AddEdges(engine, request[r].edges))

ReplaceEdges(r) ==
  \E e \in request[r].edges :
    Finish(r, "replaceEdges", AddEdges(RemoveEdge(engine, e), {e}))

DropEdges(r) ==
  \E e \in request[r].edges :
    Finish(r, "dropEdges", RemoveEdge(engine, e))

-----------------------------------------------------------------------------
(* get_graph. *)

\* A request for the graph of a hydrated engine changes nothing.
GetGraph(r) ==
  /\ Begin(r, Carry("listEntities", {}, {}))
  /\ ~ engine.hydrated
  /\ UNCHANGED <<database, engine, strays>>

\* Mutant: the engine is not cleared.
RefreshInPlace(r) ==
  /\ request[r].pc = "idle"
  /\ request' = [request EXCEPT ![r] = Carry("listEntities", {}, {})]
  /\ alone' = IF \A q \in Requests : request[q] = Idle THEN {r} ELSE {}
  /\ UNCHANGED <<database, engine, strays>>

\* refresh=true clears the engine at once.
Refresh(r) ==
  /\ request[r].pc = "idle"
  /\ request' = [request EXCEPT ![r] = Carry("listEntities", {}, {})]
  /\ alone' = IF \A q \in Requests : request[q] = Idle THEN {r} ELSE {}
  /\ engine' = EmptyGraph
  /\ UNCHANGED <<database, strays>>

ListEntities(r) ==
  /\ Becomes(r, "listEntities", Carry("listEdges", StoredEntities, {}))
  /\ UNCHANGED <<database, engine, strays>>

ListEdges(r) ==
  /\ Becomes(r, "listEdges", Carry("merge", request[r].entities, StoredEdges))
  /\ UNCHANGED <<database, engine, strays>>

\* Mutant: the edges are added first.
MergeEdgesFirst(r) ==
  LET edges == AddEdges(engine, request[r].edges \ engine.edges)
  IN  Finish(r, "merge",
             [AddEntities(edges, request[r].entities) EXCEPT !.hydrated = TRUE])

\* Mutant: the engine is replaced by what the queries returned.
MergeReplaces(r) ==
  LET nodes == AddEntities(EmptyGraph, request[r].entities)
  IN  Finish(r, "merge", [AddEdges(nodes, request[r].edges) EXCEPT !.hydrated = TRUE])

\* What the engine lacks is added, without an await in between.
Merge(r) ==
  LET nodes == AddEntities(engine, request[r].entities)
  IN  Finish(r, "merge", [AddEdges(nodes, request[r].edges \ engine.edges)
                            EXCEPT !.hydrated = TRUE])

-----------------------------------------------------------------------------
(* What the process does not see. *)

Stray ==
  /\ strays < MaxStrays
  /\ strays' = strays + 1
  /\ alone' = {}

WorkerSavesEntity(x) ==
  /\ Stray /\ entity[x] = "absent"
  /\ SaveEntity(x)
  /\ UNCHANGED <<engine, request>>

WorkerSavesEdge(e) ==
  /\ Stray /\ edge[e] = "absent"
  /\ SaveEdge(e)
  /\ UNCHANGED <<engine, request>>

\* A query fails: the request ends, the engine stays as it is by then.
HydrationFails(r) ==
  /\ Stray
  /\ request[r].pc \in {"listEntities", "listEdges"}
  /\ request' = [request EXCEPT ![r] = Idle]
  /\ UNCHANGED <<database, engine>>

\* The process is started again: its engines are gone.
Restart ==
  /\ engine' = EmptyGraph
  /\ request' = [r \in Requests |-> Idle]
  /\ alone' = {}
  /\ UNCHANGED <<database, strays>>

-----------------------------------------------------------------------------
(* The specification. *)

Ask(r) ==
  \/ \E x \in Entities : CreateEntity(r, x) \/ UpdateEntity(r, x)
  \/ \E S \in SUBSET Entities : DeleteEntities(r, S)
  \/ \E e \in Edges : CreateEdge(r, e) \/ UpdateEdge(r, e) \/ DeleteEdge(r, e)
  \/ GetGraph(r) \/ Refresh(r)

Proceed(r) ==
  \/ PutEntities(r) \/ DropEntities(r)
  \/ PutEdges(r) \/ ReplaceEdges(r) \/ DropEdges(r)
  \/ ListEntities(r) \/ ListEdges(r) \/ Merge(r)

Next ==
  \/ \E r \in Requests : Ask(r) \/ Proceed(r) \/ HydrationFails(r)
  \/ \E x \in Entities : WorkerSavesEntity(x)
  \/ \E e \in Edges : WorkerSavesEdge(e)
  \/ Restart

Spec == Init /\ [][Next]_vars

-----------------------------------------------------------------------------
(* Properties. *)

\* Whatever overlaps, the indexes of the engine agree with its edges.
EngineConsistent == Consistent(engine)

Quiet == \A r \in Requests : request[r] = Idle

\* When nothing is under way, a hydrated engine has every stored entity, unless
\* a write was out of band or a hydration failed: hydrations and refreshes that
\* overlap lose no entity saved meanwhile.
EntitiesComplete ==
  Quiet /\ engine.hydrated /\ strays = 0 => StoredEntities \subseteq engine.entities

Hydrating(r) == request[r].pc \in {"listEntities", "listEdges", "merge"}

\* The engine has entity x, or some request will add it.
Provided(x) ==
  \/ x \in engine.entities
  \/ \E r \in Requests : request[r].pc = "listEntities"
  \/ \E r \in Requests : /\ request[r].pc \in {"putEntities", "listEdges", "merge"}
                         /\ x \in request[r].entities

\* Why EntitiesComplete holds: as long as the engine is hydrated or is going to be,
\* every stored entity is provided, and only deleted entities are dropped.
CompleteInv ==
  /\ strays = 0 /\ (engine.hydrated \/ \E r \in Requests : Hydrating(r))
     => \A x \in StoredEntities : Provided(x)
  /\ \A r \in Requests : request[r].pc = "dropEntities"
       => \A x \in request[r].entities : entity[x] = "deleted"

\* A refresh that nothing overlaps leaves the engine with what is stored,
\* whatever it held before.
RefreshRepairs ==
  [][\A r \in alone \cap alone' : request[r].pc = "merge" /\ request'[r] = Idle
       => /\ engine'.entities = StoredEntities
          /\ engine'.edges = StoredEdges]_vars

\* Why RefreshRepairs holds: what a refresh has read is still what is stored, and
\* the engine is still empty, as long as nothing has overlapped it.
RefreshInv ==
  \A r \in alone :
    /\ Hydrating(r) => engine.entities = {} /\ engine.edges = {}
    /\ request[r].pc \in {"listEdges", "merge"} => request[r].entities = StoredEntities
    /\ request[r].pc = "merge" => request[r].edges = StoredEdges
=============================================================================
