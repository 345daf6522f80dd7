-------------------------- MODULE GraphCacheProofs --------------------------
(***************************************************************************)
(* Theorems about GraphEngine and GraphCache.  First, every operation of   *)
(* the engine preserves the agreement of its indexes with its edges; then  *)
(* the invariants of the cache, for any number of requests and any graph.  *)
(***************************************************************************)
EXTENDS GraphCache, TLAPS

-----------------------------------------------------------------------------
(* The operations of the engine. *)

\* The empty graph is a consistent graph.
LEMMA EmptyGraphConsistent == EmptyGraph \in GraphType /\ Consistent(EmptyGraph)
  BY DEF EmptyGraph, GraphType, Consistent, EdgesAt, NeighborsOf

\* The ends of an edge are two entities.
LEMMA TwoEnds ==
  ASSUME NEW e \in Edges
  PROVE  /\ Source[e] \in Entities /\ Target[e] \in Entities
         /\ Source[e] # Target[e]
         /\ Ends(e) \subseteq Entities
  BY EndsAssumption DEF Ends

LEMMA AddEntitiesConsistent ==
  ASSUME NEW g \in GraphType, Consistent(g), NEW S \in SUBSET Entities
  PROVE  AddEntities(g, S) \in GraphType /\ Consistent(AddEntities(g, S))
  BY DEF GraphType, AddEntities, Consistent, EdgesAt, NeighborsOf

LEMMA AddEdgesConsistent ==
  ASSUME NEW g \in GraphType, Consistent(g), NEW S \in SUBSET Edges
  PROVE  AddEdges(g, S) \in GraphType /\ Consistent(AddEdges(g, S))
<1> DEFINE new == Accepted(g, S)
           h == AddEdges(g, S)
<1>1. new \subseteq S /\ new \subseteq Edges
  BY DEF Accepted
<1>2. h \in GraphType
  BY <1>1 DEF GraphType, AddEdges
<1>3. /\ h.entities = g.entities
      /\ h.edges = g.edges \cup new
      /\ h.adjacency = [x \in Entities |->
            g.adjacency[x] \cup {e \in new : x \in Ends(e)}]
      /\ h.neighbors = [x \in Entities |->
            g.neighbors[x] \cup {y \in Entities :
                                   \E e \in new : x # y /\ Ends(e) = {x, y}}]
  BY DEF GraphType, AddEdges
<1>4. \A e \in h.edges : Ends(e) \subseteq h.entities
  BY <1>3 DEF Accepted, Consistent
<1>5. \A x \in Entities : h.adjacency[x] = EdgesAt(h, x)
  BY <1>3 DEF Consistent, EdgesAt
<1>6. ASSUME NEW x \in Entities
      PROVE  h.neighbors[x] = NeighborsOf(h, x)
  <2>1. g.neighbors[x] = NeighborsOf(g, x)
    BY DEF Consistent
  <2>2. h.neighbors[x] = g.neighbors[x] \cup
          {y \in Entities : \E e \in new : x # y /\ Ends(e) = {x, y}}
    BY <1>3
  <2> QED
    BY <1>3, <2>1, <2>2 DEF NeighborsOf
<1> QED
  BY <1>2, <1>4, <1>5, <1>6 DEF Consistent

\* The ends of a removed edge stay neighbours exactly if another edge joins them,
\* in whichever direction.
LEMMA RemoveEdgeConsistent ==
  ASSUME NEW g \in GraphType, Consistent(g), NEW e \in Edges
  PROVE  RemoveEdge(g, e) \in GraphType /\ Consistent(RemoveEdge(g, e))
<1>1. CASE e \notin g.edges
  BY <1>1 DEF RemoveEdge
<1>2. CASE e \in g.edges
  <2> DEFINE s == Source[e]
             t == Target[e]
             left == [g.adjacency EXCEPT ![s] = @ \ {e},
                                         ![t] = g.adjacency[t] \ {e}]
             connected == \E f \in left[s] :
                            f \in g.edges \ {e} /\ Touches(f, t)
             fewer == [g.neighbors EXCEPT ![s] = g.neighbors[s] \ {t},
                                          ![t] = g.neighbors[t] \ {s}]
             h == RemoveEdge(g, e)
  <2>1. s \in Entities /\ t \in Entities /\ s # t
    BY TwoEnds
  <2>2. /\ g.adjacency \in [Entities -> SUBSET Edges]
        /\ g.neighbors \in [Entities -> SUBSET Entities]
        /\ g.edges \subseteq Edges /\ g.entities \subseteq Entities
    BY DEF GraphType
  <2>3. /\ left \in [Entities -> SUBSET Edges]
        /\ \A x \in Entities : left[x] = EdgesAt(g, x) \ {e}
    BY <2>1, <2>2 DEF Consistent, EdgesAt, Ends
  <2>4. /\ fewer \in [Entities -> SUBSET Entities]
        /\ fewer[s] = g.neighbors[s] \ {t}
        /\ fewer[t] = g.neighbors[t] \ {s}
        /\ \A x \in Entities \ {s, t} : fewer[x] = g.neighbors[x]
    BY <2>1, <2>2
  <2>5. h = [g EXCEPT !.edges = @ \ {e}, !.adjacency = left,
                      !.neighbors = IF connected THEN @ ELSE fewer]
    BY <1>2 DEF RemoveEdge
  <2>6. /\ h.entities = g.entities /\ h.edges = g.edges \ {e}
        /\ h.adjacency = left
        /\ h.neighbors = IF connected THEN g.neighbors ELSE fewer
    <3> HIDE DEF left, connected, fewer, h
    <3> QED BY <2>5 DEF GraphType
  <2>7. h \in GraphType
    <3> HIDE DEF left, connected, fewer, h
    <3> QED BY <2>3, <2>4, <2>5 DEF GraphType
  <2>8. \A f \in h.edges : Ends(f) \subseteq h.entities
    <3> HIDE DEF h
    <3> QED BY <2>6 DEF Consistent
  <2>9. \A x \in Entities : h.adjacency[x] = EdgesAt(h, x)
    <3> HIDE DEF h, left
    <3> QED BY <2>3, <2>6 DEF EdgesAt
  <2>10. connected <=> \E f \in g.edges \ {e} : Ends(f) = {s, t}
    <3>1. ASSUME NEW f \in left[s], f \in g.edges \ {e}, Touches(f, t)
          PROVE  Ends(f) = {s, t}
      BY <3>1, <2>1, <2>3 DEF Touches, EdgesAt, Ends
    <3>2. ASSUME NEW f \in g.edges \ {e}, Ends(f) = {s, t}
          PROVE  f \in left[s] /\ Touches(f, t)
      BY <3>2, <2>1, <2>3 DEF Touches, EdgesAt, Ends
    <3> QED
      BY <3>1, <3>2
  <2>11. ASSUME NEW x \in Entities
         PROVE  h.neighbors[x] = NeighborsOf(h, x)
    <3>1. g.neighbors[x] = NeighborsOf(g, x)
      BY DEF Consistent
    <3>2. Ends(e) = {s, t}
      BY DEF Ends
    <3>3. CASE connected
      <4>1. h.neighbors[x] = g.neighbors[x] /\ h.edges = g.edges \ {e}
        BY <2>6, <3>3
      <4>2. PICK f \in g.edges \ {e} : Ends(f) = {s, t}
        BY <2>10, <3>3
      <4> HIDE DEF h, s, t, connected
      <4> QED
        BY <3>1, <3>2, <4>1, <4>2 DEF NeighborsOf
    <3>4. CASE ~ connected
      <4>1. h.neighbors[x] = fewer[x] /\ h.edges = g.edges \ {e}
        BY <2>6, <3>4
      <4>2. \A f \in g.edges \ {e} : Ends(f) # {s, t}
        BY <2>10, <3>4
      <4> HIDE DEF h, s, t, connected, fewer
      <4>3. CASE x = s
        BY <2>1, <2>4, <3>1, <3>2, <4>1, <4>2, <4>3 DEF NeighborsOf
      <4>4. CASE x = t
        BY <2>1, <2>4, <3>1, <3>2, <4>1, <4>2, <4>4 DEF NeighborsOf
      <4>5. CASE x \notin {s, t}
        BY <2>1, <2>4, <3>1, <3>2, <4>1, <4>2, <4>5 DEF NeighborsOf
      <4> QED
        BY <4>3, <4>4, <4>5
    <3> QED
      BY <3>3, <3>4
  <2>12. Consistent(h)
    <3> HIDE DEF h
    <3> QED BY <2>8, <2>9, <2>11 DEF Consistent
  <2> QED
    BY <2>7, <2>12
<1> QED
  BY <1>1, <1>2

LEMMA RemoveEntitiesConsistent ==
  ASSUME NEW g \in GraphType, Consistent(g), NEW S \in SUBSET Entities
  PROVE  RemoveEntities(g, S) \in GraphType /\ Consistent(RemoveEntities(g, S))
<1> DEFINE known == S \cap g.entities
           gone == UNION {g.adjacency[x] : x \in known}
           h == RemoveEntities(g, S)
<1>1. /\ h \in GraphType
      /\ h.entities = g.entities \ known /\ h.edges = g.edges \ gone
      /\ h.adjacency = [x \in Entities |->
           IF x \in known THEN {} ELSE g.adjacency[x] \ gone]
      /\ h.neighbors = [x \in Entities |->
           IF x \in known THEN {} ELSE g.neighbors[x] \ known]
  BY DEF GraphType, RemoveEntities
<1>2. \A f \in g.edges : f \in gone <=> Ends(f) \cap known # {}
  <2>1. known \subseteq Entities /\ g.edges \subseteq Edges
    BY DEF GraphType
  <2>2. \A x \in known : g.adjacency[x] = EdgesAt(g, x)
    BY <2>1 DEF Consistent
  <2> QED
    BY <2>1, <2>2 DEF EdgesAt
<1> HIDE DEF gone, h
<1>3. \A f \in h.edges : Ends(f) \subseteq h.entities
  BY <1>1, <1>2 DEF Consistent
<1>4. \A x \in Entities : h.adjacency[x] = EdgesAt(h, x)
  BY <1>1, <1>2 DEF Consistent, EdgesAt
<1>5. ASSUME NEW x \in Entities
      PROVE  h.neighbors[x] = NeighborsOf(h, x)
  <2>1. g.neighbors[x] = NeighborsOf(g, x)
    BY DEF Consistent
  <2>2. ASSUME NEW y \in Entities, NEW f \in g.edges, Ends(f) = {x, y}
        PROVE  f \in gone <=> (x \in known \/ y \in known)
    BY <1>2, <2>2
  <2> HIDE DEF known
  <2>3. CASE x \in known
    BY <1>1, <2>2, <2>3 DEF NeighborsOf
  <2>4. CASE x \notin known
    BY <1>1, <2>1, <2>2, <2>4 DEF NeighborsOf
  <2> QED
    BY <2>3, <2>4
<1>6. Consistent(h)
  BY <1>3, <1>4, <1>5 DEF Consistent
<1> QED
  BY <1>1, <1>6 DEF h

-----------------------------------------------------------------------------
(* Types, and the agreement of the indexes. *)

Inv == TypeOK /\ EngineConsistent

\* The types of the rows.
RowsOK ==
  /\ entity \in [Entities -> RowStatuses]
  /\ edge \in [Edges -> RowStatuses]
  /\ \A e \in StoredEdges : Ends(e) \subseteq StoredEntities

\* The types of the requests.
RequestsOK == request \in [Requests -> RequestType] /\ alone \subseteq Requests

LEMMA SaveEntityRows ==
  ASSUME RowsOK, NEW x \in Entities, SaveEntity(x)
  PROVE  RowsOK'
  BY DEF RowsOK, SaveEntity, StoredEdges, StoredEntities, RowStatuses

LEMMA SaveEdgeRows ==
  ASSUME RowsOK, NEW e \in Edges, SaveEdge(e)
  PROVE  RowsOK'
  BY DEF RowsOK, SaveEdge, StoredEdges, StoredEntities, RowStatuses

\* Only edges without a deleted end stay.
LEMMA DeleteRowsRows ==
  ASSUME RowsOK, NEW S \in SUBSET Entities, DeleteRows(S)
  PROVE  RowsOK'
<1>1. entity' \in [Entities -> RowStatuses] /\ edge' \in [Edges -> RowStatuses]
  BY DEF RowsOK, DeleteRows, RowStatuses
<1>2. ASSUME NEW e \in Edges, edge'[e] = "present"
      PROVE  Ends(e) \subseteq {x \in Entities : entity'[x] = "present"}
  <2>1. e \in StoredEdges /\ Ends(e) \cap S = {}
    BY <1>2 DEF RowsOK, DeleteRows, StoredEdges
  <2>2. Ends(e) \subseteq StoredEntities
    BY <2>1 DEF RowsOK
  <2> QED
    BY <2>1, <2>2 DEF DeleteRows, StoredEntities
<1> QED
  BY <1>1, <1>2 DEF RowsOK, StoredEdges, StoredEntities

LEMMA DeleteEdgeRows ==
  ASSUME RowsOK, NEW r, NEW e \in Edges, DeleteEdge(r, e)
  PROVE  RowsOK'
  BY DEF RowsOK, DeleteEdge, StoredEdges, StoredEntities, RowStatuses

LEMMA RowsUnchanged ==
  ASSUME RowsOK, UNCHANGED database
  PROVE  RowsOK'
  BY DEF RowsOK, database, StoredEdges, StoredEntities

LEMMA RequestChange ==
  ASSUME RequestsOK, NEW r \in Requests, NEW pc \in Steps,
         NEW S \in SUBSET Entities, NEW T \in SUBSET Edges,
         request' = [request EXCEPT ![r] = Carry(pc, S, T)],
         alone' \subseteq alone \cup {r}
  PROVE  RequestsOK'
  BY DEF RequestsOK, RequestType, Carry

LEMMA IdleIsCarry == Idle = Carry("idle", {}, {}) /\ "idle" \in Steps
  BY DEF Idle, Carry, Steps

\* The last step of a request.
LEMMA FinishRequests ==
  ASSUME RequestsOK, NEW r \in Requests, NEW pc, NEW graph, Finish(r, pc, graph)
  PROVE  RequestsOK'
<1>1. /\ request' = [request EXCEPT ![r] = Carry("idle", {}, {})]
      /\ alone' \subseteq alone \cup {r}
  BY IdleIsCarry DEF Finish, Becomes
<1>2. /\ "idle" \in Steps
      /\ {} \in SUBSET Entities /\ {} \in SUBSET Edges
  BY IdleIsCarry
<1> QED
  BY <1>1, <1>2, RequestChange

LEMMA RequestTyped ==
  ASSUME RequestsOK, NEW r \in Requests
  PROVE  request[r].entities \in SUBSET Entities /\ request[r].edges \in SUBSET Edges
  BY DEF RequestsOK, RequestType

LEMMA StoredTyped ==
  StoredEntities \in SUBSET Entities /\ StoredEdges \in SUBSET Edges
  BY DEF StoredEntities, StoredEdges

\* The engine is a consistent graph.
EngineOK == engine \in GraphType /\ Consistent(engine)

\* What a request writes to the engine is a consistent graph again.
LEMMA WritesConsistent ==
  ASSUME RequestsOK, EngineOK, NEW r \in Requests,
         \/ PutEntities(r) \/ DropEntities(r) \/ PutEdges(r)
         \/ ReplaceEdges(r) \/ DropEdges(r) \/ Merge(r)
  PROVE  RequestsOK' /\ EngineOK'
<1> USE RequestTyped
<1>1. CASE PutEntities(r)
  BY <1>1, FinishRequests, AddEntitiesConsistent DEF PutEntities, Finish, EngineOK
<1>2. CASE DropEntities(r)
  BY <1>2, FinishRequests, RemoveEntitiesConsistent DEF DropEntities, Finish, EngineOK
<1>3. CASE PutEdges(r)
  BY <1>3, FinishRequests, AddEdgesConsistent DEF PutEdges, Finish, EngineOK
<1>4. CASE ReplaceEdges(r)
  <2>1. PICK e \in request[r].edges :
          Finish(r, "replaceEdges", AddEdges(RemoveEdge(engine, e), {e}))
    BY <1>4 DEF ReplaceEdges
  <2>2. e \in Edges /\ {e} \in SUBSET Edges
    OBVIOUS
  <2>3. RemoveEdge(engine, e) \in GraphType /\ Consistent(RemoveEdge(engine, e))
    BY <2>2, RemoveEdgeConsistent DEF EngineOK
  <2> QED
    BY <2>1, <2>2, <2>3, FinishRequests, AddEdgesConsistent DEF Finish, EngineOK
<1>5. CASE DropEdges(r)
  <2>1. PICK e \in request[r].edges : Finish(r, "dropEdges", RemoveEdge(engine, e))
    BY <1>5 DEF DropEdges
  <2>2. e \in Edges
    OBVIOUS
  <2> QED
    BY <2>1, <2>2, FinishRequests, RemoveEdgeConsistent DEF Finish, EngineOK
<1>6. CASE Merge(r)
  <2> DEFINE nodes == AddEntities(engine, request[r].entities)
             graph == AddEdges(nodes, request[r].edges \ engine.edges)
  <2>1. nodes \in GraphType /\ Consistent(nodes)
    BY AddEntitiesConsistent DEF EngineOK
  <2>2. graph \in GraphType /\ Consistent(graph)
    <3> HIDE DEF nodes
    <3> QED BY <2>1, AddEdgesConsistent
  <2>3. Finish(r, "merge", [graph EXCEPT !.hydrated = TRUE])
    BY <1>6 DEF Merge
  <2> HIDE DEF graph
  <2>4. EngineOK'
    BY <2>2, <2>3 DEF Finish, EngineOK, GraphType, Consistent, EdgesAt, NeighborsOf
  <2> QED
    BY <2>3, <2>4, FinishRequests
<1> QED
  BY <1>1, <1>2, <1>3, <1>4, <1>5, <1>6

\* The invariant, in the parts the lemmas are about.
LEMMA InvParts ==
  Inv <=> RowsOK /\ RequestsOK /\ EngineOK /\ strays \in 0 .. MaxStrays
  BY DEF Inv, TypeOK, EngineConsistent, RowsOK, RequestsOK, EngineOK

LEMMA InvPartsNext ==
  RowsOK' /\ RequestsOK' /\ EngineOK' /\ strays' \in 0 .. MaxStrays => Inv'
  BY DEF Inv, TypeOK, EngineConsistent, RowsOK, RequestsOK, EngineOK

LEMMA InvInit == Init => Inv
  BY EmptyGraphConsistent, StraysAssumption
  DEF Init, Inv, TypeOK, EngineConsistent, RowStatuses, RequestType, Idle, Steps,
      StoredEdges, StoredEntities

LEMMA BeginRequests ==
  ASSUME RequestsOK, NEW r \in Requests, NEW pc \in Steps,
         NEW S \in SUBSET Entities, NEW T \in SUBSET Edges,
         \/ Begin(r, Carry(pc, S, T))
         \/ \E from : Becomes(r, from, Carry(pc, S, T))
  PROVE  RequestsOK'
<1>1. /\ request' = [request EXCEPT ![r] = Carry(pc, S, T)]
      /\ alone' \subseteq alone \cup {r}
  BY DEF Begin, Becomes
<1> QED
  BY <1>1, RequestChange

\* What users ask for.
LEMMA AskKeepsInv ==
  ASSUME Inv, NEW r \in Requests, Ask(r)
  PROVE  Inv'
<1> USE InvParts, InvPartsNext
<1>0. UNCHANGED engine => EngineOK'
  BY DEF EngineOK, Consistent, EdgesAt, NeighborsOf
<1>1. CASE \E x \in Entities : CreateEntity(r, x) \/ UpdateEntity(r, x)
  <2>1. PICK x \in Entities : CreateEntity(r, x) \/ UpdateEntity(r, x)
    BY <1>1
  <2>2. Begin(r, Carry("putEntities", {x}, {}))
    BY <2>1 DEF CreateEntity, UpdateEntity
  <2>3. RequestsOK'
    BY <2>2, BeginRequests DEF Steps
  <2>4. RowsOK'
    BY <2>1, SaveEntityRows, RowsUnchanged DEF CreateEntity, UpdateEntity
  <2> QED
    BY <2>1, <2>3, <2>4, <1>0 DEF CreateEntity, UpdateEntity
<1>2. CASE \E S \in SUBSET Entities : DeleteEntities(r, S)
  <2>1. PICK S \in SUBSET Entities : DeleteEntities(r, S)
    BY <1>2
  <2>2. RequestsOK'
    BY <2>1, BeginRequests DEF DeleteEntities, Steps
  <2>3. RowsOK'
    BY <2>1, DeleteRowsRows DEF DeleteEntities
  <2> QED
    BY <2>1, <2>2, <2>3, <1>0 DEF DeleteEntities
<1>3. CASE \E e \in Edges : CreateEdge(r, e) \/ UpdateEdge(r, e) \/ DeleteEdge(r, e)
  <2>1. PICK e \in Edges : CreateEdge(r, e) \/ UpdateEdge(r, e) \/ DeleteEdge(r, e)
    BY <1>3
  <2>2. \E pc \in Steps : Begin(r, Carry(pc, {}, {e}))
    BY <2>1 DEF CreateEdge, UpdateEdge, DeleteEdge, Steps
  <2>3. RequestsOK'
    BY <2>2, BeginRequests
  <2>4. RowsOK'
    BY <2>1, SaveEdgeRows, DeleteEdgeRows, RowsUnchanged DEF CreateEdge, UpdateEdge
  <2> QED
    BY <2>1, <2>3, <2>4, <1>0 DEF CreateEdge, UpdateEdge, DeleteEdge
<1>4. CASE GetGraph(r)
  <2>1. RequestsOK'
    BY <1>4, BeginRequests DEF GetGraph, Steps
  <2> QED
    BY <1>4, <2>1, <1>0, RowsUnchanged DEF GetGraph
<1>5. CASE Refresh(r)
  <2>1. /\ request' = [request EXCEPT ![r] = Carry("listEntities", {}, {})]
        /\ alone' \subseteq alone \cup {r}
    BY <1>5 DEF Refresh
  <2>3. "listEntities" \in Steps /\ {} \in SUBSET Entities /\ {} \in SUBSET Edges
    BY DEF Steps
  <2>4. RequestsOK'
    BY <2>1, <2>3, RequestChange
  <2>2. EngineOK'
    BY <1>5, EmptyGraphConsistent
    DEF Refresh, EngineOK, Consistent, EdgesAt, NeighborsOf
  <2> QED
    BY <1>5, <2>2, <2>4, RowsUnchanged DEF Refresh
<1> QED
  BY <1>1, <1>2, <1>3, <1>4, <1>5 DEF Ask

\* What requests go on with.
LEMMA ProceedKeepsInv ==
  ASSUME Inv, NEW r \in Requests, Proceed(r)
  PROVE  Inv'
<1> USE InvParts, InvPartsNext
<1>1. CASE ListEntities(r)
  <2>1. RequestsOK'
    BY <1>1, BeginRequests, StoredTyped DEF ListEntities, Steps
  <2> QED
    BY <1>1, <2>1, RowsUnchanged
    DEF ListEntities, EngineOK, Consistent, EdgesAt, NeighborsOf
<1>2. CASE ListEdges(r)
  <2>1. RequestsOK'
    BY <1>2, BeginRequests, StoredTyped, RequestTyped DEF ListEdges, Steps
  <2> QED
    BY <1>2, <2>1, RowsUnchanged
    DEF ListEdges, EngineOK, Consistent, EdgesAt, NeighborsOf
<1>3. CASE \/ PutEntities(r) \/ DropEntities(r) \/ PutEdges(r)
           \/ ReplaceEdges(r) \/ DropEdges(r) \/ Merge(r)
  <2>1. RequestsOK' /\ EngineOK'
    BY <1>3, WritesConsistent
  <2>2. UNCHANGED <<database, strays>>
    BY <1>3 DEF PutEntities, DropEntities, PutEdges, ReplaceEdges, DropEdges, Merge,
                Finish
  <2> QED
    BY <2>1, <2>2, RowsUnchanged
<1> QED
  BY <1>1, <1>2, <1>3 DEF Proceed

\* What the process does not see, and its restart.
LEMMA StrayKeepsInv ==
  ASSUME Inv,
         \/ \E x \in Entities : WorkerSavesEntity(x)
         \/ \E e \in Edges : WorkerSavesEdge(e)
         \/ \E r \in Requests : HydrationFails(r)
         \/ Restart
  PROVE  Inv'
<1> USE InvParts, InvPartsNext
<1>0. UNCHANGED engine => EngineOK'
  BY DEF EngineOK, Consistent, EdgesAt, NeighborsOf
<1>1. Stray => strays' \in 0 .. MaxStrays /\ alone' = {}
  BY StraysAssumption DEF Stray
<1>2. UNCHANGED request /\ alone' = {} => RequestsOK'
  BY DEF RequestsOK
<1>3. CASE \E x \in Entities : WorkerSavesEntity(x)
  BY <1>3, <1>0, <1>1, <1>2, SaveEntityRows DEF WorkerSavesEntity
<1>4. CASE \E e \in Edges : WorkerSavesEdge(e)
  BY <1>4, <1>0, <1>1, <1>2, SaveEdgeRows DEF WorkerSavesEdge
<1>5. CASE \E r \in Requests : HydrationFails(r)
  <2>1. PICK r \in Requests : HydrationFails(r)
    BY <1>5
  <2>2. RequestsOK'
    BY <2>1, <1>1, RequestChange, IdleIsCarry DEF HydrationFails
  <2> QED
    BY <2>1, <2>2, <1>0, <1>1, RowsUnchanged DEF HydrationFails
<1>6. CASE Restart
  <2>1. RequestsOK'
    BY <1>6, IdleIsCarry DEF Restart, RequestsOK, RequestType, Carry
  <2>2. EngineOK'
    BY <1>6, EmptyGraphConsistent
    DEF Restart, EngineOK, Consistent, EdgesAt, NeighborsOf
  <2> QED
    BY <1>6, <2>1, <2>2, RowsUnchanged DEF Restart
<1> QED
  BY <1>3, <1>4, <1>5, <1>6

LEMMA InvNext == Inv /\ [Next]_vars => Inv'
<1> SUFFICES ASSUME Inv, [Next]_vars PROVE Inv'
  OBVIOUS
<1>1. CASE UNCHANGED vars
  BY <1>1 DEF vars, Inv, TypeOK, EngineConsistent, StoredEdges, StoredEntities,
              Consistent, EdgesAt, NeighborsOf
<1>2. CASE Next
  BY <1>2, AskKeepsInv, ProceedKeepsInv, StrayKeepsInv DEF Next
<1> QED
  BY <1>1, <1>2

\* Every reachable state is well typed, and a stored edge has stored ends.
THEOREM TypesOfCache == Spec => []TypeOK
<1>1. Inv => TypeOK
  BY DEF Inv
<1> QED
  BY <1>1, InvInit, InvNext, PTL DEF Spec

\* However requests overlap, fail or are cut off by a restart, and whatever other
\* processes write: the adjacency and neighbour indexes of the engine agree with
\* its edges, and its edges join entities it has.
THEOREM IndexesAgree == Spec => []EngineConsistent
<1>1. Inv => EngineConsistent
  BY DEF Inv
<1> QED
  BY <1>1, InvInit, InvNext, PTL DEF Spec

-----------------------------------------------------------------------------
(* Refreshing. *)

\* Every operation that takes part in someone else's refresh ends its solitude.
LEMMA RefreshInvNext == Inv /\ RefreshInv /\ [Next]_vars => RefreshInv'
<1> SUFFICES ASSUME Inv, RefreshInv, [Next]_vars, NEW r \in alone'
             PROVE  /\ Hydrating(r)' => engine'.entities = {} /\ engine'.edges = {}
                    /\ request'[r].pc \in {"listEdges", "merge"}
                       => request'[r].entities = StoredEntities'
                    /\ request'[r].pc = "merge" => request'[r].edges = StoredEdges'
  BY DEF RefreshInv
<1>1. /\ request \in [Requests -> RequestType] /\ alone \subseteq Requests
  BY DEF Inv, TypeOK
<1>2. CASE UNCHANGED vars
  BY <1>2 DEF vars, RefreshInv, Hydrating, StoredEntities, StoredEdges
<1>3. CASE \E q \in Requests : Ask(q)
  <2>1. PICK q \in Requests : Ask(q)
    BY <1>3
  <2>2. alone' = {} \/ Refresh(q)
    BY <2>1 DEF Ask, CreateEntity, UpdateEntity, DeleteEntities, CreateEdge,
                UpdateEdge, DeleteEdge, GetGraph, Begin
  <2>3. /\ Refresh(q) /\ r = q
    BY <2>2 DEF Refresh
  <2>4. request'[r].pc = "listEntities" /\ engine' = EmptyGraph
    BY <2>3, <1>1 DEF Refresh, Carry
  <2> QED
    BY <2>4 DEF EmptyGraph
<1>4. CASE \E q \in Requests : Proceed(q)
  <2>1. PICK q \in Requests : Proceed(q)
    BY <1>4
  <2>2. \E from, to : Becomes(q, from, to)
    BY <2>1 DEF Proceed, PutEntities, DropEntities, PutEdges, ReplaceEdges,
                DropEdges, Merge, Finish, ListEntities, ListEdges
  <2>3. r = q /\ r \in alone
    BY <2>2 DEF Becomes
  <2>4. CASE ListEntities(q)
    BY <2>3, <2>4, <1>1
    DEF ListEntities, Becomes, Carry, Hydrating, RefreshInv, database,
        StoredEntities, StoredEdges
  <2>5. CASE ListEdges(q)
    BY <2>3, <2>5, <1>1
    DEF ListEdges, Becomes, Carry, Hydrating, RefreshInv, database,
        StoredEntities, StoredEdges
  <2>6. CASE ~ ListEntities(q) /\ ~ ListEdges(q)
    <3>1. \E pc, graph : Finish(q, pc, graph)
      BY <2>1, <2>6 DEF Proceed, PutEntities, DropEntities, PutEdges, ReplaceEdges,
                        DropEdges, Merge
    <3>2. request'[r].pc = "idle"
      BY <3>1, <2>3, <1>1 DEF Finish, Becomes, Idle
    <3> QED
      BY <3>2 DEF Hydrating
  <2> QED
    BY <2>4, <2>5, <2>6
<1>5. CASE \/ \E q \in Requests : HydrationFails(q)
           \/ \E x \in Entities : WorkerSavesEntity(x)
           \/ \E e \in Edges : WorkerSavesEdge(e)
           \/ Restart
  BY <1>5 DEF HydrationFails, WorkerSavesEntity, WorkerSavesEdge, Stray, Restart
<1> QED
  BY <1>2, <1>3, <1>4, <1>5 DEF Next

\* The last step of a refresh adds what is stored to an empty engine; no edge is
\* refused, because the foreign keys leave no stored edge without its ends.
LEMMA RefreshStep ==
  ASSUME Inv, RefreshInv, Next, NEW r \in alone \cap alone',
         request[r].pc = "merge", request'[r] = Idle
  PROVE  engine'.entities = StoredEntities /\ engine'.edges = StoredEdges
<1>1. /\ request \in [Requests -> RequestType] /\ alone \subseteq Requests
      /\ engine \in GraphType
      /\ \A e \in StoredEdges : Ends(e) \subseteq StoredEntities
  BY DEF Inv, TypeOK
<1>2. Merge(r)
  <2>1. CASE \E q \in Requests : Ask(q)
    <3>1. PICK q \in Requests : Ask(q)
      BY <2>1
    <3>2. request[q].pc = "idle" /\ (alone' = {} \/ alone' = {q})
      BY <3>1 DEF Ask, CreateEntity, UpdateEntity, DeleteEntities, CreateEdge,
                  UpdateEdge, DeleteEdge, GetGraph, Begin, Refresh
    <3> QED
      BY <3>2
  <2>2. CASE \E q \in Requests : Proceed(q)
    <3>1. PICK q \in Requests : Proceed(q)
      BY <2>2
    <3>2. q = r
      BY <3>1 DEF Proceed, PutEntities, DropEntities, PutEdges, ReplaceEdges,
                  DropEdges, Merge, Finish, ListEntities, ListEdges, Becomes
    <3> QED
      BY <3>1, <3>2 DEF Proceed, PutEntities, DropEntities, PutEdges, ReplaceEdges,
                  DropEdges, Finish, ListEntities, ListEdges, Becomes
  <2>3. CASE \/ \E q \in Requests : HydrationFails(q)
             \/ \E x \in Entities : WorkerSavesEntity(x)
             \/ \E e \in Edges : WorkerSavesEdge(e)
             \/ Restart
    BY <2>3 DEF HydrationFails, WorkerSavesEntity, WorkerSavesEdge, Stray, Restart
  <2> QED
    BY <2>1, <2>2, <2>3 DEF Next
<1>3. /\ engine.entities = {} /\ engine.edges = {}
      /\ request[r].entities = StoredEntities /\ request[r].edges = StoredEdges
  BY DEF RefreshInv, Hydrating
<1> DEFINE nodes == AddEntities(engine, StoredEntities)
           graph == AddEdges(nodes, StoredEdges)
<1>4. /\ nodes \in GraphType
      /\ nodes.entities = StoredEntities /\ nodes.edges = {}
  <2>1. nodes \in GraphType
    BY <1>1, StoredTyped DEF AddEntities, GraphType
  <2>2. nodes.entities = engine.entities \cup StoredEntities /\ nodes.edges = engine.edges
    BY <1>1, StoredTyped DEF AddEntities, GraphType
  <2> QED
    BY <2>1, <2>2, <1>3
<1>5. engine' = [graph EXCEPT !.hydrated = TRUE]
  BY <1>2, <1>3 DEF Merge, Finish
<1> HIDE DEF nodes
<1>6. /\ graph.entities = StoredEntities
      /\ graph.edges = Accepted(nodes, StoredEdges)
      /\ graph \in [entities : SUBSET Entities, edges : SUBSET Edges,
                     adjacency : [Entities -> SUBSET Edges],
                     neighbors : [Entities -> SUBSET Entities], hydrated : BOOLEAN]
  <2>1. graph.entities = StoredEntities /\ graph.edges = Accepted(nodes, StoredEdges)
    BY <1>4, StoredTyped DEF AddEdges, GraphType
  <2>2. graph \in GraphType
    BY <1>4, StoredTyped DEF AddEdges, Accepted, GraphType
  <2> QED
    BY <2>1, <2>2 DEF GraphType
<1>7. Accepted(nodes, StoredEdges) = StoredEdges
  BY <1>1, <1>4 DEF Accepted
<1> HIDE DEF graph
<1> QED
  BY <1>5, <1>6, <1>7

\* A refresh that nothing overlaps makes the engine equal to the database, for any
\* number of requests and whatever the engine held before.
THEOREM RefreshIsExact == Spec => RefreshRepairs
<1>1. Init => RefreshInv
  BY DEF Init, RefreshInv
<1>2. Inv /\ RefreshInv /\ [Next]_vars =>
        [\A r \in alone \cap alone' : request[r].pc = "merge" /\ request'[r] = Idle
           => /\ engine'.entities = StoredEntities
              /\ engine'.edges = StoredEdges]_vars
  BY RefreshStep
<1> QED
  BY <1>1, <1>2, InvInit, InvNext, RefreshInvNext, PTL DEF Spec, RefreshRepairs

-----------------------------------------------------------------------------
(* Completeness. *)

\* What a write of a request does to the entities and the flag of the engine.
LEMMA WriteFields ==
  ASSUME Inv, NEW r \in Requests
  PROVE  /\ PutEntities(r) =>
              /\ engine'.entities = engine.entities \cup request[r].entities
              /\ engine'.hydrated = engine.hydrated
         /\ DropEntities(r) =>
              /\ engine'.entities = engine.entities \ request[r].entities
              /\ engine'.hydrated = engine.hydrated
         /\ PutEdges(r) \/ ReplaceEdges(r) \/ DropEdges(r) =>
              /\ engine'.entities = engine.entities
              /\ engine'.hydrated = engine.hydrated
         /\ Merge(r) =>
              engine'.entities = engine.entities \cup request[r].entities
<1>1. engine \in GraphType
  BY DEF Inv, TypeOK
<1>2. /\ request[r].entities \in SUBSET Entities
      /\ request[r].edges \in SUBSET Edges
  BY DEF Inv, TypeOK, RequestType
<1>3. ASSUME NEW g \in GraphType, NEW S \in SUBSET Edges
      PROVE  AddEdges(g, S).entities = g.entities /\ AddEdges(g, S).hydrated = g.hydrated
  BY DEF AddEdges, GraphType
<1>4. ASSUME NEW e \in Edges
      PROVE  /\ RemoveEdge(engine, e) \in GraphType
             /\ RemoveEdge(engine, e).entities = engine.entities
             /\ RemoveEdge(engine, e).hydrated = engine.hydrated
  <2>1. RemoveEdge(engine, e) \in GraphType
    BY <1>1, RemoveEdgeConsistent DEF Inv, EngineConsistent
  <2> QED
    BY <2>1, <1>1 DEF RemoveEdge, GraphType
<1>6. DropEntities(r) =>
              /\ engine'.entities = engine.entities \ request[r].entities
              /\ engine'.hydrated = engine.hydrated
  BY <1>1, <1>2 DEF DropEntities, Finish, RemoveEntities, GraphType
<1>7. PutEntities(r) =>
              /\ engine'.entities = engine.entities \cup request[r].entities
              /\ engine'.hydrated = engine.hydrated
  BY <1>1, <1>2 DEF PutEntities, Finish, AddEntities, GraphType
<1>8. ASSUME PutEdges(r) \/ ReplaceEdges(r) \/ DropEdges(r)
      PROVE  engine'.entities = engine.entities /\ engine'.hydrated = engine.hydrated
  <2>1. CASE PutEdges(r)
    BY <1>1, <1>2, <1>3, <2>1 DEF PutEdges, Finish
  <2>2. CASE ReplaceEdges(r)
    <3>1. PICK e \in request[r].edges :
            engine' = AddEdges(RemoveEdge(engine, e), {e})
      BY <2>2 DEF ReplaceEdges, Finish
    <3>2. e \in Edges /\ {e} \in SUBSET Edges
      BY <1>2
    <3> QED
      BY <3>1, <3>2, <1>3, <1>4
  <2>3. CASE DropEdges(r)
    BY <1>2, <1>4, <2>3 DEF DropEdges, Finish
  <2> QED
    BY <1>8, <2>1, <2>2, <2>3
<1>9. ASSUME Merge(r)
      PROVE  engine'.entities = engine.entities \cup request[r].entities
  <2> DEFINE nodes == AddEntities(engine, request[r].entities)
             graph == AddEdges(nodes, request[r].edges \ engine.edges)
  <2>1. /\ nodes \in GraphType
        /\ nodes.entities = engine.entities \cup request[r].entities
    BY <1>1, <1>2 DEF AddEntities, GraphType
  <2>2. engine' = [graph EXCEPT !.hydrated = TRUE]
    BY <1>9 DEF Merge, Finish
  <2> HIDE DEF nodes
  <2>3. graph \in GraphType /\ graph.entities = nodes.entities
    BY <1>2, <2>1 DEF AddEdges, Accepted, GraphType
  <2> HIDE DEF graph
  <2> QED
    BY <2>1, <2>2, <2>3 DEF GraphType
<1> QED
  BY <1>6, <1>7, <1>8, <1>9

\* Only deleted entities are dropped: a deleted row never comes back.
Dropped(r) ==
  request[r].pc = "dropEntities" => \A x \in request[r].entities : entity[x] = "deleted"

LEMMA DroppedStep ==
  ASSUME Inv, CompleteInv, [Next]_vars, NEW r \in Requests
  PROVE  Dropped(r)'
<1>1. /\ request \in [Requests -> RequestType]
      /\ entity \in [Entities -> RowStatuses]
      /\ Dropped(r)
  BY DEF Inv, TypeOK, CompleteInv, Dropped
<1>2. \A x \in Entities : entity[x] = "deleted" => entity'[x] = "deleted"
  <2>1. \/ UNCHANGED entity
        \/ \E x \in Entities : SaveEntity(x)
        \/ \E S \in SUBSET Entities : DeleteRows(S)
    BY DEF Next, vars, database, Ask, Proceed, CreateEntity, UpdateEntity,
           DeleteEntities, CreateEdge, UpdateEdge, DeleteEdge, GetGraph, Refresh,
           SaveEdge, PutEntities, DropEntities, PutEdges, ReplaceEdges, DropEdges,
           Finish, ListEntities, ListEdges, Merge, WorkerSavesEntity,
           WorkerSavesEdge, HydrationFails, Restart
  <2> QED
    BY <2>1, <1>1 DEF SaveEntity, DeleteRows
<1>3. CASE request'[r] = request[r]
  BY <1>1, <1>2, <1>3 DEF Dropped, RequestType
<1>4. CASE request'[r].pc # "dropEntities"
  BY <1>4 DEF Dropped
<1>5. CASE \E S \in SUBSET Entities : DeleteEntities(r, S)
  BY <1>1, <1>5 DEF DeleteEntities, Begin, Carry, DeleteRows, Dropped
<1>6. CASE \E q \in Requests : Ask(q)
  <2>1. PICK q \in Requests : Ask(q)
    BY <1>6
  <2>2. q # r => request'[r] = request[r]
    BY <2>1, <1>1 DEF Ask, CreateEntity, UpdateEntity, DeleteEntities, CreateEdge,
                      UpdateEdge, DeleteEdge, GetGraph, Refresh, Begin
  <2>3. q = r => \/ request'[r].pc # "dropEntities"
                 \/ \E S \in SUBSET Entities : DeleteEntities(r, S)
    BY <2>1, <1>1 DEF Ask, CreateEntity, UpdateEntity, CreateEdge, UpdateEdge,
                      DeleteEdge, GetGraph, Refresh, Begin, Carry
  <2> QED
    BY <2>2, <2>3, <1>3, <1>4, <1>5
<1>7. CASE \E q \in Requests : Proceed(q)
  <2>1. PICK q \in Requests : Proceed(q)
    BY <1>7
  <2>2. q # r => request'[r] = request[r]
    BY <2>1, <1>1 DEF Proceed, PutEntities, DropEntities, PutEdges, ReplaceEdges,
                      DropEdges, Merge, Finish, ListEntities, ListEdges, Becomes
  <2>3. CASE ListEntities(r) \/ ListEdges(r)
    <3>1. request'[r].pc \in {"listEdges", "merge"}
      BY <2>3, <1>1 DEF ListEntities, ListEdges, Becomes, Carry
    <3> QED
      BY <3>1, <1>4
  <2>4. CASE \E pc, graph : Finish(r, pc, graph)
    <3>1. request'[r].pc = "idle"
      BY <2>4, <1>1 DEF Finish, Becomes, Idle
    <3> QED
      BY <3>1, <1>4
  <2>5. q = r => \/ ListEntities(r) \/ ListEdges(r)
                 \/ \E pc, graph : Finish(r, pc, graph)
    BY <2>1 DEF Proceed, PutEntities, DropEntities, PutEdges, ReplaceEdges,
                DropEdges, Merge
  <2> QED
    BY <2>2, <2>3, <2>4, <2>5, <1>3
<1>8. CASE \/ \E q \in Requests : HydrationFails(q)
           \/ \E x \in Entities : WorkerSavesEntity(x)
           \/ \E e \in Edges : WorkerSavesEdge(e)
           \/ Restart \/ UNCHANGED vars
  <2>1. request'[r] = request[r] \/ request'[r].pc # "dropEntities"
    BY <1>8, <1>1 DEF HydrationFails, WorkerSavesEntity, WorkerSavesEdge, Restart,
                      vars, Idle
  <2> QED
    BY <2>1, <1>3, <1>4
<1> QED
  BY <1>6, <1>7, <1>8 DEF Next

Provides(r, x) ==
  \/ request[r].pc = "listEntities"
  \/ request[r].pc \in {"putEntities", "listEdges", "merge"} /\ x \in request[r].entities

Awake == engine.hydrated \/ \E r \in Requests : Hydrating(r)

\* A step of one request keeps an entity provided, if the engine keeps it and the
\* request has not lost it.
LEMMA ProvidedStep ==
  ASSUME Inv, NEW q \in Requests, NEW to, request' = [request EXCEPT ![q] = to],
         NEW x, Provided(x),
         x \in engine.entities => x \in engine'.entities,
         Provides(q, x) => Provides(q, x)' \/ x \in engine'.entities
  PROVE  Provided(x)'
<1>1. request \in [Requests -> RequestType]
  BY DEF Inv, TypeOK
<1>2. x \in engine.entities \/ \E r \in Requests : Provides(r, x)
  BY DEF Provided, Provides
<1>3. CASE \E r \in Requests : Provides(r, x)
  <2>1. PICK r \in Requests : Provides(r, x)
    BY <1>3
  <2>2. CASE r = q
    BY <2>1, <2>2 DEF Provided, Provides
  <2>3. CASE r # q
    <3>1. request'[r] = request[r]
      BY <2>3, <1>1
    <3> QED
      BY <3>1, <2>1 DEF Provided, Provides
  <2> QED
    BY <2>2, <2>3
<1> QED
  BY <1>2, <1>3 DEF Provided

\* A step of one request that ends in no hydration, or starts in one, wakes nothing.
LEMMA AwakeStep ==
  ASSUME Inv, NEW q \in Requests, NEW to, request' = [request EXCEPT ![q] = to],
         Awake',
         \/ Hydrating(q)
         \/ /\ engine'.hydrated = engine.hydrated
            /\ to.pc \notin {"listEntities", "listEdges", "merge"}
  PROVE  Awake
<1>1. request \in [Requests -> RequestType]
  BY DEF Inv, TypeOK
<1>2. CASE Hydrating(q)
  BY <1>2 DEF Awake
<1>3. CASE /\ engine'.hydrated = engine.hydrated
           /\ to.pc \notin {"listEntities", "listEdges", "merge"}
  <2>1. CASE engine'.hydrated
    BY <1>3, <2>1 DEF Awake
  <2>2. CASE \E r \in Requests : Hydrating(r)'
    <3>1. PICK r \in Requests : Hydrating(r)'
      BY <2>2
    <3>2. r # q
      BY <3>1, <1>1, <1>3 DEF Hydrating
    <3>3. request'[r] = request[r]
      BY <3>2, <1>1
    <3> QED
      BY <3>1, <3>3 DEF Hydrating, Awake
  <2> QED
    BY <2>1, <2>2 DEF Awake
<1> QED
  BY <1>2, <1>3

\* A request that begins: what it saves it will add, what it deletes is no longer
\* stored, and one that hydrates will read everything.
LEMMA AskProvides ==
  ASSUME Inv, NEW q \in Requests, Ask(q), Awake => \A x \in StoredEntities : Provided(x),
         Awake', NEW x \in StoredEntities'
  PROVE  Provided(x)'
<1>1. /\ request \in [Requests -> RequestType]
      /\ entity \in [Entities -> RowStatuses]
  BY DEF Inv, TypeOK
<1>2. request[q].pc = "idle"
  BY DEF Ask, CreateEntity, UpdateEntity, DeleteEntities, CreateEdge, UpdateEdge,
         DeleteEdge, GetGraph, Refresh, Begin
<1>3. CASE GetGraph(q) \/ Refresh(q)
  <2>1. request'[q].pc = "listEntities"
    BY <1>1, <1>3 DEF GetGraph, Refresh, Begin, Carry
  <2> QED
    BY <2>1 DEF Provided
<1>4. ASSUME NEW pc \in {"putEntities", "dropEntities", "putEdges", "replaceEdges",
                         "dropEdges"},
             NEW S, NEW T, Begin(q, Carry(pc, S, T)), UNCHANGED engine,
             x \in StoredEntities
      PROVE  Provided(x)'
  <2>1. request' = [request EXCEPT ![q] = Carry(pc, S, T)]
    BY <1>4 DEF Begin
  <2>2. Carry(pc, S, T).pc \notin {"listEntities", "listEdges", "merge"}
    BY DEF Carry
  <2>3. Awake
    BY <2>1, <2>2, <1>4, AwakeStep
  <2>4. Provided(x) /\ ~ Provides(q, x)
    BY <2>3, <1>2, <1>4 DEF Provides
  <2> QED
    BY <2>1, <2>4, <1>4, ProvidedStep
<1>5. CASE \E y \in Entities : CreateEntity(q, y)
  <2>1. PICK y \in Entities : CreateEntity(q, y)
    BY <1>5
  <2>2. CASE x = y
    <3>1. request'[q] = Carry("putEntities", {y}, {})
      BY <2>1, <1>1 DEF CreateEntity, Begin
    <3> QED
      BY <3>1, <2>2 DEF Provided, Carry
  <2>3. CASE x # y
    <3>1. x \in StoredEntities
      BY <2>1, <2>3, <1>1 DEF CreateEntity, SaveEntity, StoredEntities
    <3> QED
      BY <3>1, <2>1, <1>4 DEF CreateEntity
  <2> QED
    BY <2>2, <2>3
<1>6. CASE \E y \in Entities : UpdateEntity(q, y)
  BY <1>4, <1>6 DEF UpdateEntity, database, StoredEntities
<1>7. CASE \E S \in SUBSET Entities : DeleteEntities(q, S)
  <2>1. PICK S \in SUBSET Entities : DeleteEntities(q, S)
    BY <1>7
  <2>2. x \in StoredEntities
    BY <2>1, <1>1 DEF DeleteEntities, DeleteRows, StoredEntities
  <2> QED
    BY <2>1, <2>2, <1>4 DEF DeleteEntities
<1>8. CASE \E e \in Edges : CreateEdge(q, e) \/ UpdateEdge(q, e) \/ DeleteEdge(q, e)
  <2>1. PICK e \in Edges : CreateEdge(q, e) \/ UpdateEdge(q, e) \/ DeleteEdge(q, e)
    BY <1>8
  <2>2. x \in StoredEntities
    BY <2>1 DEF CreateEdge, UpdateEdge, DeleteEdge, SaveEdge, database, StoredEntities
  <2>3. UNCHANGED engine
    BY <2>1 DEF CreateEdge, UpdateEdge, DeleteEdge
  <2>4. \E pc \in {"putEdges", "replaceEdges", "dropEdges"} :
          Begin(q, Carry(pc, {}, {e}))
    BY <2>1 DEF CreateEdge, UpdateEdge, DeleteEdge
  <2> QED
    BY <2>2, <2>3, <2>4, <1>4
<1> QED
  BY <1>3, <1>5, <1>6, <1>7, <1>8 DEF Ask

\* A request that goes on: what it has read or saved, the engine has by then, and
\* what it drops is no longer stored.
LEMMA ProceedProvides ==
  ASSUME Inv, NEW q \in Requests, Proceed(q), Dropped(q),
         Awake => \A x \in StoredEntities : Provided(x),
         Awake', NEW x \in StoredEntities'
  PROVE  Provided(x)'
<1>1. /\ request \in [Requests -> RequestType]
      /\ entity \in [Entities -> RowStatuses]
  BY DEF Inv, TypeOK
<1>2. x \in StoredEntities
  BY DEF Proceed, PutEntities, DropEntities, PutEdges, ReplaceEdges, DropEdges,
         Merge, Finish, ListEntities, ListEdges, database, StoredEntities
<1>3. CASE ListEntities(q)
  <2>1. request'[q] = Carry("listEdges", StoredEntities, {})
    BY <1>1, <1>3 DEF ListEntities, Becomes
  <2> QED
    BY <2>1, <1>2 DEF Provided, Carry
<1>4. CASE ListEdges(q)
  <2>1. /\ request' = [request EXCEPT ![q] =
                         Carry("merge", request[q].entities, StoredEdges)]
        /\ request[q].pc = "listEdges"
        /\ UNCHANGED engine
    BY <1>4 DEF ListEdges, Becomes
  <2>2. Awake
    BY <2>1 DEF Awake, Hydrating
  <2>3. Provides(q, x) => Provides(q, x)'
    BY <2>1, <1>1 DEF Provides, Carry
  <2> QED
    BY <2>1, <2>2, <2>3, <1>2, ProvidedStep
<1>5. CASE \/ PutEntities(q) \/ DropEntities(q) \/ PutEdges(q)
           \/ ReplaceEdges(q) \/ DropEdges(q) \/ Merge(q)
  <2>1. request' = [request EXCEPT ![q] = Idle]
    BY <1>5 DEF PutEntities, DropEntities, PutEdges, ReplaceEdges, DropEdges, Merge,
                Finish, Becomes
  <2>2. Awake
    <3>1. Merge(q) => Hydrating(q)
      BY DEF Merge, Finish, Becomes, Hydrating
    <3>2. ~ Merge(q) => engine'.hydrated = engine.hydrated
      BY <1>5, WriteFields
    <3>3. Idle.pc \notin {"listEntities", "listEdges", "merge"}
      BY DEF Idle
    <3> QED
      BY <2>1, <3>1, <3>2, <3>3, AwakeStep
  <2>3. x \in engine.entities => x \in engine'.entities
    <3>1. DropEntities(q) => x \notin request[q].entities
      BY <1>2 DEF DropEntities, Finish, Becomes, Dropped, StoredEntities
    <3> QED
      BY <1>5, <3>1, WriteFields
  <2>4. Provides(q, x) => x \in engine'.entities
    <3>1. Provides(q, x) => \/ PutEntities(q) /\ x \in request[q].entities
                            \/ Merge(q) /\ x \in request[q].entities
      BY <1>5 DEF Provides, PutEntities, DropEntities, PutEdges, ReplaceEdges,
                  DropEdges, Merge, Finish, Becomes
    <3> QED
      BY <3>1, WriteFields
  <2> QED
    BY <2>1, <2>2, <2>3, <2>4, <1>2, ProvidedStep
<1> QED
  BY <1>3, <1>4, <1>5 DEF Proceed

LEMMA CompleteInvNext == Inv /\ CompleteInv /\ [Next]_vars => CompleteInv'
<1> SUFFICES ASSUME Inv, CompleteInv, [Next]_vars PROVE CompleteInv'
  OBVIOUS
<1>1. ASSUME NEW r \in Requests PROVE Dropped(r) /\ Dropped(r)'
  BY DroppedStep DEF CompleteInv, Dropped
<1>2. ASSUME strays' = 0, Awake', NEW x \in StoredEntities'
      PROVE  Provided(x)'
  <2>1. strays \in Nat
    BY StraysAssumption DEF Inv, TypeOK
  <2>2. strays = 0 /\ ~ Stray
    <3>1. UNCHANGED strays \/ Stray
      BY DEF Next, vars, Ask, Proceed, CreateEntity, UpdateEntity, DeleteEntities,
             CreateEdge, UpdateEdge, DeleteEdge, GetGraph, Refresh, PutEntities,
             DropEntities, PutEdges, ReplaceEdges, DropEdges, Finish, ListEntities,
             ListEdges, Merge, WorkerSavesEntity, WorkerSavesEdge, HydrationFails,
             Restart
    <3> QED
      BY <1>2, <2>1, <3>1 DEF Stray
  <2>3. Awake => \A y \in StoredEntities : Provided(y)
    BY <2>2 DEF CompleteInv, Awake
  <2>4. CASE UNCHANGED vars
    <3>1. Awake /\ x \in StoredEntities
      BY <1>2, <2>4 DEF vars, Awake, Hydrating, StoredEntities
    <3> QED
      BY <2>3, <2>4, <3>1 DEF vars, Provided
  <2>5. CASE \E q \in Requests : Ask(q)
    BY <2>5, <2>3, <1>2, AskProvides
  <2>6. CASE \E q \in Requests : Proceed(q)
    BY <2>6, <2>3, <1>1, <1>2, ProceedProvides
  <2>7. CASE Restart
    <3>1. ~ Awake'
      BY <2>7 DEF Restart, Awake, Hydrating, EmptyGraph, Idle
    <3> QED
      BY <3>1, <1>2
  <2> QED
    BY <2>2, <2>4, <2>5, <2>6, <2>7
    DEF Next, HydrationFails, WorkerSavesEntity, WorkerSavesEdge
<1> QED
  BY <1>1, <1>2 DEF CompleteInv, Awake, Dropped

\* For any number of requests: once nothing is under way, a hydrated engine has
\* every stored entity, if no write went past the process and no query failed.
THEOREM NoEntityLost == Spec => []EntitiesComplete
<1>1. Init => CompleteInv
  BY DEF Init, CompleteInv, Idle, StoredEntities
<1>2. Inv /\ CompleteInv => EntitiesComplete
  BY DEF CompleteInv, EntitiesComplete, Quiet, Provided, Idle
<1> QED
  BY <1>1, <1>2, InvInit, InvNext, CompleteInvNext, PTL DEF Spec
=============================================================================
