----------------------------- MODULE GraphEngine -----------------------------
(***************************************************************************)
(* The in-memory graph of engine/graph_engine.py as a value: the entities  *)
(* and edges, and the two indexes its queries and the analysis read.  An   *)
(* operation maps a graph to a graph; the properties of entities and edges *)
(* other than the ends of an edge are left out.  A key that a dictionary   *)
(* lacks is mapped to the empty set, as its readers do with get(x, set()). *)
(***************************************************************************)
EXTENDS FiniteSets

CONSTANTS
  Entities,  \* identities of entities
  Edges,     \* identities of edges
  Source,    \* source_id of each edge
  Target     \* target_id of each edge

\* EdgeStore.create wants two different rows for the ends of an edge, and no
\* update changes them.
ASSUME EndsAssumption ==
  /\ Source \in [Edges -> Entities] /\ Target \in [Edges -> Entities]
  /\ \A e \in Edges : Source[e] # Target[e]

Ends(e) == {Source[e], Target[e]}

GraphType == [entities  : SUBSET Entities,
              edges     : SUBSET Edges,
              adjacency : [Entities -> SUBSET Edges],
              neighbors : [Entities -> SUBSET Entities],
              hydrated  : BOOLEAN]

EmptyGraph == [entities  |-> {},
               edges     |-> {},
               adjacency |-> [x \in Entities |-> {}],
               neighbors |-> [x \in Entities |-> {}],
               hydrated  |-> FALSE]

\* add_entity for every entity of S; it keeps what the indexes hold of it.
AddEntities(g, S) == [g EXCEPT !.entities = @ \cup S]

\* The edges of S that add_edge accepts: both ends are there.
Accepted(g, S) == {e \in S : Ends(e) \subseteq g.entities}

\* add_edge for every edge of S, in any order; the ValueError of a refused one
\* is caught by each caller.
AddEdges(g, S) ==
  LET new == Accepted(g, S)
  IN  [g EXCEPT
         !.edges = @ \cup new,
         !.adjacency = [x \in Entities |->
            g.adjacency[x] \cup {e \in new : x \in Ends(e)}],
         !.neighbors = [x \in Entities |->
            g.neighbors[x] \cup {y \in Entities :
                                   \E e \in new : x # y /\ Ends(e) = {x, y}}]]

\* Does an edge in the list of one entity join it to y?  Mutant: only forwards.
LeadsTo(e, y) == Target[e] = y
Touches(e, y) == Target[e] = y \/ Source[e] = y

\* remove_edge: its ends stay neighbours if another edge in the list of the
\* source touches the target.
RemoveEdge(g, e) ==
  LET s == Source[e]
      t == Target[e]
      left == [g.adjacency EXCEPT ![s] = @ \ {e}, ![t] = g.adjacency[t] \ {e}]
      connected == \E f \in left[s] : f \in g.edges \ {e} /\ Touches(f, t)
  IN  IF e \notin g.edges THEN g
      ELSE [g EXCEPT
              !.edges = @ \ {e},
              !.adjacency = left,
              !.neighbors =
                 IF connected THEN @
                 ELSE [g.neighbors EXCEPT ![s] = g.neighbors[s] \ {t},
                                          ![t] = g.neighbors[t] \ {s}]]

\* Mutant: the removed entities stay among the neighbours of the others.
RemoveEntitiesOnly(g, S) ==
  LET known == S \cap g.entities
      gone  == UNION {g.adjacency[x] : x \in known}
  IN  [g EXCEPT
         !.entities = @ \ known,
         !.edges = @ \ gone,
         !.adjacency = [x \in Entities |->
            IF x \in known THEN {} ELSE g.adjacency[x] \ gone],
         !.neighbors = [x \in Entities |->
            IF x \in known THEN {} ELSE g.neighbors[x]]]

\* remove_entity for every entity of S: the edges in their lists are removed one
\* by one, then their keys.  This is the sum of the steps; RemovalByLoop compares
\* it with the loop.
RemoveEntities(g, S) ==
  LET known == S \cap g.entities
      gone  == UNION {g.adjacency[x] : x \in known}
  IN  [g EXCEPT
         !.entities = @ \ known,
         !.edges = @ \ gone,
         !.adjacency = [x \in Entities |->
            IF x \in known THEN {} ELSE g.adjacency[x] \ gone],
         !.neighbors = [x \in Entities |->
            IF x \in known THEN {} ELSE g.neighbors[x] \ known]]

-----------------------------------------------------------------------------
(* What the indexes are for. *)

EdgesAt(g, x) == {e \in g.edges : x \in Ends(e)}

NeighborsOf(g, x) == {y \in Entities \ {x} : \E e \in g.edges : Ends(e) = {x, y}}

\* Every edge joins two entities of the graph, and the indexes list the edges and
\* the neighbours of every entity: what neighbours, statistics and analysis
\* return is what the edges say.
Consistent(g) ==
  /\ \A e \in g.edges : Ends(e) \subseteq g.entities
  /\ \A x \in Entities : g.adjacency[x] = EdgesAt(g, x)
  /\ \A x \in Entities : g.neighbors[x] = NeighborsOf(g, x)
=============================================================================
