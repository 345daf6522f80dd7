---------------------------- MODULE MCGraphCache -----------------------------
(***************************************************************************)
(* Small instances of GraphCache: two edges between two entities, one in   *)
(* each direction, and the removal of entities as the code does it; and    *)
(* the small graphs and windows that the analysis is compared on.          *)
(***************************************************************************)
EXTENDS GraphCache, GraphAnalysis, Views, TLC

CONSTANTS a, b, ab, ba, r1, r2, r3

Forwards  == [e \in {ab, ba} |-> IF e = ab THEN a ELSE b]
Backwards == [e \in {ab, ba} |-> IF e = ab THEN b ELSE a]

Symmetry == Permutations(Requests)

\* remove_entity as a loop over the entity's list of edges.
RemoveByLoop(x, g) ==
  LET bare == FoldSet(LAMBDA e, h : RemoveEdge(h, e),
                      [g EXCEPT !.entities = @ \ {x}], g.adjacency[x])
  IN  IF x \notin g.entities THEN g
      ELSE [bare EXCEPT !.adjacency[x] = {}, !.neighbors[x] = {}]

\* RemoveEntities is the loop, in every reachable engine and for any set.
RemovalByLoop ==
  \A S \in SUBSET Entities :
    RemoveEntities(engine, S) = FoldSet(RemoveByLoop, engine, S)

\* A graph of the entities N whose edges are the pairs of two that they join.
Joined(N, pairs) ==
  [entities |-> N, edges |-> pairs,
   adjacency |-> [x \in N |-> {e \in pairs : x \in e}],
   neighbors |-> [x \in N |-> {y \in N \ {x} : {x, y} \in pairs}]]

GraphsOf(N) == {Joined(N, pairs) : pairs \in SUBSET kSubset(2, N)}

\* All graphs of three and of four entities, in an order and in the other.
SmallGraphs == GraphsOf(1..3) \cup GraphsOf(1..4)

AnalysisIsRight ==
  \A g \in SmallGraphs :
    LET n     == Cardinality(g.entities)
        up    == [i \in 1..n |-> i]
        paths == [s \in g.entities |-> [t \in g.entities |-> SimplePaths(g, s, t)]]
    IN /\ \A order \in {up, Reverse(up)} :
            PathsAreRight(g, paths, order) /\ ComponentsAreRight(g, paths, order)
       /\ BetweennessIsRight(g, paths) /\ ClosenessIsRight(g, paths)

Times == 1..2

\* Rows of three entities, of which one may be gone, and of two edges.
WindowsAreRight ==
  \A t \in [{1, 2, 3, 12, 23} -> Times], gone \in {0, 3}, from, to \in Times :
    LET row(x) == [id |-> x, at |-> t[x]]
        link(x, y) == [id |-> 10 * x + y, at |-> t[10 * x + y], source |-> x, target |-> y]
    IN WindowIsRight({row(x) : x \in {1, 2, 3} \ {gone}}, {link(1, 2), link(2, 3)}, from, to)

\* Rows of every table, two of them runs.
EventListsAreRight ==
  \A t \in [1..5 -> 0..3], from \in {0, 1}, limit \in {1, 3, 5} :
    LET table(i) == IF i = 5 THEN "runs" ELSE Tables[i]
        rows == [i \in 1..5 |-> [id |-> i, table |-> table(i), at |-> t[i],
                                 status |-> IF i = 5 THEN "failed" ELSE "completed"]]
    IN /\ EventsAreRight(rows, from, 2, limit)
       /\ TimelineIsRight(ListEvents(rows, from, 2, limit), 2)

Anywhere == {[label |-> l, point |-> p, location |-> n, value |-> "v", confidence |-> c] :
               l \in {"", "v"}, p \in {"", "p"}, n \in BOOLEAN, c \in {"", "sure"}}

LocationListsAreRight ==
  \A x, y, z \in Anywhere, limit \in {1, 3, 4} : LocationsAreRight(<<x, y, z>>, limit)

\* What the engine answers of an entity is what its edges say.
QueriesTellTheEdges ==
  \A x \in engine.entities : /\ Neighbors(engine, x) = NeighborsOf(engine, x)
                             /\ EdgesFor(engine, x) = EdgesAt(engine, x)

\* engine/graph_engine.py, engine/analysis.py and the views: the operators the
\* cache is made of, and those that only read, compute what they are to.
OperatorsAreRight ==
  /\ RemovalByLoop /\ QueriesTellTheEdges /\ AnalysisIsRight
  /\ WindowsAreRight /\ EventListsAreRight /\ LocationListsAreRight
=============================================================================
