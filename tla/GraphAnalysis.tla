---------------------------- MODULE GraphAnalysis ----------------------------
(***************************************************************************)
(* What is computed from the graph of GraphEngine: its queries and         *)
(* find_paths (engine/graph_engine.py) and the analysis (engine/           *)
(* analysis.py).  They take a graph g with entities, edges, adjacency and  *)
(* neighbors.                                                              *)
(* Fractions are pairs of a numerator and a denominator; pagerank, a       *)
(* hundred iterations over floats, is left out.                            *)
(***************************************************************************)
EXTENDS Integers, SequencesExt, FiniteSetsExt

Neighbors(g, x) == g.neighbors[x] \cap g.entities
EdgesFor(g, x) == g.adjacency[x] \cap g.edges

-----------------------------------------------------------------------------
(***************************************************************************)
(* find_paths: a queue of paths.  A set of neighbours is gone through in   *)
(* an order of its own, here that of the sequence "order".                 *)
(***************************************************************************)
\* Mutant: paths of the greatest length are given up.
TooLongAtOnce(path, maxDepth) == Len(path) >= maxDepth

TooLong(path, maxDepth) == Len(path) > maxDepth

\* One round of the loop, for the path at the head of the queue.
Round(g, end, maxDepth, order, search) ==
  LET path    == Head(search.queue)
      current == Last(path)
      rest    == [search EXCEPT !.queue = Tail(@)]
      visited == search.visited \cup {current}
      next    == SelectSeq(order, LAMBDA x : x \in g.neighbors[current] \ visited)
  IN IF TooLong(path, maxDepth) THEN rest
     ELSE IF current = end THEN [rest EXCEPT !.paths = Append(@, path)]
     ELSE IF current \in search.visited THEN rest
     ELSE [rest EXCEPT !.visited = visited,
                       !.queue = @ \o [i \in DOMAIN next |-> Append(path, next[i])]]

\* Each entity is visited once and puts its neighbours into the queue.
FindPaths(g, start, end, maxDepth, order) ==
  LET n == Cardinality(g.entities)
      begun == [queue |-> <<<<start>>>>, paths |-> <<>>, visited |-> {}]
      rounds == [k \in 1..(n * n + 1) |-> k]
      searched == FoldLeft(LAMBDA search, k : IF search.queue = <<>> THEN search
                                              ELSE Round(g, end, maxDepth, order, search),
                           begun, rounds)
  IN IF {start, end} \subseteq g.entities
     THEN IF start = end THEN <<<<start>>>> ELSE searched.paths
     ELSE <<>>

-----------------------------------------------------------------------------
(***************************************************************************)
(* The searches of the analysis visit the entities by their distance.      *)
(***************************************************************************)
Layers(g, s) ==
  LET layer[k \in 0..Cardinality(g.entities)] ==
        IF k = 0 THEN {s}
        ELSE UNION {g.neighbors[v] : v \in layer[k - 1]} \ UNION {layer[j] : j \in 0..(k - 1)}
  IN layer

Reached(g, s) == UNION Range(Layers(g, s))

Dist(g, s) ==
  LET layer == Layers(g, s)
  IN [v \in Reached(g, s) |-> CHOOSE k \in DOMAIN layer : v \in layer[k]]

DegreeCentrality(g) ==
  LET n == Cardinality(g.entities)
  IN [x \in g.entities |-> IF n <= 1 THEN <<0, 1>> ELSE <<Cardinality(g.adjacency[x]), n - 1>>]

\* Scores are multiples of 1/Unit; that is exact in graphs of up to four.
Unit == 12

\* What the search from s adds to the score of each entity: shortest paths are
\* counted outwards, and shares of them are handed back from the far end.
Shares(g, s) ==
  LET dist == Dist(g, s)
      nodes == DOMAIN dist
      pred(w) == {v \in nodes : w \in g.neighbors[v] /\ dist[w] = dist[v] + 1}
      sigma[w \in nodes] == IF w = s THEN 1 ELSE MapThenSumSet(LAMBDA v : sigma[v], pred(w))
      delta[v \in nodes] ==
        MapThenSumSet(LAMBDA w : (sigma[v] * (Unit + delta[w])) \div sigma[w],
                      {w \in nodes : v \in pred(w)})
  IN [v \in g.entities |-> IF v \in nodes \ {s} THEN delta[v] ELSE 0]

BetweennessCentrality(g) ==
  LET n == Cardinality(g.entities)
      score(v) == MapThenSumSet(LAMBDA s : Shares(g, s)[v], g.entities)
  IN [v \in g.entities |-> IF n > 2 THEN <<2 * score(v), Unit * (n - 1) * (n - 2)>>
                           ELSE <<score(v), Unit>>]

ClosenessCentrality(g) ==
  LET total(dist) == MapThenSumSet(LAMBDA v : dist[v], DOMAIN dist)
  IN [s \in g.entities |-> IF g.neighbors[s] = {} THEN <<0, 1>>
                           ELSE <<Cardinality(Reached(g, s)) - 1, total(Dist(g, s))>>]

\* A node that has not been visited begins a component; it is left out of those
\* that follow.
ConnectedComponents(g, order) ==
  FoldLeft(LAMBDA found, x : IF x \notin g.entities \/ (\E C \in Range(found) : x \in C) THEN found
                             ELSE Append(found, Reached(g, x)),
           <<>>, order)

GraphStats(g, order) ==
  LET n == Cardinality(g.entities)
      m == Cardinality(g.edges)
      degrees == MapThenSumSet(LAMBDA x : Cardinality(g.adjacency[x]), g.entities)
  IN [entity_count |-> n, edge_count |-> m,
      density |-> <<m, IF n > 1 THEN n * (n - 1) ELSE 1>>,
      avg_degree |-> IF n > 0 THEN <<degrees, n>> ELSE <<0, 1>>,
      connected_components |-> Len(ConnectedComponents(g, order))]

-----------------------------------------------------------------------------
(***************************************************************************)
(* What these are to be: reference definitions by all paths of a graph.    *)
(***************************************************************************)
\* Every path that visits no entity twice.
SimplePaths(g, s, t) ==
  {p \in UNION {[1..k -> g.entities] : k \in 1..Cardinality(g.entities)} :
     /\ p[1] = s /\ Last(p) = t
     /\ \A i, j \in DOMAIN p : i < j => p[i] # p[j]
     /\ \A i \in 1..(Len(p) - 1) : p[i + 1] \in g.neighbors[p[i]]}

Shortest(paths) == {p \in paths : \A q \in paths : Len(p) <= Len(q)}

\* graph_engine.py:98-128: a path is found just when the shortest one has no
\* more than max_depth entities; the first one found is as short as that, and
\* whatever is found is a path that visits nothing twice, and is found once.
PathsAreRight(g, paths, order) ==
  \A s, t \in g.entities : s # t =>
    \A maxDepth \in 1..(Cardinality(g.entities) + 1) :
      LET found  == FindPaths(g, s, t, maxDepth, order)
          within == {p \in paths[s][t] : Len(p) <= maxDepth}
      IN /\ Range(found) \subseteq within
         /\ Cardinality(Range(found)) = Len(found)
         /\ IF within = {} THEN found = <<>>
            ELSE found # <<>> /\ Head(found) \in Shortest(within)

\* analysis.py:19-59: the score of an entity sums, over the ordered pairs of two
\* others, the part of the shortest paths between them that lead through it.
BetweennessIsRight(g, paths) ==
  \A v \in g.entities :
    LET others == g.entities \ {v}
        part(s, t) ==
          LET short == Shortest(paths[s][t])
          IN IF s = t \/ short = {} THEN 0
             ELSE (Unit * Cardinality({p \in short : v \in Range(p)})) \div Cardinality(short)
        sum == MapThenSumSet(LAMBDA st : part(st[1], st[2]), others \X others)
        score == BetweennessCentrality(g)[v]
    IN score[1] = (IF Cardinality(g.entities) > 2 THEN 2 ELSE 1) * sum

\* analysis.py:62-86: the mean of the lengths of the shortest paths, inverted.
ClosenessIsRight(g, paths) ==
  \A s \in g.entities :
    LET there == {t \in g.entities \ {s} : paths[s][t] # {}}
        length(t) == CHOOSE k \in 0..Cardinality(g.entities) :
                       \E p \in Shortest(paths[s][t]) : k = Len(p) - 1
    IN there # {} =>
         ClosenessCentrality(g)[s] = <<Cardinality(there), MapThenSumSet(length, there)>>

\* analysis.py:114-156: two entities are in one component just when a path joins
\* them, and edges count at both ends.
ComponentsAreRight(g, paths, order) ==
  LET found == ConnectedComponents(g, order)
      stats == GraphStats(g, order)
  IN /\ UNION Range(found) = g.entities
     /\ \A C \in Range(found) : \A s \in C, t \in g.entities : t \in C <=> paths[s][t] # {}
     /\ Cardinality(Range(found)) = Len(found)
     /\ stats.avg_degree[1] = 2 * stats.edge_count
=============================================================================
