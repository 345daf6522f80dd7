-------------------------------- MODULE Views --------------------------------
(***************************************************************************)
(* What is read from the rows of a project and shown: the window in time   *)
(* (api/graph.py), the list of events and of locations                     *)
(* (store/project_event_store.py) and the timeline                         *)
(* (store/timeline_store.py).  A row has an id and the time "at" which it  *)
(* was made; texts and other columns are left out.                         *)
(***************************************************************************)
EXTENDS Integers, SequencesExt, FiniteSetsExt

Within(row, from, to) == from <= row.at /\ row.at <= to

\* get_graph_window, of rows of entities and of edges.
Window(entities, edges, from, to) ==
  LET ids == {row.id : row \in {r \in entities : Within(r, from, to)}}
             \cup UNION {{r.source, r.target} : r \in {r \in edges : Within(r, from, to)}}
      kept == {r \in entities : r.id \in ids}
      valid == {r.id : r \in kept}
  IN [entities |-> kept,
      edges |-> {r \in edges : Within(r, from, to) /\ {r.source, r.target} \subseteq valid}]

-----------------------------------------------------------------------------
\* The rows of four tables, one after the other, are events.
TypeOf(row) == IF row.table = "runs" THEN row.status ELSE row.table

Tables == <<"entities", "edges", "runs", "audits">>

\* Mutant: the oldest come first.
Earlier(s, t) == s < t

Later(s, t) == s > t

\* Sorting keeps the order of rows that were made at the same time.
Sorted(rows) ==
  LET before(i, j) == Later(rows[i].at, rows[j].at) \/ (rows[i].at = rows[j].at /\ i < j)
      order == SetToSortSeq(DOMAIN rows, before)
  IN [i \in DOMAIN rows |-> rows[order[i]]]

ListEvents(rows, from, to, limit) ==
  LET of(table) == SelectSeq(rows, LAMBDA r : r.table = table /\ Within(r, from, to))
      sorted == Sorted(FoldLeft(LAMBDA s, table : s \o of(table), <<>>, Tables))
  IN SubSeq(sorted, 1, Min({limit, Len(sorted)}))

\* The timeline: what ListEvents lists, by intervals of a width.
Floor(t, width) == t - (t % width)

Timeline(events, width) ==
  LET keys == SetToSortSeq({Floor(r.at, width) : r \in Range(events)}, <)
      bucket(k) ==
        LET those == SelectSeq(events, LAMBDA r : Floor(r.at, width) = k)
        IN [bucket_start |-> k, bucket_end |-> k + width, count |-> Len(those),
            event_types |-> [type \in {TypeOf(r) : r \in Range(those)} |->
                               Len(SelectSeq(those, LAMBDA r : TypeOf(r) = type))]]
  IN [total_events |-> Len(events), buckets |-> [i \in DOMAIN keys |-> bucket(keys[i])]]

\* Entities by where they are: label and coordinates.  The name of a location
\* is its label when it has no other.
Label(x) ==
  IF x.location /\ x.label = "" THEN x.value ELSE x.label

Key(x) == <<Label(x), x.point>>

Located(x) == Key(x) # <<"", "">>

Locations(entities, limit) ==
  LET located == SelectSeq(entities, LAMBDA x : Located(x))
      groups == {Key(located[i]) : i \in DOMAIN located}
      members(k) == SelectSeq(located, LAMBDA x : Key(x) = k)
      first(k) == CHOOSE i \in DOMAIN located :
                    Key(located[i]) = k /\ \A j \in 1..(i - 1) : Key(located[j]) # k
      sure(k) == SelectSeq(members(k), LAMBDA x : x.confidence # "")
      row(k) == [key |-> k, entity_count |-> Len(members(k)), entity_ids |-> members(k),
                 geo_confidence |-> IF sure(k) = <<>> THEN "" ELSE Head(sure(k)).confidence]
      before(k, l) == \/ Len(members(k)) > Len(members(l))
                      \/ Len(members(k)) = Len(members(l)) /\ first(k) < first(l)
      order == SetToSortSeq(groups, before)
  IN [i \in 1..Min({limit, Len(order)}) |-> row(order[i])]

-----------------------------------------------------------------------------
(***************************************************************************)
(* What they are to be.                                                    *)
(***************************************************************************)
\* api/graph.py:81-106: the window has every entity and, if both ends are known,
\* every edge of its time, no edge without its ends, and else only such ends.
WindowIsRight(entities, edges, from, to) ==
  LET window == Window(entities, edges, from, to)
      ends(r) == {r.source, r.target}
      known == {r.id : r \in entities}
      timely(rows) == {r \in rows : r.at \in from..to}
  IN /\ timely(entities) \subseteq window.entities
     /\ window.edges = {r \in timely(edges) : ends(r) \subseteq known}
     /\ \A r \in window.edges : ends(r) \subseteq {q.id : q \in window.entities}
     /\ (\A r \in edges : ends(r) \subseteq known) =>
          \A q \in window.entities \ timely(entities) : \E r \in window.edges : q.id \in ends(r)

\* project_event_store.py:78-180: the newest events of the time are listed, each
\* once, as many as the limit allows; none that is left out is newer.
EventsAreRight(rows, from, to, limit) ==
  LET events == ListEvents(rows, from, to, limit)
      within == {r \in Range(rows) : r.at \in from..to}
  IN /\ Range(events) \subseteq within
     /\ Len(events) = Cardinality(Range(events))
     /\ Len(events) = Min({limit, Cardinality(within)})
     /\ \A i, j \in DOMAIN events : i < j => events[i].at >= events[j].at
     /\ \A r \in within \ Range(events), s \in Range(events) : r.at <= s.at

\* timeline_store.py:40-79: every listed event is counted in the one interval
\* it is of, and under its type; the intervals follow each other.
TimelineIsRight(events, width) ==
  LET line == Timeline(events, width)
      in(b) == {r \in Range(events) : b.bucket_start <= r.at /\ r.at < b.bucket_end}
  IN /\ UNION {in(b) : b \in Range(line.buckets)} = Range(events)
     /\ \A b \in Range(line.buckets) :
          /\ b.count = Cardinality(in(b)) /\ b.count > 0
          /\ b.count = MapThenSumSet(LAMBDA type : b.event_types[type], DOMAIN b.event_types)
     /\ \A i, j \in DOMAIN line.buckets :
          i < j => line.buckets[i].bucket_end <= line.buckets[j].bucket_start

\* project_event_store.py:182-224: every entity that is anywhere is counted at
\* one place, with those of the same place only; big groups come first.
LocationsAreRight(entities, limit) ==
  LET rows == Locations(entities, limit)
      total == MapThenSumSet(LAMBDA i : rows[i].entity_count, DOMAIN rows)
      located == {i \in DOMAIN entities : Located(entities[i])}
  IN /\ \A i \in DOMAIN rows : \A x \in Range(rows[i].entity_ids) : Key(x) = rows[i].key
     /\ \A i, j \in DOMAIN rows : i < j => /\ rows[i].key # rows[j].key
                                          /\ rows[i].entity_count >= rows[j].entity_count
     /\ Len(rows) < limit => total = Cardinality(located)
=============================================================================
