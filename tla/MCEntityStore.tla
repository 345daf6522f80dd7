--------------------------- MODULE MCEntityStore ---------------------------
(***************************************************************************)
(* Two names, one with a blank before it, two values of one key and one of *)
(* another, and two sessions.                                              *)
(***************************************************************************)
EXTENDS EntityStore, TLC

CONSTANTS a, b, blankB, p, p2, q

FieldOf    == [x \in Props |-> IF x = q THEN "g" ELSE "f"]
Without    == [x \in Names \cup Labels |-> IF x = blankB THEN b ELSE x]

Job(kind, items, links, about) ==
  [kind |-> kind, items |-> items, links |-> links, about |-> about, format |-> None, to |-> None]

\* A transform on a finds b, twice and with an edge there and back; one finds
\* its own input again.
Transforms == { Job("transform", <<Item(b, b, {p}, 2)>>, <<Link(a, b, "l")>>, {a}),
                Job("transform", <<Item(b, b, {p2, q}, 1), Item("a1", a, {q}, 1)>>,
                    <<Link(b, "a1", "l"), Link(a, b, "l")>>, {a}) }

Direct == { Job("direct", <<Item("a1", a, {q}, 1), Item(b, b, {p}, 1)>>, <<Link("a1", b, "l")>>, {a}) }

Files == { Job("import", <<Item("i1", a, {q}, 1), Item("i2", b, {p}, 1)>>,
               <<Link("i1", "i2", "l"), Link("i1", "i3", "l")>>, {None}) }

Calls == { Job("create", <<Item(b, b, {q}, 1)>>, <<Link(a, b, "k")>>, {a}) }

Reimports == { [Job("reimport", <<>>, <<>>, {None}) EXCEPT !.format = f] : f \in {"json", "graphml", "csv"} }

Changes == { Job(k, <<>>, <<>>, {n}) : k \in {"edit", "icon", "delete"}, n \in {a, b} }
             \cup { [Job("rename", <<>>, <<>>, {a, b}) EXCEPT !.to = n] : n \in {a, b, blankB} }

IdsAsText == [i \in Ids |-> ToString(i)]

Symmetric == Permutations(Writers)

AllJobs == Transforms \cup Direct \cup Files \cup Calls \cup Reimports \cup Changes
=============================================================================
