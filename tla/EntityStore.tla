----------------------------- MODULE EntityStore -----------------------------
(***************************************************************************)
(* The rows of entities and edges of one project, and everybody who writes *)
(* them: transforms that store what they found (transform_job.py,          *)
(* TransformExecutionService.execute_direct), imports of files             *)
(* (api/import_.py), the agent's create_entity, the editor's changes       *)
(* (api/entities.py), all by EntityStore and EdgeStore; and exports        *)
(* (api/export.py) that are imported again.                                *)
(*                                                                         *)
(* No constraint of the database keeps a second row of a type and value,   *)
(* or a second edge of the same ends and label, away: the stores look      *)
(* first and insert in another statement.  A session remembers the rows it *)
(* has loaded, and writes the columns that differ from what it remembers.  *)
(***************************************************************************)
EXTENDS Integers, Sequences, FiniteSets, SequencesExt, FiniteSetsExt

CONSTANTS
  Writers,  \* sessions
  Names,    \* a name is an entity's type and value
  Props,    \* properties: a key with a value
  Field,    \* the key of a property
  Labels,   \* labels of edges
  Stripped, \* a name or a label without the blanks around it
  Jobs,     \* what a session may be asked to store
  IdText,   \* how an export writes an id
  None,
  MaxIds,   \* bound: rows and edges ever inserted
  MaxJobs   \* bound: jobs in all

ASSUME EntityStoreAssumption ==
  /\ None \notin Names \cup Props \cup Labels \cup Writers
  /\ \A n \in Names : Stripped[n] \in Names   \* something is left of a name
  /\ \A l \in Labels : Stripped[l] \in Labels
  /\ MaxIds \in Nat \ {0} /\ MaxJobs \in Nat

Ids     == 1 .. MaxIds
Keys    == Names \cup STRING
Kinds   == {"transform", "direct", "create", "import", "reimport", "rename", "edit", "icon", "delete"}
Formats == {"json", "graphml", "csv"}

\* What a transform found, or what an importer has made of an entry of a file.
ItemType == [key : Keys, name : Names, props : SUBSET Props, weight : Int]
LinkType == [from : Keys, to : Keys, label : Labels]
JobType  == [kind : Kinds, items : Seq(ItemType), links : Seq(LinkType), about : SUBSET (Names \cup {None}),
             format : Formats \cup {None}, to : Names \cup {None}]

\* A key stands for one entity: it is the name of one that was there before,
\* or what the transform or the file numbers one with.
WellKeyed(items) ==
  \A i, k \in DOMAIN items :
    /\ items[i].key = items[k].key => items[i].name = items[k].name
    /\ items[i].key \in Names => items[i].key = items[i].name

ASSUME JobsAssumption ==
  /\ Jobs \subseteq JobType
  /\ \A j \in Jobs : WellKeyed(j.items)
  /\ \A j \in Jobs : j.kind = "rename" => j.to \in Names

ASSUME IdTextAssumption ==
  /\ IdText \in [Ids -> STRING]
  /\ \A i, k \in Ids : IdText[i] = IdText[k] => i = k
  /\ \A i \in Ids : IdText[i] \notin Names

VARIABLES
  rows,      \* the table entities
  edges,     \* the table edges
  nextId,    \* ids are drawn from a UUID generator
  wk,        \* where each session stands
  jobs,      \* jobs so far
  contested, \* history: names that two jobs at a time were about
  renamed,   \* history: names given to a row by an update
  told       \* history: the properties that were saved in a row, each with the
             \* sessions that had loaded the row before

vars == <<rows, edges, nextId, wk, jobs, contested, renamed, told>>
history == <<contested, renamed, told>>

Row(id, item)    == [id |-> id, name |-> item.name, props |-> item.props,
                     weight |-> item.weight, icon |-> "default"]
Item(key, name, props, weight) == [key |-> key, name |-> name, props |-> props, weight |-> weight]
Link(from, to, label)          == [from |-> from, to |-> to, label |-> label]

Named(n)    == {r \in rows : r.name = n}
With(ids, key, id) == [k \in DOMAIN ids \cup {key} |-> IF k = key THEN id ELSE ids[k]]
RowOf(id)   == CHOOSE r \in rows : r.id = id
RowIds      == {r.id : r \in rows}

\* The kinds of job: those that go on after what one item raises, and those
\* that are about entities an editor has on the screen.
Imports == {"import", "reimport"}
Edits   == {"rename", "edit", "icon", "delete"}

Mentions(j) == {it.name : it \in Range(j.items)} \cup (j.about \ {None})
                 \cup (IF j.kind = "reimport" THEN Names ELSE {})

Idle == [pc |-> "idle", job |-> None, items |-> <<>>, links |-> <<>>,
         ids |-> <<>>, mem |-> {}, saw |-> None, solo |-> FALSE, was |-> None]

Init ==
  /\ \E n \in Names, p \in Props :
       /\ rows = {Row(1, Item(n, n, {p}, 1))}
       /\ told = {[id |-> 1, prop |-> p, unseen |-> {}]}
  /\ edges = {} /\ nextId = 2 /\ jobs = 0
  /\ wk = [w \in Writers |-> Idle]
  /\ contested = {} /\ renamed = {}

-----------------------------------------------------------------------------
Set(w, fields) == wk' = [wk EXCEPT ![w] = fields]
End(w)         == Set(w, Idle)
Busy(w)        == wk[w].pc # "idle"

\* A job begins.  A transform and the agent have their input entity at hand,
\* an editor the entity on the screen; an export reads first.  A transform in
\* the API's process has the session its input was loaded with.
Start(j) == CASE j.kind = "reimport" -> "read"
              [] j.kind \in Edits    -> "load"
              [] OTHER               -> "next"

\* The session of a job, about the row at.
Opened(j, at, alone) ==
  [pc |-> Start(j), job |-> j, items |-> j.items, links |-> j.links,
   ids |-> IF j.kind \in Imports THEN <<>> ELSE With(<<>>, at.name, at.id),
   mem |-> IF j.kind = "direct" THEN {at} ELSE {},
   saw |-> at, solo |-> alone, was |-> <<rows, edges>>]

Begin(w, j) ==
  /\ ~ Busy(w) /\ jobs < MaxJobs
  /\ jobs' = jobs + 1
  /\ \E at \in IF j.kind \in Imports THEN {None} ELSE rows :
       /\ j.kind \notin Imports => at.name \in j.about
       /\ LET others == {v \in Writers : Busy(v)}
          IN /\ wk' = [v \in Writers |-> IF v = w THEN Opened(j, at, others = {}) ELSE [wk[v] EXCEPT !.solo = FALSE]]
             /\ contested' = contested \cup (Mentions(j) \cap UNION {Mentions(wk[v].job) : v \in others})
  /\ told' = {[t EXCEPT !.unseen = @ \ {w}] : t \in told}
  /\ UNCHANGED <<rows, edges, nextId, renamed>>

-----------------------------------------------------------------------------
(***************************************************************************)
(* Export, and the payload an importer reads from the file.                *)
(***************************************************************************)
\* What the importer makes of a weight: 0 is none in JSON, GraphML has no minus
\* sign, and 1 stands for none; CSV keeps any.
WeightRead(format, weight) ==
  IF (format = "json" /\ weight = 0) \/ (format = "graphml" /\ weight <= 0) THEN 1 ELSE weight

\* Texts in GraphML are stripped.
LabelRead(format, label) == IF format = "graphml" THEN Stripped[label] ELSE label

\* Names are stripped in all formats.  GraphML has no properties and CSV no edges
\* that an import takes.
Payload(r, format) ==
  Item(IdText[r.id], Stripped[r.name], IF format = "graphml" THEN {} ELSE r.props,
       WeightRead(format, r.weight))

ReadEntities(w) ==
  LET file == SetToSeq({Payload(r, wk[w].job.format) : r \in rows})
  IN /\ wk[w].pc = "read"
     /\ Set(w, [wk[w] EXCEPT !.pc = "read edges", !.items = file, !.job.items = file])
     /\ UNCHANGED <<rows, edges, nextId, jobs, history>>

ReadEdges(w) ==
  LET taken == IF wk[w].job.format = "csv" THEN {} ELSE edges
  IN /\ wk[w].pc = "read edges"
     /\ Set(w, [wk[w] EXCEPT !.pc = "next",
                             !.links = SetToSeq({Link(IdText[e.src], IdText[e.tgt],
                                                          LabelRead(wk[w].job.format, e.label)) : e \in taken})])
     /\ UNCHANGED <<rows, edges, nextId, jobs, history>>

-----------------------------------------------------------------------------
(***************************************************************************)
(* EntityStore.save and create, for one entity after the other.            *)
(***************************************************************************)
\* What an item raises is skipped by an import and ends any other job.
SkipItem(w) == IF wk[w].job.kind \in Imports THEN Set(w, [wk[w] EXCEPT !.pc = "next", !.items = Tail(@)])
               ELSE End(w)

\* The item has the row with this id, as the session knows it from now on.
Stored(w, r) ==
  Set(w, [wk[w] EXCEPT !.pc = "next", !.items = Tail(@),
                       !.ids = With(@, Head(wk[w].items).key, r.id),
                       !.mem = {m \in @ : m.id # r.id} \cup {r}])

\* A row that the session has loaded before is not read again.
Remembered(w, r) == IF \E m \in wk[w].mem : m.id = r.id THEN CHOOSE m \in wk[w].mem : m.id = r.id ELSE r

\* find_by_type_and_value takes no row, one, or fails for having found more;
\* create returns what it finds.
FindEntity(w) ==
  LET found == Named(Head(wk[w].items).name) IN
  /\ wk[w].pc = "next" /\ wk[w].items # <<>>
  /\ \/ found = {} /\ Set(w, [wk[w] EXCEPT !.pc = "insert"])
     \/ /\ Cardinality(found) = 1 /\ wk[w].job.kind = "create"
        /\ \E r \in found : Stored(w, r)
     \/ /\ Cardinality(found) = 1 /\ wk[w].job.kind # "create"
        /\ \E r \in found : Set(w, [wk[w] EXCEPT !.pc = "merge", !.saw = Remembered(w, r),
                                                 !.mem = @ \cup {Remembered(w, r)}])
     \/ Cardinality(found) > 1 /\ SkipItem(w)
  /\ UNCHANGED <<rows, edges, nextId, jobs, history>>

\* The session holds a copy of the row.
Holds(v, id) == \E m \in wk[v].mem : m.id = id

\* w has written new properties into the row, besides those of its copy: of what
\* others stored since it loaded the row, nothing is left.
Saved(w, id, new) ==
  {t \in told : t.id # id \/ (w \notin t.unseen /\ \A y \in new : Field[y] # Field[t.prop])}
    \cup {[id |-> id, prop |-> y, unseen |-> {v \in Writers \ {w} : Holds(v, id)}] : y \in new}

InsertEntity(w) ==
  LET r == Row(nextId, Head(wk[w].items)) IN
  /\ wk[w].pc = "insert" /\ nextId <= MaxIds
  /\ rows' = rows \cup {r} /\ nextId' = nextId + 1
  /\ told' = Saved(w, r.id, r.props)
  /\ Stored(w, r)
  /\ UNCHANGED <<edges, jobs, contested, renamed>>

\* Mutant: what is found replaces what is there.
MergedOver(r, item) == [r EXCEPT !.props = item.props,
                                 !.weight = Max({@, item.weight}),
                                 !.icon = "default"]

\* The properties new are put into old, over those of the same keys.
Over(old, new) == new \cup {x \in old : \A y \in new : Field[y] # Field[x]}

\* Mutant: weights are added up.
MergedSum(r, item) == [r EXCEPT !.props = Over(@, item.props),
                                !.weight = @ + item.weight,
                                !.icon = "default"]

\* What a save makes of a row: new properties are put over the old ones, the
\* weight is the larger, and the icon the one of the type, which any new entity
\* has.
Merged(r, item) == [r EXCEPT !.props = Over(@, item.props),
                             !.weight = Max({@, item.weight}),
                             !.icon = "default"]

\* The columns that have changed are written.
Written(loaded, wanted, there) ==
  [c \in DOMAIN wanted |-> IF wanted[c] = loaded[c] THEN there[c] ELSE wanted[c]]

Replace(id, new) == rows' = {r \in rows : r.id # id} \cup {new}

\* A row that is gone, as any error of a commit, leaves the session useless:
\* everything the job does afterwards fails as well.
MergeEntity(w) ==
  LET item == Head(wk[w].items)
      id   == wk[w].saw.id
  IN /\ wk[w].pc = "merge"
     /\ \/ id \notin RowIds /\ End(w) /\ UNCHANGED <<rows, told>>
        \/ /\ id \in RowIds
           /\ LET new == Written(wk[w].saw, Merged(wk[w].saw, item), RowOf(id)) IN
              /\ Replace(id, new)
              /\ told' = IF Over(wk[w].saw.props, item.props) = wk[w].saw.props
                         THEN told ELSE Saved(w, id, item.props)
              /\ Stored(w, new)
     /\ UNCHANGED <<edges, nextId, jobs, contested, renamed>>

-----------------------------------------------------------------------------
(***************************************************************************)
(* EdgeStore.create, for one edge after the other.                         *)
(***************************************************************************)
Known(w, l) == {l.from, l.to} \subseteq DOMAIN wk[w].ids

\* Mutant: the ends are swapped.
EndsSwapped(w, l) == <<wk[w].ids[l.to], wk[w].ids[l.from]>>

Ends(w, l) == <<wk[w].ids[l.from], wk[w].ids[l.to]>>

\* Mutant: an edge is not looked for.
SameNever(e, ends, l) == FALSE

Same(e, ends, l) == e.src = ends[1] /\ e.tgt = ends[2] /\ e.label = l.label

SkipLink(w) == Set(w, [wk[w] EXCEPT !.pc = "next", !.links = Tail(@)])

\* Both ends have to be there, and be two; then an edge like this is looked
\* for.  What is raised ends the agent's call, and is skipped by the others.
FindEdge(w) ==
  LET l == Head(wk[w].links)
      like == {e \in edges : Same(e, Ends(w, l), l)}
      valid == /\ Known(w, l)
               /\ Ends(w, l)[1] # Ends(w, l)[2]
               /\ {Ends(w, l)[1], Ends(w, l)[2]} \subseteq RowIds
  IN /\ wk[w].pc = "next" /\ wk[w].items = <<>> /\ wk[w].links # <<>>
     /\ \/ valid /\ like = {} /\ Set(w, [wk[w] EXCEPT !.pc = "insert edge"])
        \/ ~ (valid /\ like = {}) /\ wk[w].job.kind # "create" /\ SkipLink(w)
        \/ ~ (valid /\ like = {}) /\ wk[w].job.kind = "create" /\ End(w)
     /\ UNCHANGED <<rows, edges, nextId, jobs, history>>

NameOfEnd(w, key) ==
  IF \E it \in Range(wk[w].job.items) : it.key = key
  THEN (CHOOSE it \in Range(wk[w].job.items) : it.key = key).name ELSE key

Edge(w, id, l) == [id |-> id, src |-> Ends(w, l)[1], tgt |-> Ends(w, l)[2], label |-> l.label,
                   meant |-> <<NameOfEnd(w, l.from), NameOfEnd(w, l.to)>>]

\* The foreign keys refuse an edge whose end has been deleted meanwhile.
InsertEdge(w) ==
  LET l == Head(wk[w].links) IN
  /\ wk[w].pc = "insert edge" /\ nextId <= MaxIds
  /\ \/ /\ {Ends(w, l)[1], Ends(w, l)[2]} \subseteq RowIds
        /\ edges' = edges \cup {Edge(w, nextId, l)} /\ nextId' = nextId + 1
        /\ SkipLink(w)
     \/ /\ ~ {Ends(w, l)[1], Ends(w, l)[2]} \subseteq RowIds
        /\ End(w) /\ UNCHANGED <<edges, nextId>>
  /\ UNCHANGED <<rows, jobs, history>>

Finish(w) ==
  /\ wk[w].pc = "next" /\ wk[w].items = <<>> /\ wk[w].links = <<>>
  /\ Set(w, [wk[w] EXCEPT !.pc = "done"])
  /\ UNCHANGED <<rows, edges, nextId, jobs, history>>

Leave(w) ==
  /\ wk[w].pc = "done" /\ End(w)
  /\ UNCHANGED <<rows, edges, nextId, jobs, history>>

-----------------------------------------------------------------------------
(***************************************************************************)
(* What an editor does to one entity: it is loaded and then written.       *)
(***************************************************************************)
LoadEntity(w) ==
  /\ wk[w].pc = "load"
  /\ \/ wk[w].saw.id \in RowIds /\ Set(w, [wk[w] EXCEPT !.pc = "change", !.saw = RowOf(wk[w].saw.id)])
     \/ wk[w].saw.id \notin RowIds /\ End(w)
  /\ UNCHANGED <<rows, edges, nextId, jobs, history>>

Changed(j, r) == CASE j.kind = "rename" -> [r EXCEPT !.name = j.to]
                   [] j.kind = "edit"   -> [r EXCEPT !.props = {}, !.weight = 0]
                   [] j.kind = "icon"   -> [r EXCEPT !.icon = "own"]

ChangeEntity(w) ==
  LET j  == wk[w].job
      id == wk[w].saw.id
  IN /\ wk[w].pc = "change" /\ j.kind # "delete"
     /\ End(w)
     /\ \/ id \notin RowIds /\ UNCHANGED <<rows, renamed, told>>
        \/ /\ id \in RowIds
           /\ LET new == Written(wk[w].saw, Changed(j, wk[w].saw), RowOf(id)) IN
              /\ Replace(id, new)
              /\ renamed' = IF j.kind = "rename" THEN renamed \cup {new.name} ELSE renamed
              /\ told' = IF j.kind = "edit" THEN {t \in told : t.id # id} ELSE told
     /\ UNCHANGED <<edges, nextId, jobs, contested>>

\* Mutant: the edges stay.
DeleteEntityOnly(w) ==
  LET id == wk[w].saw.id IN
  /\ wk[w].pc = "change" /\ wk[w].job.kind = "delete"
  /\ rows' = {r \in rows : r.id # id}
  /\ told' = {t \in told : t.id # id}
  /\ End(w)
  /\ UNCHANGED <<edges, nextId, jobs, contested, renamed>>

\* The edges of an entity are deleted with it.
DeleteEntity(w) ==
  LET id == wk[w].saw.id IN
  /\ wk[w].pc = "change" /\ wk[w].job.kind = "delete"
  /\ rows' = {r \in rows : r.id # id}
  /\ edges' = {e \in edges : id \notin {e.src, e.tgt}}
  /\ told' = {t \in told : t.id # id}
  /\ End(w)
  /\ UNCHANGED <<nextId, jobs, contested, renamed>>

-----------------------------------------------------------------------------
Step(w) ==
  \/ ReadEntities(w) \/ ReadEdges(w)
  \/ FindEntity(w) \/ InsertEntity(w) \/ MergeEntity(w)
  \/ FindEdge(w) \/ InsertEdge(w) \/ Finish(w) \/ Leave(w)
  \/ LoadEntity(w) \/ ChangeEntity(w) \/ DeleteEntity(w)

Next == \E w \in Writers : (\E j \in Jobs : Begin(w, j)) \/ Step(w)

Spec == Init /\ [][Next]_vars

-----------------------------------------------------------------------------
(***************************************************************************)
(* Properties.                                                             *)
(***************************************************************************)
TypeOK ==
  /\ \A r \in rows : /\ r.id < nextId /\ r.name \in Names /\ r.props \subseteq Props
                     /\ r.weight \in Int /\ r.icon \in {"default", "own"}
  /\ Cardinality(RowIds) = Cardinality(rows)
  /\ \A e \in edges : e.id < nextId /\ e.label \in Labels
                      /\ e.src # e.tgt /\ {e.src, e.tgt} \subseteq RowIds
  /\ \A w \in Writers : \A k \in DOMAIN wk[w].ids : wk[w].ids[k] < nextId

\* docs/transform_implementation.md:152 and 160: an entity that exists is
\* merged and an edge that exists skipped, so that there is one row of each,
\* as long as no two jobs at a time are about the same and no update gives an
\* entity the name of another.
OneOfEach ==
  /\ \A n \in Names \ (contested \cup renamed) : Cardinality(Named(n)) <= 1
  /\ \A d, e \in edges : d # e /\ <<d.src, d.tgt, d.label>> = <<e.src, e.tgt, e.label>>
                           => {RowOf(e.src).name, RowOf(e.tgt).name} \cap (contested \cup renamed) # {}

\* entity_store.py:29-173, edge_store.py:30-66: with it, every edge has its two
\* rows and every remembered identity is one that was given out.
RowsAreSound == TypeOK /\ OneOfEach

\* entity_store.py:54-78: a property that was saved stays in its row, with its
\* value, until an editor replaces the properties, a save brings another value
\* of the same key, or a session saves the row that had loaded it before and
\* not since; whatever other sessions do at the same time, and whatever names
\* they give.  (A save that changes nothing in the session's copy writes
\* nothing, and reports nothing.)
OnlyUnseenIsLost ==
  \A t \in told, r \in rows : r.id = t.id => t.prop \in r.props

\* transform_job.py:111-121, import_.py:182-215: an edge joins the rows of the
\* entities its job meant, whether they were inserted or found; only an update
\* may have given them another name since.
EdgesJoinWhatTheyMean ==
  \A e \in edges : LET joined == <<RowOf(e.src).name, RowOf(e.tgt).name>> IN
    \A i \in {1, 2} : joined[i] = e.meant[i] \/ joined[i] \in renamed

\* The importer reads again what the export was made from.
Survives(tables, format) ==
  /\ \A r \in tables[1] : Stripped[r.name] = r.name /\ WeightRead(format, r.weight) = r.weight
  /\ \A e \in tables[2] : LabelRead(format, e.label) = e.label

\* export.py, import_.py: a project's own export, imported again while nobody
\* else writes, changes nothing but icons, as long as names, labels and weights
\* are such that the importer reads them as they were.
ReimportChangesNothing ==
  \A w \in Writers :
    wk[w].pc = "done" /\ wk[w].job.kind = "reimport" /\ wk[w].solo
    /\ Survives(wk[w].was, wk[w].job.format)
      => /\ edges = wk[w].was[2]
         /\ {[r EXCEPT !.icon = "default"] : r \in rows} = {[r EXCEPT !.icon = "default"] : r \in wk[w].was[1]}
=============================================================================
