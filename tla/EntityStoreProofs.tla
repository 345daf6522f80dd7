-------------------------- MODULE EntityStoreProofs --------------------------
(***************************************************************************)
(* Proofs about EntityStore, for any names, sessions, jobs and bounds: one *)
(* row for each name and one edge for each ends and label, but for names   *)
(* that are contested or renamed; what was saved in a row is lost only to  *)
(* a session that had loaded it before; edges join what their job meant;   *)
(* and an export imported alone changes nothing but icons.                 *)
(*                                                                         *)
(* The invariant has four parts.  The first is about types (Tables,        *)
(* Session).  The second says what a session knows of the rows (Knows): a  *)
(* row it has loaded is still as it remembers, unless the name of the row  *)
(* is contested or renamed, because whoever else changes the row is about  *)
(* the same name at the same time.  The third is about the copies of rows  *)
(* in which what was saved is still missing (Heard), and the fourth about  *)
(* the one session that imports an export while all others rest (Alone).   *)
(***************************************************************************)
EXTENDS EntityStore, FiniteSetTheorems, SequenceTheorems, TLAPS

-----------------------------------------------------------------------------
(* Types. *)

RowRec  == [id : Ids, name : Names, props : SUBSET Props, weight : Int, icon : {"default", "own"}]
EdgeRec == [id : Ids, src : Ids, tgt : Ids, label : Labels, meant : Keys \X Keys]

Pcs     == {"idle", "read", "read edges", "next", "insert", "merge", "insert edge", "done", "load", "change"}
KeyMaps == UNION {[K -> Ids] : K \in SUBSET Keys}

SessionType ==
  [pc : Pcs, job : JobType \cup {None}, items : Seq(ItemType), links : Seq(LinkType),
   ids : KeyMaps, mem : SUBSET RowRec, saw : RowRec \cup {None}, solo : BOOLEAN,
   was : ((SUBSET RowRec) \X (SUBSET EdgeRec)) \cup {None}]

Tables ==
  /\ nextId \in Nat \ {0}
  /\ rows \subseteq RowRec /\ IsFiniteSet(rows)
  /\ \A r \in rows : r.id < nextId
  /\ \A r, s \in rows : r.id = s.id => r = s
  /\ edges \subseteq EdgeRec /\ IsFiniteSet(edges)
  /\ \A e \in edges : e.id < nextId /\ e.src # e.tgt /\ {e.src, e.tgt} \subseteq RowIds

\* Items are those of the job, one after the other; a step is one of the job's
\* kind and has what it is about.
InOrder(s) ==
  /\ s.pc # "idle" =>
       /\ s.job \in JobType /\ WellKeyed(s.job.items)
       /\ s.job.kind = "rename" => s.job.to \in Names
       /\ \A i \in DOMAIN s.items : \E k \in DOMAIN s.job.items : s.items[i] = s.job.items[k]
  /\ s.pc \in {"read", "read edges"} => s.job.kind = "reimport" /\ s.ids = <<>> /\ s.mem = {}
  /\ s.pc = "read" => s.saw = None
  /\ s.pc \in {"load", "change"} => s.job.kind \in Edits
  /\ s.pc \in {"merge", "load", "change"} => s.saw \in RowRec
  /\ s.pc \in {"insert", "merge"} => s.items # <<>>
  /\ s.pc = "insert edge" => s.links # <<>>

\* What a session has seen has been there.
Recent(s, next) ==
  /\ \A k \in DOMAIN s.ids : s.ids[k] < next
  /\ \A m \in s.mem : m.id < next
  /\ s.saw # None => s.saw.id < next
  /\ s.pc \in {"merge", "load", "change"} => s.saw.id < next

Session(s, next) == s \in SessionType /\ InOrder(s) /\ Recent(s, next)

Typed == /\ Tables
         /\ wk \in [Writers -> SessionType]
         /\ \A w \in Writers : Session(wk[w], nextId)

-----------------------------------------------------------------------------
(* Sequences, finite sets and functions. *)

LEMMA EmptyMap == <<>> \in KeyMaps /\ DOMAIN <<>> = {}
<1>1. <<>> \in [{} -> Ids]
  OBVIOUS
<1> QED  BY <1>1 DEF KeyMaps

LEMMA MoreKeys ==
  ASSUME NEW f \in KeyMaps, NEW k \in Keys, NEW i \in Ids
  PROVE  /\ With(f, k, i) \in KeyMaps
         /\ DOMAIN With(f, k, i) = DOMAIN f \cup {k} /\ With(f, k, i)[k] = i
         /\ \A x \in DOMAIN f : x # k => With(f, k, i)[x] = f[x]
<1>1. PICK K \in SUBSET Keys : f \in [K -> Ids]
  BY DEF KeyMaps
<1>2. With(f, k, i) \in [K \cup {k} -> Ids] /\ K \cup {k} \in SUBSET Keys
  BY <1>1 DEF With
<1> QED  BY <1>1, <1>2 DEF KeyMaps, With

LEMMA FirstKey ==
  ASSUME NEW k \in Keys, NEW i \in Ids
  PROVE  /\ With(<<>>, k, i) \in KeyMaps /\ DOMAIN With(<<>>, k, i) = {k}
         /\ With(<<>>, k, i)[k] = i
<1>1. DOMAIN With(<<>>, k, i) = {k} /\ With(<<>>, k, i) = [x \in {k} |-> i]
  BY DEF With
<1>2. With(<<>>, k, i) \in [{k} -> Ids] /\ {k} \in SUBSET Keys
  BY <1>1
<1> QED  BY <1>1, <1>2 DEF KeyMaps

LEMMA KeyOfMap ==
  ASSUME NEW f \in KeyMaps, NEW k \in DOMAIN f
  PROVE  k \in Keys /\ f[k] \in Ids
BY DEF KeyMaps

LEMMA HeadTail ==
  ASSUME NEW S, NEW q \in Seq(S), q # <<>>
  PROVE  /\ Head(q) \in S /\ Head(q) = q[1] /\ 1 \in DOMAIN q
         /\ Tail(q) \in Seq(S)
         /\ \A i \in DOMAIN Tail(q) : i + 1 \in DOMAIN q /\ Tail(q)[i] = q[i + 1]
BY HeadTailProperties

\* A finite set comes in some order.
LEMMA SeqOfSet ==
  ASSUME NEW S, IsFiniteSet(S)
  PROVE  /\ SetToSeq(S) \in Seq(S)
         /\ \A i \in DOMAIN SetToSeq(S) : SetToSeq(S)[i] \in S
<1> DEFINE n == Cardinality(S)
<1>1. n \in Nat /\ ExistsBijection(1 .. n, S)
  BY FS_CardinalityType
<1>2. \E f \in [1 .. n -> S] : IsInjective(f)
  BY <1>1 DEF ExistsBijection, Bijection, Injection
<1>3. SetToSeq(S) \in [1 .. n -> S]
  BY <1>2 DEF SetToSeq
<1> HIDE DEF n
<1> QED  BY <1>1, <1>3

LEMMA LargerOf ==
  ASSUME NEW a \in Int, NEW b \in Int
  PROVE  Max({a, b}) \in Int /\ Max({a, b}) = IF a >= b THEN a ELSE b
<1>1. \E x \in {a, b} : \A y \in {a, b} : x >= y
  OBVIOUS
<1> QED  BY <1>1 DEF Max

-----------------------------------------------------------------------------
(* Rows and what is written of them. *)

LEMMA NewRow ==
  ASSUME NEW i \in Ids, NEW item \in ItemType
  PROVE  Row(i, item) \in RowRec /\ Row(i, item).id = i /\ Row(i, item).name = item.name
BY DEF Row, RowRec, ItemType

LEMMA MergedType ==
  ASSUME NEW r \in RowRec, NEW item \in ItemType
  PROVE  /\ Merged(r, item) \in RowRec
         /\ Merged(r, item).id = r.id /\ Merged(r, item).name = r.name
         /\ Merged(r, item).props = Over(r.props, item.props)
         /\ Merged(r, item).weight = Max({r.weight, item.weight})
<1>1. /\ r.weight \in Int /\ item.weight \in Int
      /\ r.props \in SUBSET Props /\ item.props \in SUBSET Props
  BY DEF RowRec, ItemType
<1>2. Max({r.weight, item.weight}) \in Int
  BY <1>1, LargerOf
<1>3. Over(r.props, item.props) \in SUBSET Props
  BY <1>1 DEF Over
<1> QED  BY <1>1, <1>2, <1>3 DEF Merged, RowRec

LEMMA ChangedType ==
  ASSUME NEW r \in RowRec, NEW j \in JobType, j.kind \in Edits, j.kind # "delete",
         j.kind = "rename" => j.to \in Names
  PROVE  /\ Changed(j, r) \in RowRec /\ Changed(j, r).id = r.id
         /\ Changed(j, r).name # r.name => j.kind = "rename"
<1>1. CASE j.kind = "rename"
  BY <1>1 DEF Changed, RowRec
<1>2. CASE j.kind = "edit"
  <2>1. Changed(j, r) = [r EXCEPT !.props = {}, !.weight = 0]
    BY <1>2 DEF Changed
  <2>2. Changed(j, r) = [id |-> r.id, name |-> r.name, props |-> {}, weight |-> 0, icon |-> r.icon]
    BY <2>1 DEF RowRec
  <2> QED  BY <2>2 DEF RowRec
<1>3. CASE j.kind = "icon"
  BY <1>3 DEF Changed, RowRec
<1> QED  BY <1>1, <1>2, <1>3 DEF Edits

\* Of two copies of one row, what the loaded one does not differ in stays.
LEMMA WrittenType ==
  ASSUME NEW loaded \in RowRec, NEW wanted \in RowRec, NEW there \in RowRec,
         wanted.id = loaded.id
  PROVE  LET new == Written(loaded, wanted, there) IN
           /\ new \in RowRec /\ new.id = there.id
           /\ wanted.name = loaded.name => new.name = there.name
           /\ loaded = there => new = wanted
<1> DEFINE new == Written(loaded, wanted, there)
           pick(c) == IF wanted[c] = loaded[c] THEN there[c] ELSE wanted[c]
<1>1. DOMAIN wanted = {"id", "name", "props", "weight", "icon"}
  BY DEF RowRec
<1>2. new = [c \in {"id", "name", "props", "weight", "icon"} |-> pick(c)]
  BY <1>1 DEF Written
<1>3. new = [id |-> pick("id"), name |-> pick("name"), props |-> pick("props"),
             weight |-> pick("weight"), icon |-> pick("icon")]
  BY <1>2
<1>4. new \in RowRec
  BY <1>3 DEF RowRec
<1>5. new.id = there.id /\ (wanted.name = loaded.name => new.name = there.name)
  BY <1>3
<1>6. ASSUME loaded = there  PROVE new = wanted
  <2>1. \A c \in {"id", "name", "props", "weight", "icon"} : pick(c) = wanted[c]
    BY <1>6
  <2>2. wanted = [c \in {"id", "name", "props", "weight", "icon"} |-> wanted[c]]
    BY DEF RowRec
  <2> QED  BY <1>2, <2>1, <2>2
<1> QED  BY <1>4, <1>5, <1>6

-----------------------------------------------------------------------------
(* Sessions. *)

LEMMA IdleSession ==
  ASSUME NEW n \in Nat
  PROVE  Session(Idle, n)
<1>1. Idle \in SessionType
  BY EmptyMap DEF Idle, SessionType, Pcs
<1> QED  BY <1>1, EmptyMap DEF Session, Idle, InOrder, Recent

LEMMA LaterSession ==
  ASSUME NEW n \in Nat, NEW m \in Nat, n <= m, NEW s, Session(s, n)
  PROVE  Session(s, m)
<1>1. \A k \in DOMAIN s.ids : s.ids[k] \in Nat
  BY KeyOfMap DEF Session, SessionType, Ids
<1>2. (\A r \in s.mem : r.id \in Nat) /\ (s.saw # None => s.saw.id \in Nat)
  BY DEF Session, SessionType, RowRec, Ids
<1>3. s.pc \in {"merge", "load", "change"} => s.saw.id \in Nat
  <2>1. s.pc \in {"merge", "load", "change"} => s.saw \in RowRec
    BY DEF Session, InOrder
  <2> QED  BY <2>1 DEF RowRec, Ids
<1>4. Recent(s, n)
  BY DEF Session
<1>5. \A i \in Nat : i < n => i < m
  OBVIOUS
<1>6. Recent(s, m)
  <2>1. \A k \in DOMAIN s.ids : s.ids[k] < m
    BY <1>1, <1>4, <1>5 DEF Recent
  <2>2. (\A r \in s.mem : r.id < m) /\ (s.saw # None => s.saw.id < m)
    BY <1>2, <1>4, <1>5 DEF Recent
  <2>3. s.pc \in {"merge", "load", "change"} => s.saw.id < m
    BY <1>3, <1>4, <1>5 DEF Recent
  <2> QED  BY <2>1, <2>2, <2>3 DEF Recent
<1> QED  BY <1>6 DEF Session

\* One session goes on, and the others have what they had.
LEMMA SetTyped ==
  ASSUME Typed, Tables', NEW w \in Writers, NEW t, wk' = [wk EXCEPT ![w] = t],
         nextId <= nextId', Session(t, nextId')
  PROVE  Typed'
<1>1. wk' \in [Writers -> SessionType]
  BY DEF Typed, Session
<1>2. ASSUME NEW v \in Writers  PROVE Session(wk'[v], nextId')
  <2>1. CASE v = w
    BY <2>1 DEF Typed
  <2>2. CASE v # w
    BY <2>2, LaterSession DEF Typed, Tables
  <2> QED  BY <2>1, <2>2
<1> QED  BY <1>1, <1>2 DEF Typed

LEMMA StepTyped ==
  ASSUME Typed, Tables', NEW w \in Writers, NEW t, Set(w, t),
         nextId <= nextId', Session(t, nextId')
  PROVE  Typed'
BY SetTyped DEF Set

LEMMA EndTyped ==
  ASSUME Typed, Tables', NEW w \in Writers, End(w), nextId <= nextId'
  PROVE  Typed'
<1>1. Session(Idle, nextId')
  BY IdleSession DEF Tables
<1> QED  BY <1>1, StepTyped DEF End

LEMMA NextInOrder ==
  ASSUME NEW s, InOrder(s), s.pc # "idle", NEW t, t.pc = "next", t.job = s.job,
         \A i \in DOMAIN t.items : \E k \in DOMAIN s.job.items : t.items[i] = s.job.items[k]
  PROVE  InOrder(t)
<1>1. /\ t.pc \notin {"read", "read edges"} /\ t.pc \notin {"load", "change"}
      /\ t.pc \notin {"merge", "load", "change"} /\ t.pc \notin {"insert", "merge"}
      /\ t.pc # "insert edge" /\ t.pc # "read"
  OBVIOUS
<1>2. /\ s.job \in JobType /\ WellKeyed(s.job.items)
      /\ s.job.kind = "rename" => s.job.to \in Names
  BY DEF InOrder
<1> QED  BY <1>1, <1>2 DEF InOrder

LEMMA SkipSession ==
  ASSUME NEW n \in Nat, NEW s, Session(s, n), s.pc # "idle", s.items # <<>>
  PROVE  Session([s EXCEPT !.pc = "next", !.items = Tail(@)], n)
<1> DEFINE t == [s EXCEPT !.pc = "next", !.items = Tail(@)]
<1>1. Tail(s.items) \in Seq(ItemType)
  BY HeadTail DEF Session, SessionType
<1>2. t \in SessionType
  BY <1>1 DEF Session, SessionType, Pcs
<1>3. s.items \in Seq(ItemType)
  BY DEF Session, SessionType
<1>4. \A i \in DOMAIN Tail(s.items) : \E k \in DOMAIN s.job.items : Tail(s.items)[i] = s.job.items[k]
  <2>1. \A i \in DOMAIN Tail(s.items) : i + 1 \in DOMAIN s.items /\ Tail(s.items)[i] = s.items[i + 1]
    BY <1>3, HeadTail
  <2> QED  BY <2>1 DEF Session, InOrder
<1>6. t.pc = "next" /\ t.job = s.job /\ t.items = Tail(s.items)
  BY DEF Session, SessionType
<1>7. InOrder(t)
  <2>1. \A i \in DOMAIN t.items : \E k \in DOMAIN s.job.items : t.items[i] = s.job.items[k]
    BY <1>4, <1>6
  <2> HIDE DEF t
  <2>2. InOrder(s)
    BY DEF Session
  <2> QED  BY <1>6, <2>1, <2>2, NextInOrder
<1>5. Recent(t, n)
  BY DEF Session, SessionType, Recent
<1> QED  BY <1>2, <1>5, <1>7 DEF Session

\* An item has its row, and the session remembers it.
LEMMA StoredSession ==
  ASSUME NEW n \in Nat, NEW s, Session(s, n), s.pc # "idle", s.items # <<>>,
         NEW r \in RowRec, r.id < n
  PROVE  Session([s EXCEPT !.pc = "next", !.items = Tail(@),
                           !.ids = With(@, Head(s.items).key, r.id),
                           !.mem = {m \in @ : m.id # r.id} \cup {r}], n)
<1> DEFINE u == [s EXCEPT !.pc = "next", !.items = Tail(@)]
           key == Head(s.items).key
           ids == With(s.ids, key, r.id)
           mem == {m \in s.mem : m.id # r.id} \cup {r}
           t == [s EXCEPT !.pc = "next", !.items = Tail(@),
                           !.ids = With(@, Head(s.items).key, r.id),
                           !.mem = {m \in @ : m.id # r.id} \cup {r}]
<1>1. Session(u, n)
  BY SkipSession
<1>2. key \in Keys /\ r.id \in Ids /\ s.ids \in KeyMaps
  <2>1. Head(s.items) \in ItemType /\ s.ids \in KeyMaps
    BY HeadTail DEF Session, SessionType
  <2> QED  BY <2>1 DEF ItemType, RowRec
<1>3. ids \in KeyMaps /\ DOMAIN ids = DOMAIN s.ids \cup {key} /\ ids[key] = r.id
      /\ \A x \in DOMAIN s.ids : x # key => ids[x] = s.ids[x]
  <2> HIDE DEF key
  <2>1. \A f \in KeyMaps, k \in Keys, i \in Ids :
          /\ With(f, k, i) \in KeyMaps
          /\ DOMAIN With(f, k, i) = DOMAIN f \cup {k} /\ With(f, k, i)[k] = i
          /\ \A x \in DOMAIN f : x # k => With(f, k, i)[x] = f[x]
    BY MoreKeys
  <2> QED  BY ONLY <1>2, <2>1 DEF ids
<1>4. mem \in SUBSET RowRec /\ \A m \in mem : m.id < n
  BY DEF Session, SessionType, Recent
<1>5. \A k \in DOMAIN ids : ids[k] < n
  BY <1>3 DEF Session, Recent
<1> HIDE DEF ids, mem
<1>6. t = [[u EXCEPT !.ids = ids] EXCEPT !.mem = mem]
  BY DEF Session, SessionType, ids, mem
<1>7. t \in SessionType
  BY <1>1, <1>3, <1>4, <1>6 DEF Session, SessionType
<1>8. /\ t.pc = "next" /\ t.job = u.job /\ t.items = u.items
      /\ t.ids = ids /\ t.mem = mem /\ t.saw = u.saw /\ u.pc = "next"
  BY <1>1, <1>6 DEF Session, SessionType
<1>9. InOrder(t)
  <2> HIDE DEF t, u
  <2>1. /\ InOrder(u) /\ u.pc # "idle"
        /\ \A i \in DOMAIN u.items : \E k \in DOMAIN u.job.items : u.items[i] = u.job.items[k]
    BY <1>1, <1>8 DEF Session, InOrder
  <2> QED  BY <1>8, <2>1, NextInOrder
<1>10. Recent(t, n)
  BY <1>1, <1>4, <1>5, <1>8 DEF Session, Recent
<1> QED  BY <1>7, <1>9, <1>10 DEF Session

\* A session goes to another step that needs no more than it has.
LEMMA StepSession ==
  ASSUME NEW n \in Nat, NEW s, Session(s, n), s.pc # "idle",
         NEW pc \in {"next", "insert", "insert edge", "done"},
         pc = "insert" => s.items # <<>>, pc = "insert edge" => s.links # <<>>
  PROVE  Session([s EXCEPT !.pc = pc], n)
<1>1. [s EXCEPT !.pc = pc] \in SessionType
  BY DEF Session, SessionType, Pcs
<1>2. InOrder([s EXCEPT !.pc = pc])
  BY DEF Session, SessionType, InOrder
<1>3. Recent([s EXCEPT !.pc = pc], n)
  BY DEF Session, SessionType, Recent
<1> QED  BY <1>1, <1>2, <1>3 DEF Session

LEMMA LinkSession ==
  ASSUME NEW n \in Nat, NEW s, Session(s, n), s.pc # "idle", s.links # <<>>
  PROVE  Session([s EXCEPT !.pc = "next", !.links = Tail(@)], n)
<1> DEFINE t == [s EXCEPT !.pc = "next", !.links = Tail(@)]
<1>1. Tail(s.links) \in Seq(LinkType)
  BY HeadTail DEF Session, SessionType
<1>2. t \in SessionType
  BY <1>1 DEF Session, SessionType, Pcs
<1>3. InOrder(t)
  BY DEF Session, SessionType, InOrder
<1>4. Recent(t, n)
  BY DEF Session, SessionType, Recent
<1> QED  BY <1>2, <1>3, <1>4 DEF Session

\* A session has loaded a row that it is to merge into or to change.
LEMMA SawSession ==
  ASSUME NEW n \in Nat, NEW s, Session(s, n), NEW pc \in {"merge", "change"},
         s.pc = IF pc = "merge" THEN "next" ELSE "load",
         pc = "merge" => s.items # <<>>,
         NEW r \in RowRec, r.id < n, NEW mem, mem = s.mem \/ mem = s.mem \cup {r}
  PROVE  Session([s EXCEPT !.pc = pc, !.saw = r, !.mem = mem], n)
<1> DEFINE t == [s EXCEPT !.pc = pc, !.saw = r, !.mem = mem]
<1>1. mem \in SUBSET RowRec /\ \A m \in mem : m.id < n
  BY DEF Session, SessionType, Recent
<1>2. t \in SessionType
  BY <1>1 DEF Session, SessionType, Pcs
<1>3. InOrder(t)
  BY DEF Session, SessionType, InOrder
<1>4. Recent(t, n)
  BY <1>1 DEF Session, SessionType, Recent
<1> QED  BY <1>2, <1>3, <1>4 DEF Session

-----------------------------------------------------------------------------
(* The tables. *)

LEMMA RowOfId ==
  ASSUME Tables, NEW id \in RowIds
  PROVE  RowOf(id) \in rows /\ RowOf(id).id = id /\ \A r \in rows : r.id = id => r = RowOf(id)
<1>1. \E r \in rows : r.id = id
  BY DEF RowIds
<1> QED  BY <1>1 DEF RowOf, Tables

LEMMA SameTables ==
  ASSUME Tables, UNCHANGED <<rows, edges, nextId>>
  PROVE  Tables'
BY DEF Tables, RowIds

\* A row is written again: its identity stays.
LEMMA ReplaceRows ==
  ASSUME Tables, NEW id \in RowIds, NEW new \in RowRec, new.id = id, Replace(id, new)
  PROVE  /\ rows' \subseteq RowRec /\ IsFiniteSet(rows') /\ RowIds' = RowIds
         /\ \A r \in rows' : r.id < nextId
         /\ \A r, s \in rows' : r.id = s.id => r = s
         /\ \A r \in rows' : r = new \/ (r \in rows /\ r.id # id)
<1> DEFINE kept == {r \in rows : r.id # id}
<1>1. rows' = kept \cup {new}
  BY DEF Replace
<1>2. IsFiniteSet(kept)
  BY FS_Subset DEF Tables
<1>3. IsFiniteSet(rows')
  BY <1>1, <1>2, FS_AddElement
<1>4. id < nextId
  BY DEF Tables, RowIds
<1>5. RowIds' = RowIds
  BY <1>1 DEF RowIds
<1> QED  BY <1>1, <1>3, <1>4, <1>5 DEF Tables

LEMMA ReplaceTables ==
  ASSUME Tables, NEW id \in RowIds, NEW new \in RowRec, new.id = id, Replace(id, new),
         UNCHANGED <<edges, nextId>>
  PROVE  Tables'
<1>1. /\ rows' \subseteq RowRec /\ IsFiniteSet(rows') /\ RowIds' = RowIds
      /\ \A r \in rows' : r.id < nextId
      /\ \A r, s \in rows' : r.id = s.id => r = s
  BY ReplaceRows
<1> QED  BY <1>1 DEF Tables

LEMMA InsertTables ==
  ASSUME Tables, nextId <= MaxIds, NEW item \in ItemType,
         rows' = rows \cup {Row(nextId, item)}, nextId' = nextId + 1,
         edges' = edges
  PROVE  Tables'
<1>1. nextId \in Ids
  BY EntityStoreAssumption DEF Tables, Ids
<1>2. Row(nextId, item) \in RowRec /\ Row(nextId, item).id = nextId
  BY <1>1, NewRow
<1>3. IsFiniteSet(rows')
  BY FS_AddElement DEF Tables
<1>4. \A r \in rows : r.id \in Nat /\ r.id < nextId
  BY DEF Tables, RowRec, Ids
<1>5. \A r, s \in rows' : r.id = s.id => r = s
  BY <1>2, <1>4 DEF Tables
<1>6. RowIds \subseteq RowIds'
  BY DEF RowIds
<1>7. \A e \in edges : e.id \in Nat
  BY DEF Tables, EdgeRec, Ids
<1> QED  BY <1>2, <1>3, <1>4, <1>5, <1>6, <1>7 DEF Tables

LEMMA InsertEdgeTables ==
  ASSUME Tables, nextId <= MaxIds, NEW e \in EdgeRec, e.id = nextId, e.src # e.tgt,
         {e.src, e.tgt} \subseteq RowIds, edges' = edges \cup {e}, nextId' = nextId + 1,
         rows' = rows
  PROVE  Tables'
<1>1. IsFiniteSet(edges')
  BY FS_AddElement DEF Tables
<1>2. \A r \in rows : r.id \in Nat
  BY DEF Tables, RowRec, Ids
<1>3. \A d \in edges : d.id \in Nat
  BY DEF Tables, EdgeRec, Ids
<1> QED  BY <1>1, <1>2, <1>3 DEF Tables, RowIds

LEMMA DeleteTables ==
  ASSUME Tables, NEW id, rows' = {r \in rows : r.id # id},
         edges' = {e \in edges : id \notin {e.src, e.tgt}}, nextId' = nextId
  PROVE  Tables'
<1>1. IsFiniteSet(rows') /\ IsFiniteSet(edges')
  BY FS_Subset DEF Tables
<1>2. \A i \in RowIds : i # id => i \in RowIds'
  BY DEF RowIds
<1>3. \A e \in edges' : {e.src, e.tgt} \subseteq RowIds'
  BY <1>2 DEF Tables
<1> QED  BY <1>1, <1>3 DEF Tables

-----------------------------------------------------------------------------
(* Every step keeps the types. *)

LEMMA InitTyped == Init => Typed
<1> SUFFICES ASSUME Init PROVE Typed
  OBVIOUS
<1>1. PICK n \in Names, p \in Props : rows = {Row(1, Item(n, n, {p}, 1))}
  BY DEF Init
<1>2. 1 \in Ids /\ Item(n, n, {p}, 1) \in ItemType
  BY EntityStoreAssumption DEF Ids, Item, ItemType, Keys
<1>3. Row(1, Item(n, n, {p}, 1)) \in RowRec /\ Row(1, Item(n, n, {p}, 1)).id = 1
  BY <1>2, NewRow
<1>4. IsFiniteSet(rows) /\ IsFiniteSet(edges)
  BY <1>1, FS_Singleton, FS_EmptySet DEF Init
<1>5. Tables
  <2>1. PICK r \in RowRec : rows = {r} /\ r.id = 1
    BY <1>1, <1>3
  <2>2. edges = {} /\ nextId = 2
    BY DEF Init
  <2> QED  BY <1>4, <2>1, <2>2 DEF Tables
<1>6. Session(Idle, 2)
  BY IdleSession
<1> QED  BY <1>5, <1>6 DEF Typed, Init, Session

LEMMA BusyJob ==
  ASSUME Typed, NEW w \in Writers, wk[w].pc # "idle"
  PROVE  /\ wk[w].job \in JobType /\ WellKeyed(wk[w].job.items)
         /\ Session(wk[w], nextId)
BY DEF Typed, Session, InOrder

LEMMA JobFacts ==
  ASSUME NEW j \in Jobs
  PROVE  /\ j \in JobType /\ WellKeyed(j.items)
         /\ j.kind = "rename" => j.to \in Names
BY JobsAssumption

LEMMA BeginSession ==
  ASSUME Tables, NEW j \in Jobs, NEW at \in rows \cup {None},
         j.kind \in Imports => at = None, j.kind \notin Imports => at \in rows,
         NEW solo \in BOOLEAN
  PROVE  Session(Opened(j, at, solo), nextId)
<1> DEFINE ids == IF j.kind \in Imports THEN <<>> ELSE With(<<>>, at.name, at.id)
           mem == IF j.kind = "direct" THEN {at} ELSE {}
           pc == Start(j)
           t == Opened(j, at, solo)
<1> HIDE DEF t
<1>1. /\ j \in JobType /\ WellKeyed(j.items)
      /\ j.kind = "rename" => j.to \in Names
  BY JobFacts
<1>2. /\ pc \in {"read", "load", "next"}
      /\ pc = "read" => j.kind = "reimport"
      /\ pc = "load" => j.kind \in Edits
  BY DEF Start, Edits
<1>3. at \in rows => at \in RowRec /\ at.name \in Keys /\ at.id \in Ids /\ at.id < nextId
  BY DEF Tables, RowRec, Keys
<1>4. ids \in KeyMaps /\ \A k \in DOMAIN ids : ids[k] < nextId
  <2>1. CASE j.kind \in Imports
    BY <2>1, EmptyMap
  <2>2. CASE j.kind \notin Imports
    <3>1. at.name \in Keys /\ at.id \in Ids /\ at.id < nextId
      BY <1>3, <2>2
    <3>2. /\ With(<<>>, at.name, at.id) \in KeyMaps
          /\ DOMAIN With(<<>>, at.name, at.id) = {at.name}
          /\ With(<<>>, at.name, at.id)[at.name] = at.id
      BY <3>1, FirstKey
    <3>3. ids = With(<<>>, at.name, at.id)
      BY <2>2
    <3> HIDE DEF ids
    <3>4. ids \in KeyMaps /\ DOMAIN ids = {at.name} /\ ids[at.name] = at.id
      BY <3>2, <3>3
    <3> QED  BY <3>1, <3>4
  <2> QED  BY <2>1, <2>2
<1>5. mem \in SUBSET RowRec /\ \A m \in mem : m.id < nextId
  BY <1>3 DEF Imports
<1>6. j.kind = "reimport" => at = None /\ ids = <<>> /\ mem = {}
  BY DEF Imports
<1>7. t = [pc |-> pc, job |-> j, items |-> j.items, links |-> j.links, ids |-> ids, mem |-> mem,
           saw |-> at, solo |-> solo, was |-> <<rows, edges>>]
  BY DEF Opened, t
<1> HIDE DEF ids, mem, pc
<1>8. /\ j.items \in Seq(ItemType) /\ j.links \in Seq(LinkType)
      /\ <<rows, edges>> \in (SUBSET RowRec) \X (SUBSET EdgeRec)
  BY <1>1 DEF JobType, Tables
<1>9. t \in SessionType
  BY <1>1, <1>2, <1>3, <1>4, <1>5, <1>7, <1>8 DEF SessionType, Pcs
<1>10. InOrder(t)
  <2>1. \A i \in DOMAIN t.items : \E k \in DOMAIN t.job.items : t.items[i] = t.job.items[k]
    BY <1>7
  <2>2. t.pc \in {"load", "change"} => t.job.kind \in Edits /\ t.saw \in RowRec
    BY <1>2, <1>3, <1>7 DEF Imports, Edits
  <2>3. t.pc \in {"read", "read edges"} => t.job.kind = "reimport" /\ t.ids = <<>> /\ t.mem = {} /\ t.saw = None
    BY <1>2, <1>6, <1>7
  <2>4. t.pc \in {"read", "load", "next"} /\ t.job = j
    BY <1>2, <1>7
  <2> QED  BY <1>1, <2>1, <2>2, <2>3, <2>4 DEF InOrder
<1>11. Recent(t, nextId)
  <2>1. t.pc \in {"merge", "load", "change"} => t.saw.id < nextId
    BY <1>2, <1>3, <1>7 DEF Imports, Edits
  <2> QED  BY <1>3, <1>4, <1>5, <1>7, <2>1 DEF Recent
<1> QED  BY <1>9, <1>10, <1>11 DEF Session, t

LEMMA NotAloneSession ==
  ASSUME NEW n \in Nat, NEW s, Session(s, n)
  PROVE  Session([s EXCEPT !.solo = FALSE], n)
<1> DEFINE t == [s EXCEPT !.solo = FALSE]
<1>1. t \in SessionType
  BY DEF Session, SessionType
<1>2. /\ t.pc = s.pc /\ t.job = s.job /\ t.items = s.items /\ t.links = s.links
      /\ t.ids = s.ids /\ t.mem = s.mem /\ t.saw = s.saw
  BY DEF Session, SessionType
<1> HIDE DEF t
<1>3. InOrder(t) /\ Recent(t, n)
  BY <1>2 DEF Session, InOrder, Recent
<1> QED  BY <1>1, <1>3 DEF Session, t

LEMMA BeginTyped ==
  ASSUME Typed, NEW w \in Writers, NEW j \in Jobs, Begin(w, j)
  PROVE  Typed'
<1>1. PICK at \in IF j.kind \in Imports THEN {None} ELSE rows :
        wk' = [v \in Writers |-> IF v = w THEN Opened(j, at, {u \in Writers : Busy(u)} = {})
                                 ELSE [wk[v] EXCEPT !.solo = FALSE]]
  BY DEF Begin
<1>2. Tables'
  BY SameTables DEF Begin, Typed
<1>3. nextId' = nextId /\ nextId \in Nat
  BY DEF Begin, Typed, Tables
<1> DEFINE alone == ({u \in Writers : Busy(u)} = {})
<1>4. alone \in BOOLEAN
  OBVIOUS
<1> HIDE DEF alone
<1>5. Session(Opened(j, at, alone), nextId)
  BY <1>1, <1>4, BeginSession DEF Typed
<1>6. \A v \in Writers : Session([wk[v] EXCEPT !.solo = FALSE], nextId)
  BY <1>3, NotAloneSession DEF Typed
<1>7. wk' = [v \in Writers |-> IF v = w THEN Opened(j, at, alone) ELSE [wk[v] EXCEPT !.solo = FALSE]]
  BY <1>1 DEF alone
<1>8. \A v \in Writers : Session(wk'[v], nextId')
  BY <1>3, <1>5, <1>6, <1>7
<1>9. wk' \in [Writers -> SessionType]
  BY <1>3, <1>5, <1>6, <1>7 DEF Session
<1> QED  BY <1>2, <1>8, <1>9 DEF Typed

\* The file of an export has an item for each row, numbered by its identity.
LEMMA FileItems ==
  ASSUME Tables, NEW format
  PROVE  LET file == SetToSeq({Payload(r, format) : r \in rows}) IN
           /\ file \in Seq(ItemType) /\ WellKeyed(file)
           /\ \A i \in DOMAIN file : \E r \in rows : file[i] = Payload(r, format)
<1> DEFINE S == {Payload(r, format) : r \in rows}
           file == SetToSeq(S)
<1>1. \A r \in rows : Payload(r, format) \in ItemType
  <2> SUFFICES ASSUME NEW r \in rows  PROVE Payload(r, format) \in ItemType
    OBVIOUS
  <2>1. r \in RowRec /\ IdText[r.id] \in STRING
    BY IdTextAssumption DEF Tables, RowRec
  <2>2. Stripped[r.name] \in Names /\ WeightRead(format, r.weight) \in Int
    BY <2>1, EntityStoreAssumption DEF RowRec, WeightRead
  <2> QED  BY <2>1, <2>2 DEF Payload, Item, ItemType, Keys, RowRec
<1>2. IsFiniteSet(S)
  <2> DEFINE f == [r \in rows |-> Payload(r, format)]
  <2>1. f \in Surjection(rows, S)
    BY DEF Surjection
  <2> QED  BY <2>1, FS_Surjection DEF Tables, ExistsSurjection
<1>3. /\ file \in Seq(S)
      /\ \A i \in DOMAIN file : file[i] \in S
  BY <1>2, SeqOfSet
<1>4. S \subseteq ItemType
  BY <1>1
<1>5. file \in Seq(ItemType)
  BY <1>3, <1>4
<1>6. \A i \in DOMAIN file : \E r \in rows : file[i] = Payload(r, format)
  BY <1>3
<1>7. \A r \in rows : r.id \in Ids /\ Payload(r, format).key = IdText[r.id]
  BY DEF Tables, RowRec, Payload, Item
<1> HIDE DEF S, file
<1>8. WellKeyed(file)
  <2> SUFFICES ASSUME NEW i \in DOMAIN file, NEW k \in DOMAIN file
               PROVE  /\ file[i].key = file[k].key => file[i].name = file[k].name
                      /\ file[i].key \in Names => file[i].key = file[i].name
    BY DEF WellKeyed
  <2>1. PICK r \in rows : file[i] = Payload(r, format)
    BY <1>6
  <2>2. PICK s \in rows : file[k] = Payload(s, format)
    BY <1>6
  <2>3. file[i].key = file[k].key => r = s
    BY <1>7, <2>1, <2>2, IdTextAssumption DEF Tables
  <2> QED  BY <1>7, <2>1, <2>2, <2>3, IdTextAssumption
<1> QED  BY <1>5, <1>6, <1>8 DEF file, S

LEMMA ReadEntitiesTyped ==
  ASSUME Typed, NEW w \in Writers, ReadEntities(w)
  PROVE  Typed'
<1> DEFINE s == wk[w]
           file == SetToSeq({Payload(r, s.job.format) : r \in rows})
           t == [s EXCEPT !.pc = "read edges", !.items = file, !.job.items = file]
<1>1. s.pc = "read" /\ wk' = [wk EXCEPT ![w] = t]
  BY DEF ReadEntities, Set
<1>2. Tables'
  BY SameTables DEF ReadEntities, Typed, history
<1>3. /\ s.job \in JobType /\ Session(s, nextId)
      /\ s.job.kind = "reimport" /\ s.ids = <<>> /\ s.mem = {} /\ s.saw = None
  BY <1>1, BusyJob DEF Session, InOrder
<1>4. file \in Seq(ItemType) /\ WellKeyed(file)
  BY FileItems DEF Typed
<1> HIDE DEF file
<1> DEFINE job == [s.job EXCEPT !.items = file]
<1>5. job \in JobType /\ job.items = file /\ job.kind = "reimport"
  BY <1>3, <1>4 DEF JobType
<1>6. /\ t.pc = "read edges" /\ t.items = file /\ t.job = job
      /\ t.ids = <<>> /\ t.mem = {} /\ t.saw = s.saw
  BY <1>3 DEF Session, SessionType
<1>7. t \in SessionType
  BY <1>3, <1>4, <1>5 DEF Session, SessionType, Pcs
<1> HIDE DEF t, job
<1>8. InOrder(t)
  BY <1>4, <1>5, <1>6 DEF InOrder
<1>9. Recent(t, nextId)
  BY <1>3, <1>6, EmptyMap DEF Session, Recent
<1>10. nextId' = nextId
  BY DEF ReadEntities
<1> QED  BY <1>1, <1>2, <1>7, <1>8, <1>9, <1>10, SetTyped DEF Session, Typed, Tables

LEMMA ReadEdgesTyped ==
  ASSUME Typed, NEW w \in Writers, ReadEdges(w)
  PROVE  Typed'
<1> DEFINE s == wk[w]
           taken == IF s.job.format = "csv" THEN {} ELSE edges
           Text(e) == Link(IdText[e.src], IdText[e.tgt], LabelRead(s.job.format, e.label))
           S == {Text(e) : e \in taken}
           t == [s EXCEPT !.pc = "next", !.links = SetToSeq(S)]
<1>1. s.pc = "read edges" /\ wk' = [wk EXCEPT ![w] = t]
  BY DEF ReadEdges, Set
<1>2. Tables'
  BY SameTables DEF ReadEdges, Typed, history
<1>3. \A e \in edges : Text(e) \in LinkType
  BY EntityStoreAssumption, IdTextAssumption
    DEF Typed, Tables, EdgeRec, Link, LinkType, LabelRead, Keys
<1>4. IsFiniteSet(taken) /\ taken \subseteq edges
  BY FS_EmptySet DEF Typed, Tables
<1>5. IsFiniteSet(S)
  <2> DEFINE f == [e \in taken |-> Text(e)]
  <2>1. f \in Surjection(taken, S)
    BY DEF Surjection
  <2> QED  BY <1>4, <2>1, FS_Surjection
<1>6. S \subseteq LinkType
  BY <1>3, <1>4
<1>7. SetToSeq(S) \in Seq(LinkType)
  <2> HIDE DEF S
  <2> QED  BY <1>5, <1>6, SeqOfSet
<1>8. Session(s, nextId) /\ s.pc # "idle"
  BY <1>1 DEF Typed
<1> HIDE DEF S
<1>9. t \in SessionType
  BY <1>7, <1>8 DEF Session, SessionType, Pcs
<1>10. InOrder(t)
  BY <1>8 DEF Session, SessionType, InOrder
<1>11. Recent(t, nextId)
  BY <1>8 DEF Session, SessionType, Recent
<1>12. nextId' = nextId
  BY DEF ReadEdges
<1> QED  BY <1>1, <1>2, <1>9, <1>10, <1>11, <1>12, SetTyped DEF Session, Typed, Tables

LEMMA OneFound ==
  ASSUME Tables, NEW n, Cardinality(Named(n)) = 1
  PROVE  \E r \in rows : Named(n) = {r} /\ r.name = n
<1>1. IsFiniteSet(Named(n))
  BY FS_Subset DEF Tables, Named
<1>2. \E r : Named(n) = {r}
  BY <1>1, FS_Singleton
<1> QED  BY <1>2 DEF Named

LEMMA RememberedRow ==
  ASSUME Typed, NEW w \in Writers, NEW r \in rows
  PROVE  /\ Remembered(w, r) \in RowRec /\ Remembered(w, r).id = r.id
         /\ Remembered(w, r) \in wk[w].mem \cup {r}
<1>1. wk[w].mem \subseteq RowRec /\ r \in RowRec
  BY DEF Typed, SessionType, Tables
<1> QED  BY <1>1 DEF Remembered

LEMMA FindEntityTyped ==
  ASSUME Typed, NEW w \in Writers, FindEntity(w)
  PROVE  Typed'
<1> DEFINE s == wk[w]
           found == Named(Head(s.items).name)
<1>1. s.pc = "next" /\ s.items # <<>> /\ Session(s, nextId)
  BY DEF FindEntity, Typed
<1>2. Tables' /\ nextId' = nextId /\ nextId \in Nat /\ nextId <= nextId'
  <2>1. UNCHANGED <<rows, edges, nextId>> /\ Tables
    BY DEF FindEntity, Typed, history
  <2>2. Tables'
    BY <2>1, SameTables
  <2> QED  BY <2>1, <2>2 DEF Tables
<1>3. CASE Set(w, [s EXCEPT !.pc = "insert"])
  <2>1. Session([s EXCEPT !.pc = "insert"], nextId)
    BY <1>1, <1>2, StepSession
  <2> QED  BY <1>2, <1>3, <2>1, StepTyped
<1>4. CASE Cardinality(found) = 1 /\ \E r \in found : Stored(w, r)
  <2>1. PICK r \in rows : Stored(w, r)
    BY <1>4 DEF Named
  <2>2. r \in RowRec /\ r.id < nextId
    BY DEF Typed, Tables
  <2> DEFINE t == [s EXCEPT !.pc = "next", !.items = Tail(@),
                            !.ids = With(@, Head(s.items).key, r.id),
                            !.mem = {m \in @ : m.id # r.id} \cup {r}]
  <2>3. Session(t, nextId)
    BY <1>1, <1>2, <2>2, StoredSession
  <2>4. Set(w, t)
    BY <2>1 DEF Stored
  <2> HIDE DEF t
  <2> QED  BY <1>2, <2>3, <2>4, StepTyped
<1>5. CASE \E r \in found : Set(w, [s EXCEPT !.pc = "merge", !.saw = Remembered(w, r),
                                             !.mem = @ \cup {Remembered(w, r)}])
  <2>1. PICK r \in rows : Set(w, [s EXCEPT !.pc = "merge", !.saw = Remembered(w, r),
                                           !.mem = @ \cup {Remembered(w, r)}])
    BY <1>5 DEF Named
  <2> DEFINE m == Remembered(w, r)
             mem == s.mem \cup {m}
             t == [s EXCEPT !.pc = "merge", !.saw = m, !.mem = mem]
  <2>2. m \in RowRec /\ m.id < nextId
    BY RememberedRow DEF Typed, Tables
  <2>3. Set(w, t)
    BY <2>1
  <2>4. Session(t, nextId)
    <3> HIDE DEF m
    <3>1. mem = s.mem \/ mem = s.mem \cup {m}
      OBVIOUS
    <3> HIDE DEF mem
    <3> QED  BY <1>1, <1>2, <2>2, <3>1, SawSession
  <2> HIDE DEF t
  <2> QED  BY <1>2, <2>3, <2>4, StepTyped
<1>6. CASE SkipItem(w)
  <2>1. CASE Set(w, [s EXCEPT !.pc = "next", !.items = Tail(@)])
    <3>1. Session([s EXCEPT !.pc = "next", !.items = Tail(@)], nextId)
      BY <1>1, <1>2, SkipSession
    <3> QED  BY <1>2, <2>1, <3>1, StepTyped
  <2>2. CASE End(w)
    BY <1>2, <2>2, EndTyped
  <2> QED  BY <1>6, <2>1, <2>2 DEF SkipItem
<1> QED  BY <1>3, <1>4, <1>5, <1>6 DEF FindEntity

LEMMA ItemAtHand ==
  ASSUME Typed, NEW w \in Writers, wk[w].items # <<>>
  PROVE  Head(wk[w].items) \in ItemType
BY HeadTail DEF Typed, SessionType

LEMMA InsertEntityTyped ==
  ASSUME Typed, NEW w \in Writers, InsertEntity(w)
  PROVE  Typed'
<1> DEFINE s == wk[w]
           item == Head(s.items)
           r == Row(nextId, item)
<1>1. s.pc = "insert" /\ s.items # <<>> /\ Session(s, nextId) /\ item \in ItemType
  BY ItemAtHand DEF InsertEntity, Typed, Session, InOrder
<1>2. nextId \in Ids /\ nextId' = nextId + 1 /\ nextId <= MaxIds /\ nextId \in Nat
  BY EntityStoreAssumption DEF InsertEntity, Typed, Tables, Ids
<1> HIDE DEF item
<1>3. r \in RowRec /\ r.id = nextId
  BY <1>1, <1>2, NewRow
<1>5. Tables'
  <2>1. rows' = rows \cup {r} /\ edges' = edges
    BY DEF InsertEntity, item
  <2> QED  BY <1>1, <1>2, <2>1, InsertTables DEF Typed
<1>6. Stored(w, r)
  BY DEF InsertEntity, item
<1>7. Session(s, nextId')
  BY <1>1, <1>2, LaterSession
<1> HIDE DEF r
<1> DEFINE t == [s EXCEPT !.pc = "next", !.items = Tail(@),
                          !.ids = With(@, Head(s.items).key, r.id),
                          !.mem = {m \in @ : m.id # r.id} \cup {r}]
<1>8. r.id < nextId' /\ nextId' \in Nat /\ nextId <= nextId'
  BY <1>2, <1>3
<1>9. Session(t, nextId')
  BY <1>1, <1>3, <1>7, <1>8, StoredSession
<1>10. Set(w, t)
  BY <1>6 DEF Stored
<1> HIDE DEF t
<1> QED  BY <1>5, <1>8, <1>9, <1>10, StepTyped

\* What a merge and a change write is a row with the same identity.
LEMMA MergeWrites ==
  ASSUME Typed, NEW w \in Writers, wk[w].pc = "merge", wk[w].saw.id \in RowIds
  PROVE  LET new == Written(wk[w].saw, Merged(wk[w].saw, Head(wk[w].items)), RowOf(wk[w].saw.id)) IN
           /\ new \in RowRec /\ new.id = wk[w].saw.id
           /\ new.name = RowOf(wk[w].saw.id).name
           /\ wk[w].saw = RowOf(wk[w].saw.id) => new = Merged(wk[w].saw, Head(wk[w].items))
<1> DEFINE saw == wk[w].saw
           item == Head(wk[w].items)
           there == RowOf(saw.id)
           wanted == Merged(saw, item)
<1>1. saw \in RowRec /\ wk[w].items # <<>>
  BY DEF Typed, Session, InOrder
<1>2. item \in ItemType
  BY <1>1, ItemAtHand
<1>3. there \in RowRec /\ there.id = saw.id
  BY RowOfId DEF Typed, Tables
<1> HIDE DEF saw, item, there
<1>4. wanted \in RowRec /\ wanted.id = saw.id /\ wanted.name = saw.name
  BY <1>1, <1>2, MergedType
<1> HIDE DEF wanted
<1>5. LET new == Written(saw, wanted, there) IN
        /\ new \in RowRec /\ new.id = there.id
        /\ wanted.name = saw.name => new.name = there.name
        /\ saw = there => new = wanted
  BY <1>1, <1>3, <1>4, WrittenType
<1> QED  BY <1>3, <1>4, <1>5 DEF saw, item, there, wanted

LEMMA ChangeWrites ==
  ASSUME Typed, NEW w \in Writers, wk[w].pc = "change", wk[w].job.kind # "delete",
         wk[w].saw.id \in RowIds
  PROVE  LET new == Written(wk[w].saw, Changed(wk[w].job, wk[w].saw), RowOf(wk[w].saw.id)) IN
           /\ new \in RowRec /\ new.id = wk[w].saw.id
           /\ wk[w].job.kind # "rename" => new.name = RowOf(wk[w].saw.id).name
           /\ wk[w].saw = RowOf(wk[w].saw.id) => new = Changed(wk[w].job, wk[w].saw)
<1> DEFINE saw == wk[w].saw
           j == wk[w].job
           there == RowOf(saw.id)
           wanted == Changed(j, saw)
<1>1. /\ saw \in RowRec /\ j \in JobType /\ j.kind \in Edits
      /\ j.kind = "rename" => j.to \in Names
  BY DEF Typed, Session, InOrder
<1>3. there \in RowRec /\ there.id = saw.id
  BY RowOfId DEF Typed, Tables
<1>6. j.kind # "delete"
  OBVIOUS
<1> HIDE DEF saw, j, there
<1>4. /\ wanted \in RowRec /\ wanted.id = saw.id
      /\ wanted.name # saw.name => j.kind = "rename"
  BY <1>1, <1>6, ChangedType
<1> HIDE DEF wanted
<1>5. LET new == Written(saw, wanted, there) IN
        /\ new \in RowRec /\ new.id = there.id
        /\ wanted.name = saw.name => new.name = there.name
        /\ saw = there => new = wanted
  BY <1>1, <1>3, <1>4, WrittenType
<1> QED  BY <1>3, <1>4, <1>5 DEF saw, j, there, wanted

LEMMA MergeEntityTyped ==
  ASSUME Typed, NEW w \in Writers, MergeEntity(w)
  PROVE  Typed'
<1> DEFINE s == wk[w]
           item == Head(s.items)
           id == s.saw.id
           new == Written(s.saw, Merged(s.saw, item), RowOf(id))
<1>1. s.pc = "merge" /\ s.items # <<>> /\ Session(s, nextId) /\ item \in ItemType /\ s.saw \in RowRec
  BY ItemAtHand DEF MergeEntity, Typed, Session, InOrder
<1>2. nextId' = nextId /\ nextId \in Nat /\ edges' = edges /\ Tables
  BY DEF MergeEntity, Typed, Tables
<1>3. CASE id \notin RowIds
  <2>1. End(w) /\ UNCHANGED <<rows, edges, nextId>>
    BY <1>3 DEF MergeEntity
  <2>2. Tables'
    BY <1>2, <2>1, SameTables
  <2> QED  BY <1>2, <2>1, <2>2, EndTyped
<1>4. CASE id \in RowIds
  <2>1. new \in RowRec /\ new.id = id
    BY <1>1, <1>4, MergeWrites
  <2>2. Replace(id, new) /\ Stored(w, new)
    BY <1>4 DEF MergeEntity
  <2> HIDE DEF new
  <2>4. Tables'
    BY <1>2, <1>4, <2>1, <2>2, ReplaceTables
  <2>5. new.id < nextId
    BY <1>2, <1>4, <2>1 DEF Tables, RowIds
  <2> DEFINE t == [s EXCEPT !.pc = "next", !.items = Tail(@),
                            !.ids = With(@, Head(s.items).key, new.id),
                            !.mem = {m \in @ : m.id # new.id} \cup {new}]
  <2>6. Session(t, nextId)
    BY <1>1, <1>2, <2>1, <2>5, StoredSession
  <2>7. Set(w, t)
    BY <2>2 DEF Stored
  <2> HIDE DEF t
  <2> QED  BY <1>2, <2>4, <2>6, <2>7, StepTyped
<1> QED  BY <1>3, <1>4

LEMMA LinkAtHand ==
  ASSUME Typed, NEW w \in Writers, wk[w].links # <<>>
  PROVE  LET l == Head(wk[w].links) IN
           /\ l \in LinkType
           /\ Known(w, l) => /\ wk[w].ids[l.from] \in Ids /\ wk[w].ids[l.to] \in Ids
                             /\ Ends(w, l) = <<wk[w].ids[l.from], wk[w].ids[l.to]>>
<1>1. Head(wk[w].links) \in LinkType
  BY HeadTail DEF Typed, SessionType
<1>2. wk[w].ids \in KeyMaps
  BY DEF Typed, SessionType
<1> QED  BY <1>1, <1>2, KeyOfMap DEF Known, Ends

LEMMA FindEdgeTyped ==
  ASSUME Typed, NEW w \in Writers, FindEdge(w)
  PROVE  Typed'
<1> DEFINE s == wk[w]
<1>1. s.pc = "next" /\ s.links # <<>> /\ Session(s, nextId)
  BY DEF FindEdge, Typed
<1>2. Tables' /\ nextId' = nextId /\ nextId \in Nat /\ nextId <= nextId'
  <2>1. UNCHANGED <<rows, edges, nextId>> /\ Tables
    BY DEF FindEdge, Typed, history
  <2>2. Tables'
    BY <2>1, SameTables
  <2> QED  BY <2>1, <2>2 DEF Tables
<1>3. CASE Set(w, [s EXCEPT !.pc = "insert edge"])
  <2>1. Session([s EXCEPT !.pc = "insert edge"], nextId)
    BY <1>1, <1>2, StepSession
  <2> QED  BY <1>2, <1>3, <2>1, StepTyped
<1>4. CASE SkipLink(w)
  <2>1. Session([s EXCEPT !.pc = "next", !.links = Tail(@)], nextId)
    BY <1>1, <1>2, LinkSession
  <2> QED  BY <1>2, <1>4, <2>1, StepTyped DEF SkipLink
<1>5. CASE End(w)
  BY <1>2, <1>5, EndTyped
<1> QED  BY <1>3, <1>4, <1>5 DEF FindEdge

LEMMA NameOfEndType ==
  ASSUME NEW w \in Writers, wk[w].job \in JobType, NEW k \in Keys
  PROVE  NameOfEnd(w, k) \in Keys
<1>1. \A it \in Range(wk[w].job.items) : it.name \in Names
  <2>1. wk[w].job.items \in Seq(ItemType)
    BY DEF JobType
  <2>2. \A i \in DOMAIN wk[w].job.items : wk[w].job.items[i] \in ItemType
    BY <2>1
  <2> QED  BY <2>2 DEF Range, ItemType
<1> QED  BY <1>1 DEF NameOfEnd, Keys

\* A session about to insert an edge knows both ends, and they are two.
Joins(w) ==
  wk[w].pc = "insert edge" =>
    LET l == Head(wk[w].links) IN Known(w, l) /\ Ends(w, l)[1] # Ends(w, l)[2]

Joining == \A w \in Writers : Joins(w)

LEMMA InsertEdgeTyped ==
  ASSUME Typed, Joining, NEW w \in Writers, InsertEdge(w)
  PROVE  Typed'
<1> DEFINE s == wk[w]
           l == Head(s.links)
           e == Edge(w, nextId, l)
<1>1. s.pc = "insert edge" /\ s.links # <<>> /\ Session(s, nextId) /\ s.job \in JobType
  BY DEF InsertEdge, Typed, Session, InOrder
<1>2. nextId \in Nat /\ nextId <= MaxIds /\ nextId \in Ids
  <2>1. nextId <= MaxIds /\ nextId \in Nat \ {0}
    BY DEF InsertEdge, Typed, Tables
  <2> QED  BY <2>1, EntityStoreAssumption DEF Ids
<1>3. l \in LinkType /\ Known(w, l) /\ Ends(w, l)[1] # Ends(w, l)[2]
      /\ Ends(w, l) = <<s.ids[l.from], s.ids[l.to]>>
      /\ s.ids[l.from] \in Ids /\ s.ids[l.to] \in Ids
  BY <1>1, LinkAtHand DEF Joining, Joins
<1>4. CASE /\ {Ends(w, l)[1], Ends(w, l)[2]} \subseteq RowIds
           /\ edges' = edges \cup {Edge(w, nextId, l)} /\ nextId' = nextId + 1
           /\ SkipLink(w)
  <2>1. NameOfEnd(w, l.from) \in Keys /\ NameOfEnd(w, l.to) \in Keys
    BY <1>1, <1>3, NameOfEndType DEF LinkType
  <2>2. /\ e \in EdgeRec /\ e.id = nextId /\ e.src = Ends(w, l)[1] /\ e.tgt = Ends(w, l)[2]
    BY <1>2, <1>3, <2>1 DEF Edge, EdgeRec, LinkType
  <2>3. Tables'
    <3>1. Tables /\ rows' = rows
      BY DEF InsertEdge, Typed, history
    <3> HIDE DEF e
    <3>2. edges' = edges \cup {e} /\ nextId' = nextId + 1
      BY <1>4 DEF e
    <3>3. e.src # e.tgt /\ {e.src, e.tgt} \subseteq RowIds
      BY <1>3, <1>4, <2>2
    <3> QED  BY <1>2, <2>2, <3>1, <3>2, <3>3, InsertEdgeTables
  <2>4. nextId' = nextId + 1 /\ nextId' \in Nat /\ nextId <= nextId'
    BY <1>2, <1>4
  <2>5. Session(s, nextId')
    BY <1>1, <1>2, <2>4, LaterSession
  <2>6. Session([s EXCEPT !.pc = "next", !.links = Tail(@)], nextId')
    BY <1>1, <2>4, <2>5, LinkSession
  <2> QED  BY <1>4, <2>3, <2>4, <2>6, StepTyped DEF SkipLink
<1>5. CASE End(w) /\ UNCHANGED <<edges, nextId>>
  <2>1. UNCHANGED <<rows, edges, nextId>> /\ Tables
    BY <1>5 DEF InsertEdge, Typed, history
  <2>2. Tables' /\ nextId <= nextId'
    BY <1>2, <2>1, SameTables
  <2> QED  BY <1>5, <2>2, EndTyped
<1> QED  BY <1>4, <1>5 DEF InsertEdge

LEMMA RestTyped ==
  ASSUME Typed, NEW w \in Writers, Finish(w) \/ Leave(w) \/ LoadEntity(w)
  PROVE  Typed'
<1> DEFINE s == wk[w]
<1>1. Session(s, nextId) /\ Tables /\ nextId \in Nat
  BY DEF Typed, Tables
<1>2. Tables' /\ nextId' = nextId /\ nextId <= nextId'
  <2>1. UNCHANGED <<rows, edges, nextId>>
    BY DEF Finish, Leave, LoadEntity, history
  <2> QED  BY <1>1, <2>1, SameTables
<1>3. CASE Finish(w)
  <2>1. Session([s EXCEPT !.pc = "done"], nextId)
    BY <1>1, <1>3, StepSession DEF Finish
  <2> QED  BY <1>2, <1>3, <2>1, StepTyped DEF Finish
<1>4. CASE End(w)
  BY <1>2, <1>4, EndTyped
<1>5. CASE s.pc = "load" /\ s.saw.id \in RowIds /\ Set(w, [s EXCEPT !.pc = "change", !.saw = RowOf(s.saw.id)])
  <2> DEFINE r == RowOf(s.saw.id)
             t == [s EXCEPT !.pc = "change", !.saw = r]
  <2>1. r \in RowRec /\ r.id < nextId
    BY <1>1, <1>5, RowOfId DEF Tables
  <2> HIDE DEF r
  <2>2. Session([s EXCEPT !.pc = "change", !.saw = r, !.mem = s.mem], nextId)
    BY <1>1, <1>5, <2>1, SawSession
  <2>3. t = [s EXCEPT !.pc = "change", !.saw = r, !.mem = s.mem]
    BY <1>1 DEF Session, SessionType
  <2>4. Set(w, t)
    BY <1>5 DEF r
  <2> HIDE DEF t
  <2> QED  BY <1>2, <2>2, <2>3, <2>4, StepTyped
<1> QED  BY <1>3, <1>4, <1>5 DEF Leave, LoadEntity

LEMMA ChangeTyped ==
  ASSUME Typed, NEW w \in Writers, ChangeEntity(w)
  PROVE  Typed'
<1> DEFINE s == wk[w]
           id == s.saw.id
           new == Written(s.saw, Changed(s.job, s.saw), RowOf(id))
<1>1. Tables /\ nextId \in Nat /\ nextId' = nextId /\ nextId <= nextId' /\ edges' = edges /\ End(w)
  BY DEF ChangeEntity, Typed, Tables
<1>2. Tables'
  <2>1. CASE id \notin RowIds
    <3>1. UNCHANGED <<rows, edges, nextId>>
      BY <2>1 DEF ChangeEntity
    <3> QED  BY <1>1, <3>1, SameTables
  <2>2. CASE id \in RowIds
    <3>1. new \in RowRec /\ new.id = id
      BY <2>2, ChangeWrites DEF ChangeEntity
    <3>2. Replace(id, new)
      BY <2>2 DEF ChangeEntity
    <3> HIDE DEF new
    <3> QED  BY <1>1, <2>2, <3>1, <3>2, ReplaceTables
  <2> QED  BY <2>1, <2>2
<1> QED  BY <1>1, <1>2, EndTyped

LEMMA DeleteTyped ==
  ASSUME Typed, NEW w \in Writers, DeleteEntity(w)
  PROVE  Typed'
<1>1. Tables /\ nextId \in Nat /\ nextId' = nextId /\ nextId <= nextId' /\ End(w)
  BY DEF DeleteEntity, Typed, Tables
<1>2. Tables'
  BY <1>1, DeleteTables DEF DeleteEntity
<1> QED  BY <1>1, <1>2, EndTyped

LEMMA TypedStep ==
  ASSUME Typed, Joining, [Next]_vars
  PROVE  Typed'
<1>1. CASE UNCHANGED vars
  <2>1. Tables'
    BY <1>1, SameTables DEF vars, Typed
  <2> QED  BY <1>1, <2>1 DEF vars, Typed
<1>2. ASSUME NEW w \in Writers, NEW j \in Jobs, Begin(w, j)  PROVE Typed'
  BY <1>2, BeginTyped
<1>3. ASSUME NEW w \in Writers, Step(w)  PROVE Typed'
  <2>1. CASE ReadEntities(w) \/ ReadEdges(w)
    BY <2>1, ReadEntitiesTyped, ReadEdgesTyped
  <2>2. CASE FindEntity(w) \/ InsertEntity(w) \/ MergeEntity(w)
    BY <2>2, FindEntityTyped, InsertEntityTyped, MergeEntityTyped
  <2>3. CASE FindEdge(w) \/ InsertEdge(w)
    BY <2>3, FindEdgeTyped, InsertEdgeTyped
  <2>4. CASE Finish(w) \/ Leave(w) \/ LoadEntity(w)
    BY <2>4, RestTyped
  <2>5. CASE ChangeEntity(w) \/ DeleteEntity(w)
    BY <2>5, ChangeTyped, DeleteTyped
  <2> QED  BY <1>3, <2>1, <2>2, <2>3, <2>4, <2>5 DEF Step
<1> QED  BY <1>1, <1>2, <1>3 DEF Next

-----------------------------------------------------------------------------
(***************************************************************************)
(* What a session knows, of rows R and edges E, when the names C are       *)
(* contested and the names N renamed.                                      *)
(***************************************************************************)
\* The name a key of a job stands for.
KeyName(job, key) ==
  IF \E it \in Range(job.items) : it.key = key
  THEN (CHOOSE it \in Range(job.items) : it.key = key).name ELSE key

\* A key has been mapped to a row of its name.
KnowsKeys(s, R, N) ==
  \A k \in DOMAIN s.ids, r \in R :
    r.id = s.ids[k] /\ r.name \notin N => r.name = KeyName(s.job, k) /\ r.name \in Mentions(s.job)

\* A copy is as the row is.
KnowsCopies(s, R, C, N) ==
  \A m \in s.mem, r \in R :
    r.id = m.id /\ r.name \notin N => /\ r.name \in Mentions(s.job)
                                      /\ r.name \notin C => m = r

\* The row that is to be written is as it was loaded.
KnowsRow(s, R, C, N) ==
  s.pc \in {"merge", "load", "change"} =>
    \A r \in R : r.id = s.saw.id /\ r.name \notin N =>
      /\ r.name \in Mentions(s.job)
      /\ s.pc = "merge" => r.name = Head(s.items).name
      /\ s.pc # "load" /\ r.name \notin C => s.saw = r

\* There is still no row of the name that is to be inserted.
KnowsGap(s, R, X) ==
  s.pc = "insert" => \A r \in R : r.name = Head(s.items).name => r.name \in X

\* An end of the edge has a name of X.
Hit(e, R, X) == \E r \in R : r.id \in {e.src, e.tgt} /\ r.name \in X

\* The ends are known and there is still no edge between them.
KnowsEdges(s, R, E, X) ==
  s.pc = "insert edge" => LET l == Head(s.links) IN
    /\ {l.from, l.to} \subseteq DOMAIN s.ids /\ s.ids[l.from] # s.ids[l.to]
    /\ \A e \in E : Same(e, <<s.ids[l.from], s.ids[l.to]>>, l) => Hit(e, R, X)

Knows(s, R, E, C, N) ==
  /\ KnowsKeys(s, R, N)
  /\ KnowsCopies(s, R, C, N)
  /\ KnowsRow(s, R, C, N)
  /\ KnowsGap(s, R, C \cup N)
  /\ KnowsEdges(s, R, E, C \cup N)

Sessions == \A w \in Writers : Busy(w) => Knows(wk[w], rows, edges, contested, renamed)

\* Two sessions at a time contest the names they share.
Apart ==
  \A v, w \in Writers :
    v # w /\ Busy(v) /\ Busy(w) => Mentions(wk[v].job) \cap Mentions(wk[w].job) \subseteq contested

Excused == contested \cup renamed

OneName == \A r, s \in rows : r.name = s.name /\ r.name \notin Excused => r = s

OneEdge ==
  \A d, e \in edges :
    d # e /\ d.src = e.src /\ d.tgt = e.tgt /\ d.label = e.label => Hit(e, rows, Excused)

Meant ==
  \A e \in edges, r \in rows :
    r.name \notin renamed => /\ r.id = e.src => r.name = e.meant[1]
                             /\ r.id = e.tgt => r.name = e.meant[2]

StoreInv ==
  /\ Sessions /\ Apart
  /\ OneName /\ OneEdge /\ Meant

-----------------------------------------------------------------------------
(* Names and keys of a job. *)

LEMMA KeyOfItem ==
  ASSUME NEW job \in JobType, WellKeyed(job.items), NEW i \in DOMAIN job.items
  PROVE  KeyName(job, job.items[i].key) = job.items[i].name /\ job.items[i].name \in Mentions(job)
<1> DEFINE key == job.items[i].key
           it  == CHOOSE x \in Range(job.items) : x.key = key
<1>1. job.items[i] \in Range(job.items)
  BY DEF Range
<1>2. it \in Range(job.items) /\ it.key = key
  BY <1>1
<1>3. PICK k \in DOMAIN job.items : it = job.items[k]
  BY <1>2 DEF Range
<1>4. it.name = job.items[i].name
  BY <1>2, <1>3 DEF WellKeyed
<1>5. KeyName(job, key) = it.name
  BY <1>1 DEF KeyName
<1>6. job.items[i].name \in Mentions(job)
  BY <1>1 DEF Mentions
<1> QED  BY <1>4, <1>5, <1>6

LEMMA KeyOfName ==
  ASSUME NEW job \in JobType, WellKeyed(job.items), NEW n \in Names
  PROVE  KeyName(job, n) = n
<1>1. CASE \E it \in Range(job.items) : it.key = n
  <2>1. PICK k \in DOMAIN job.items : (CHOOSE x \in Range(job.items) : x.key = n) = job.items[k]
                                      /\ job.items[k].key = n
    BY <1>1 DEF Range
  <2>2. job.items[k].name = n
    BY <2>1 DEF WellKeyed
  <2> QED  BY <1>1, <2>1, <2>2 DEF KeyName
<1>2. CASE ~ \E it \in Range(job.items) : it.key = n
  BY <1>2 DEF KeyName
<1> QED  BY <1>1, <1>2

\* The item at hand is one of the job's.
LEMMA ItemOfJob ==
  ASSUME Typed, NEW w \in Writers, wk[w].pc # "idle", wk[w].items # <<>>
  PROVE  LET item == Head(wk[w].items) IN
           KeyName(wk[w].job, item.key) = item.name /\ item.name \in Mentions(wk[w].job)
<1>1. wk[w].items \in Seq(ItemType) /\ InOrder(wk[w])
  BY DEF Typed, Session, SessionType
<1>2. 1 \in DOMAIN wk[w].items /\ Head(wk[w].items) = wk[w].items[1]
  BY <1>1, HeadTail
<1>3. \A i \in DOMAIN wk[w].items : \E k \in DOMAIN wk[w].job.items : wk[w].items[i] = wk[w].job.items[k]
  BY <1>1 DEF InOrder
<1>4. PICK k \in DOMAIN wk[w].job.items : Head(wk[w].items) = wk[w].job.items[k]
  BY <1>2, <1>3
<1>5. wk[w].job \in JobType /\ WellKeyed(wk[w].job.items)
  BY <1>1 DEF InOrder
<1> QED  BY <1>4, <1>5, KeyOfItem

-----------------------------------------------------------------------------
(***************************************************************************)
(* What a step of a session that is about the names J does to the tables,  *)
(* and what the others still know after it.                                *)
(***************************************************************************)
RowsBy(J) ==
  \A q \in rows' :
    \/ q \in rows
    \/ q.id = nextId /\ q.name \in J
    \/ \E r \in rows : r.id = q.id /\ r.name \in renamed' \cup J /\ q.name \in {r.name} \cup renamed'

EdgesBy(J) ==
  \A e \in edges' :
    e \in edges \/ \A q \in rows' : q.id \in {e.src, e.tgt} => q.name \in J \cup renamed'

Mono == contested \subseteq contested' /\ renamed \subseteq renamed'

\* A row that was there has the name it had, and is the same one unless J is
\* about it.
LEMMA RowBefore ==
  ASSUME Tables, NEW J, RowsBy(J), NEW r \in rows, NEW q \in rows', q.id = r.id
  PROVE  /\ q.name = r.name \/ q.name \in renamed'
         /\ q = r \/ r.name \in renamed' \cup J
<1>1. q.id # nextId
  <2>1. r.id < nextId /\ r.id \in Nat /\ nextId \in Nat
    BY DEF Tables, RowRec, Ids
  <2> QED  BY <2>1
<1>2. CASE q \in rows
  BY <1>2 DEF Tables
<1>3. CASE \E s \in rows : s.id = q.id /\ s.name \in renamed' \cup J /\ q.name \in {s.name} \cup renamed'
  BY <1>3 DEF Tables
<1> QED  BY <1>1, <1>2, <1>3 DEF RowsBy

\* And a row that is there now, and whose id was given out before, was there.
LEMMA RowWas ==
  ASSUME Tables, NEW J, RowsBy(J), NEW q \in rows', q.id < nextId
  PROVE  \E r \in rows : r.id = q.id
<1>1. q.id # nextId
  <2>1. nextId \in Nat
    BY DEF Tables
  <2> QED  BY <2>1
<1> QED  BY <1>1 DEF RowsBy

LEMMA HitStays ==
  ASSUME Tables, NEW J, RowsBy(J), Mono, NEW e, Hit(e, rows, Excused),
         \A i \in {e.src, e.tgt} : \E q \in rows' : q.id = i
  PROVE  Hit(e, rows', Excused')
<1>1. PICK r \in rows : r.id \in {e.src, e.tgt} /\ r.name \in Excused
  BY DEF Hit
<1>2. PICK q \in rows' : q.id = r.id
  BY <1>1
<1>3. q.name \in Excused'
  BY <1>1, <1>2, RowBefore DEF Mono, Excused
<1> QED  BY <1>1, <1>2, <1>3 DEF Hit

LEMMA OthersKnow ==
  ASSUME Typed, Tables', Sessions, Apart, Mono,
         NEW w \in Writers, NEW v \in Writers, v # w, Busy(w), Busy(v),
         RowsBy(Mentions(wk[w].job)), EdgesBy(Mentions(wk[w].job))
  PROVE  Knows(wk[v], rows', edges', contested', renamed')
<1> DEFINE s == wk[v]
           J == Mentions(wk[w].job)
           M == Mentions(s.job)
<1>1. /\ Tables /\ nextId \in Nat /\ Session(s, nextId)
      /\ Knows(s, rows, edges, contested, renamed) /\ s.pc # "idle"
  BY DEF Typed, Tables, Sessions, Busy
<1>2. RowsBy(J) /\ EdgesBy(J)
  OBVIOUS
<1>3. J \cap M \subseteq contested
  BY DEF Apart
<1>4. s.items # <<>> => Head(s.items).name \in M
  BY <1>1, ItemOfJob
<1> HIDE DEF J
<1>5. KnowsKeys(s, rows', renamed')
  <2> SUFFICES ASSUME NEW k \in DOMAIN s.ids, NEW q \in rows', q.id = s.ids[k], q.name \notin renamed'
               PROVE  q.name = KeyName(s.job, k) /\ q.name \in M
    BY DEF KnowsKeys
  <2>1. q.id < nextId
    BY <1>1 DEF Session, Recent
  <2>2. PICK r \in rows : r.id = q.id
    BY <1>1, <1>2, <2>1, RowWas
  <2>3. q.name = r.name
    BY <1>1, <1>2, <2>2, RowBefore
  <2> QED  BY <1>1, <2>2, <2>3 DEF Knows, KnowsKeys, Mono
<1>6. KnowsCopies(s, rows', contested', renamed')
  <2> SUFFICES ASSUME NEW m \in s.mem, NEW q \in rows', q.id = m.id, q.name \notin renamed'
               PROVE  q.name \in M /\ (q.name \notin contested' => m = q)
    BY DEF KnowsCopies
  <2>1. q.id < nextId
    BY <1>1 DEF Session, Recent
  <2>2. PICK r \in rows : r.id = q.id
    BY <1>1, <1>2, <2>1, RowWas
  <2>3. q.name = r.name /\ (q = r \/ r.name \in J)
    BY <1>1, <1>2, <2>2, RowBefore
  <2>4. r.name \in M /\ (r.name \notin contested => m = r)
    BY <1>1, <2>2, <2>3 DEF Knows, KnowsCopies, Mono
  <2> QED  BY <1>3, <2>3, <2>4 DEF Mono
<1>7. KnowsRow(s, rows', contested', renamed')
  <2> SUFFICES ASSUME s.pc \in {"merge", "load", "change"},
                      NEW q \in rows', q.id = s.saw.id, q.name \notin renamed'
               PROVE  /\ q.name \in M
                      /\ s.pc = "merge" => q.name = Head(s.items).name
                      /\ s.pc # "load" /\ q.name \notin contested' => s.saw = q
    BY DEF KnowsRow
  <2>1. q.id < nextId
    BY <1>1 DEF Session, Recent
  <2>2. PICK r \in rows : r.id = q.id
    BY <1>1, <1>2, <2>1, RowWas
  <2>3. q.name = r.name /\ (q = r \/ r.name \in J)
    BY <1>1, <1>2, <2>2, RowBefore
  <2>4. /\ r.name \in M
        /\ s.pc = "merge" => r.name = Head(s.items).name
        /\ s.pc # "load" /\ r.name \notin contested => s.saw = r
    BY <1>1, <2>2, <2>3 DEF Knows, KnowsRow, Mono
  <2> QED  BY <1>3, <2>3, <2>4 DEF Mono
<1>8. KnowsGap(s, rows', contested' \cup renamed')
  <2> SUFFICES ASSUME s.pc = "insert", NEW q \in rows', q.name = Head(s.items).name
               PROVE  q.name \in contested' \cup renamed'
    BY DEF KnowsGap
  <2>1. q.name \in M
    BY <1>1, <1>4 DEF Session, InOrder
  <2>2. \A r \in rows : r.name = q.name => q.name \in contested \cup renamed
    BY <1>1 DEF Knows, KnowsGap
  <2> QED  BY <1>2, <1>3, <2>1, <2>2 DEF RowsBy, Mono
<1>9. KnowsEdges(s, rows', edges', contested' \cup renamed')
  <2> SUFFICES ASSUME s.pc = "insert edge"
               PROVE  KnowsEdges(s, rows', edges', contested' \cup renamed')
    BY DEF KnowsEdges
  <2> DEFINE l == Head(s.links)
             ends == <<s.ids[l.from], s.ids[l.to]>>
  <2>1. /\ {l.from, l.to} \subseteq DOMAIN s.ids /\ s.ids[l.from] # s.ids[l.to]
        /\ \A e \in edges : Same(e, ends, l) => Hit(e, rows, Excused)
    BY <1>1 DEF Knows, KnowsEdges, Excused
  <2>2. ASSUME NEW e \in edges', Same(e, ends, l)  PROVE Hit(e, rows', Excused')
    <3>1. \A i \in {e.src, e.tgt} : \E q \in rows' : q.id = i
      BY DEF Tables, RowIds
    <3>2. CASE e \in edges
      BY <1>1, <1>2, <2>1, <2>2, <3>1, <3>2, HitStays
    <3>3. CASE e \notin edges
      <4>1. PICK q \in rows' : q.id = e.src
        BY <3>1
      <4>2. q.name \in J \cup renamed'
        BY <1>2, <3>3, <4>1 DEF EdgesBy
      <4>3. q.id = s.ids[l.from] /\ l.from \in DOMAIN s.ids
        BY <2>1, <2>2, <4>1 DEF Same
      <4>4. q.name \in renamed' \/ q.name \in M
        BY <1>5, <4>3 DEF KnowsKeys
      <4>5. q.name \in Excused'
        BY <1>3, <4>2, <4>4 DEF Excused, Mono
      <4> QED  BY <4>1, <4>5 DEF Hit
    <3> QED  BY <3>2, <3>3
  <2> QED  BY <2>1, <2>2 DEF KnowsEdges, Excused
<1> QED  BY <1>5, <1>6, <1>7, <1>8, <1>9 DEF Knows

\* The session that went on knows the tables as well; then all do.
LEMMA StepSessions ==
  ASSUME Typed, Tables', Sessions, Apart, Mono, NEW w \in Writers, Busy(w), NEW t, Set(w, t),
         RowsBy(Mentions(wk[w].job)), EdgesBy(Mentions(wk[w].job)),
         t.pc # "idle" => /\ Mentions(t.job) = Mentions(wk[w].job)
                          /\ Knows(t, rows', edges', contested', renamed')
  PROVE  Sessions' /\ Apart'
<1>1. wk'[w] = t /\ \A v \in Writers : v # w => wk'[v] = wk[v]
  BY DEF Set, Typed
<1>2. ASSUME NEW v \in Writers, Busy(v)'  PROVE Knows(wk'[v], rows', edges', contested', renamed')
  <2>1. CASE v = w
    BY <1>1, <1>2, <2>1 DEF Busy
  <2>2. CASE v # w
    <3>1. Busy(v)
      BY <1>1, <1>2, <2>2 DEF Busy
    <3> QED  BY <1>1, <2>2, <3>1, OthersKnow
  <2> QED  BY <2>1, <2>2
<1>3. ASSUME NEW u \in Writers, NEW v \in Writers, u # v, Busy(u)', Busy(v)'
      PROVE  Mentions(wk'[u].job) \cap Mentions(wk'[v].job) \subseteq contested'
  <2>1. \A x \in Writers : Busy(x)' => Busy(x) /\ Mentions(wk'[x].job) = Mentions(wk[x].job)
    BY <1>1 DEF Busy
  <2>2. Mentions(wk[u].job) \cap Mentions(wk[v].job) \subseteq contested
    BY <1>3, <2>1 DEF Apart
  <2> QED  BY <1>3, <2>1, <2>2 DEF Mono
<1> QED  BY <1>2, <1>3 DEF Sessions, Apart

\* The tables keep their promises.
LEMMA NamesStay ==
  ASSUME Tables, Tables', OneName, Mono, NEW J, RowsBy(J),
         \A q \in rows', r \in rows : q.id = nextId /\ q.name = r.name => q.name \in Excused'
  PROVE  OneName'
<1> SUFFICES ASSUME NEW p \in rows', NEW q \in rows', p.name = q.name, p.name \notin Excused'
             PROVE  p.id = q.id
  BY DEF OneName, Tables
<1>1. \A x \in rows' : x.id = nextId \/ \E r \in rows : r.id = x.id
  BY DEF RowsBy
<1>2. \A x \in rows', r \in rows : x.id = r.id /\ x.name = p.name => r.name = p.name
  BY RowBefore DEF Excused
<1>3. CASE p.id = nextId
  BY <1>1, <1>2, <1>3
<1>4. CASE q.id = nextId
  BY <1>1, <1>2, <1>4
<1>5. CASE p.id # nextId /\ q.id # nextId
  <2>1. PICK r \in rows : r.id = p.id
    BY <1>1, <1>5
  <2>2. PICK s \in rows : s.id = q.id
    BY <1>1, <1>5
  <2>3. r = s
    BY <1>2, <2>1, <2>2 DEF OneName, Mono, Excused
  <2> QED  BY <2>1, <2>2, <2>3
<1> QED  BY <1>3, <1>4, <1>5

LEMMA EdgesStay ==
  ASSUME Tables, Tables', OneEdge, Meant, Mono, NEW J, RowsBy(J), edges' \subseteq edges
  PROVE  OneEdge' /\ Meant'
<1>1. OneEdge'
  <2>1. \A e \in edges' : \A i \in {e.src, e.tgt} : \E q \in rows' : q.id = i
    BY DEF Tables, RowIds
  <2>2. \A e \in edges' : Hit(e, rows, Excused) => Hit(e, rows', Excused')
    BY <2>1, HitStays
  <2> QED  BY <2>2 DEF OneEdge
<1>2. Meant'
  <2> SUFFICES ASSUME NEW e \in edges', NEW q \in rows', q.name \notin renamed'
               PROVE  (q.id = e.src => q.name = e.meant[1]) /\ (q.id = e.tgt => q.name = e.meant[2])
    BY DEF Meant
  <2>1. ASSUME q.id \in {e.src, e.tgt}  PROVE \E r \in rows : r.id = q.id
    BY <2>1 DEF Tables, RowIds
  <2>2. \A r \in rows : r.id = q.id => r.name = q.name
    BY RowBefore
  <2> QED  BY <2>1, <2>2 DEF Meant, Mono
<1> QED  BY <1>1, <1>2

-----------------------------------------------------------------------------
(* Steps that only read. *)

LEMMA ReadOnly ==
  ASSUME Typed, StoreInv, NEW w \in Writers, Busy(w), NEW t, Set(w, t), UNCHANGED <<rows, edges, nextId, history>>,
         t.pc # "idle" => /\ Mentions(t.job) = Mentions(wk[w].job)
                          /\ Knows(t, rows, edges, contested, renamed)
  PROVE  StoreInv'
<1>1. Tables /\ Tables'
  BY SameTables DEF Typed, history
<1>2. Mono /\ RowsBy(Mentions(wk[w].job)) /\ EdgesBy(Mentions(wk[w].job))
  BY DEF Mono, RowsBy, EdgesBy, history
<1>3. Sessions' /\ Apart'
  BY <1>1, <1>2, StepSessions DEF StoreInv, history
<1>4. OneName' /\ OneEdge' /\ Meant'
  BY DEF StoreInv, OneName, OneEdge, Meant, Hit, Excused, history
<1> QED  BY <1>3, <1>4 DEF StoreInv

\* A session that goes on to the next item or edge knows what it knew.
LEMMA NextKnows ==
  ASSUME NEW s, NEW t, NEW R, NEW E, NEW F, NEW C, NEW N, Knows(s, R, E, C, N),
         t.pc \in {"next", "done", "read edges"}, t.job = s.job, t.ids = s.ids, t.mem = s.mem
  PROVE  Knows(t, R, F, C, N)
BY DEF Knows, KnowsKeys, KnowsCopies, KnowsRow, KnowsGap, KnowsEdges

LEMMA ReimportMentions ==
  ASSUME NEW j \in JobType, j.kind = "reimport"
  PROVE  Mentions(j) = Names
<1>1. \A it \in Range(j.items) : it.name \in Names
  <2>1. \A it \in Range(j.items) : it \in ItemType
    BY DEF Range, JobType
  <2> QED  BY <2>1 DEF ItemType
<1>2. j.about \subseteq Names \cup {None}
  BY DEF JobType
<1> QED  BY <1>1, <1>2 DEF Mentions

LEMMA ReadEntitiesKeeps ==
  ASSUME Typed, Typed', StoreInv, NEW w \in Writers, ReadEntities(w)
  PROVE  StoreInv'
<1> DEFINE s == wk[w]
           file == SetToSeq({Payload(r, s.job.format) : r \in rows})
           t == [s EXCEPT !.pc = "read edges", !.items = file, !.job.items = file]
<1>1. /\ Busy(w) /\ Set(w, t) /\ s.pc = "read"
      /\ UNCHANGED <<rows, edges, nextId, history>>
  BY DEF ReadEntities, Busy
<1>2. s \in SessionType /\ s.job \in JobType /\ s.job.kind = "reimport" /\ s.ids = <<>> /\ s.mem = {}
  BY <1>1 DEF Typed, Session, InOrder
<1> HIDE DEF file
<1>3. /\ t.pc = "read edges" /\ t.job = [s.job EXCEPT !.items = file]
      /\ t.ids = <<>> /\ t.mem = {}
  BY <1>2 DEF SessionType
<1>4. wk'[w] = t
  BY <1>1 DEF Set, Typed
<1> HIDE DEF t
<1>5. t.job \in JobType /\ t.job.kind = "reimport"
  <2>1. InOrder(t)
    BY <1>4 DEF Typed, Session
  <2> QED  BY <1>3, <2>1 DEF InOrder
<1>6. Mentions(t.job) = Mentions(s.job)
  BY <1>2, <1>5, ReimportMentions
<1>7. Knows(t, rows, edges, contested, renamed)
  BY <1>3, EmptyMap DEF Knows, KnowsKeys, KnowsCopies, KnowsRow, KnowsGap, KnowsEdges
<1> QED  BY <1>1, <1>6, <1>7, ReadOnly

LEMMA ReadEdgesKeeps ==
  ASSUME Typed, StoreInv, NEW w \in Writers, ReadEdges(w)
  PROVE  StoreInv'
<1> DEFINE s == wk[w]
           links == SetToSeq({Link(IdText[e.src], IdText[e.tgt], LabelRead(s.job.format, e.label)) :
                                e \in IF s.job.format = "csv" THEN {} ELSE edges})
           t == [s EXCEPT !.pc = "next", !.links = links]
<1>1. /\ Busy(w) /\ Set(w, t) /\ UNCHANGED <<rows, edges, nextId, history>>
  BY DEF ReadEdges, Busy
<1>2. s \in SessionType /\ Knows(s, rows, edges, contested, renamed)
  BY <1>1 DEF Typed, StoreInv, Sessions
<1> HIDE DEF links
<1>3. t.pc = "next" /\ t.job = s.job /\ t.ids = s.ids /\ t.mem = s.mem
  BY <1>2 DEF SessionType
<1> HIDE DEF t
<1>4. Knows(t, rows, edges, contested, renamed)
  BY <1>2, <1>3, NextKnows
<1> QED  BY <1>1, <1>3, <1>4, ReadOnly

LEMMA FindEdgeKeeps ==
  ASSUME Typed, StoreInv, NEW w \in Writers, FindEdge(w)
  PROVE  StoreInv'
<1> DEFINE s == wk[w]
           l == Head(s.links)
<1>1. /\ Busy(w) /\ UNCHANGED <<rows, edges, nextId, history>>
      /\ s \in SessionType /\ Knows(s, rows, edges, contested, renamed) /\ s.links # <<>>
  BY DEF FindEdge, Busy, Typed, StoreInv, Sessions
<1>2. CASE /\ Known(w, l) /\ Ends(w, l)[1] # Ends(w, l)[2]
           /\ \A e \in edges : ~ Same(e, Ends(w, l), l)
           /\ Set(w, [s EXCEPT !.pc = "insert edge"])
  <2> DEFINE t == [s EXCEPT !.pc = "insert edge"]
  <2>1. /\ t.pc = "insert edge" /\ t.job = s.job /\ t.ids = s.ids /\ t.mem = s.mem /\ t.links = s.links
    BY <1>1 DEF SessionType
  <2>2. Set(w, t)
    BY <1>2
  <2>3. Ends(w, l) = <<s.ids[l.from], s.ids[l.to]>>
    BY DEF Ends
  <2> HIDE DEF t
  <2>4. KnowsEdges(t, rows, edges, contested \cup renamed)
    <3>1. Known(w, l) /\ Ends(w, l)[1] # Ends(w, l)[2]
          /\ \A e \in edges : ~ Same(e, Ends(w, l), l)
      BY <1>2
    <3>2. l = Head(t.links) /\ t.ids = wk[w].ids
      BY <2>1
    <3> HIDE DEF l, s
    <3>3. {l.from, l.to} \subseteq DOMAIN t.ids /\ t.ids[l.from] # t.ids[l.to]
      BY <2>3, <3>1, <3>2 DEF Known, s
    <3>4. Ends(w, l) = <<t.ids[l.from], t.ids[l.to]>>
      BY <2>3, <3>2 DEF s
    <3>5. \A e \in edges : Same(e, <<t.ids[l.from], t.ids[l.to]>>, l) => Hit(e, rows, contested \cup renamed)
      BY <3>1, <3>4
    <3> QED  BY <3>2, <3>3, <3>5 DEF KnowsEdges
  <2>5. Knows(t, rows, edges, contested, renamed)
    BY <1>1, <2>1, <2>4 DEF Knows, KnowsKeys, KnowsCopies, KnowsRow, KnowsGap
  <2> QED  BY <1>1, <2>1, <2>2, <2>5, ReadOnly
<1>3. CASE SkipLink(w)
  <2> DEFINE t == [s EXCEPT !.pc = "next", !.links = Tail(@)]
  <2>1. /\ t.pc = "next" /\ t.job = s.job /\ t.ids = s.ids /\ t.mem = s.mem
    BY <1>1 DEF SessionType
  <2>2. Set(w, t)
    BY <1>3 DEF SkipLink
  <2> HIDE DEF t
  <2>3. Knows(t, rows, edges, contested, renamed)
    BY <1>1, <2>1, NextKnows
  <2> QED  BY <1>1, <2>1, <2>2, <2>3, ReadOnly
<1>4. CASE End(w)
  <2>1. Set(w, Idle) /\ Idle.pc = "idle"
    BY <1>4 DEF End, Idle
  <2> QED  BY <1>1, <2>1, ReadOnly
<1>5. \/ SkipLink(w) \/ End(w)
      \/ /\ Known(w, l) /\ Ends(w, l)[1] # Ends(w, l)[2]
         /\ {e \in edges : Same(e, Ends(w, l), l)} = {}
         /\ Set(w, [s EXCEPT !.pc = "insert edge"])
  BY DEF FindEdge
<1> QED  BY <1>2, <1>3, <1>4, <1>5

LEMMA RestKeeps ==
  ASSUME Typed, StoreInv, NEW w \in Writers, Finish(w) \/ Leave(w) \/ LoadEntity(w)
  PROVE  StoreInv'
<1> DEFINE s == wk[w]
<1>1. /\ Busy(w) /\ UNCHANGED <<rows, edges, nextId, history>>
      /\ s \in SessionType /\ Knows(s, rows, edges, contested, renamed)
  BY DEF Finish, Leave, LoadEntity, Busy, Typed, StoreInv, Sessions
<1>2. CASE Finish(w)
  <2> DEFINE t == [s EXCEPT !.pc = "done"]
  <2>1. /\ t.pc = "done" /\ t.job = s.job /\ t.ids = s.ids /\ t.mem = s.mem
    BY <1>1 DEF SessionType
  <2>2. Set(w, t)
    BY <1>2 DEF Finish
  <2> HIDE DEF t
  <2>3. Knows(t, rows, edges, contested, renamed)
    BY <1>1, <2>1, NextKnows
  <2> QED  BY <1>1, <2>1, <2>2, <2>3, ReadOnly
<1>3. CASE End(w)
  <2>1. Set(w, Idle) /\ Idle.pc = "idle"
    BY <1>3 DEF End, Idle
  <2> QED  BY <1>1, <2>1, ReadOnly
<1>4. CASE s.pc = "load" /\ s.saw.id \in RowIds /\ Set(w, [s EXCEPT !.pc = "change", !.saw = RowOf(s.saw.id)])
  <2> DEFINE r == RowOf(s.saw.id)
             t == [s EXCEPT !.pc = "change", !.saw = r]
  <2>1. r \in rows /\ r.id = s.saw.id
    BY <1>4, RowOfId DEF Typed
  <2>2. Set(w, t)
    BY <1>4
  <2> HIDE DEF r
  <2>3. /\ t.pc = "change" /\ t.job = s.job /\ t.ids = s.ids /\ t.mem = s.mem /\ t.saw = r
    BY <1>1 DEF SessionType
  <2> HIDE DEF t
  <2>4. KnowsRow(t, rows, contested, renamed)
    <3>1. \A q \in rows : q.id = r.id => q = r
      BY <2>1 DEF Typed, Tables
    <3>2. r.name \notin renamed => r.name \in Mentions(s.job)
      BY <1>1, <1>4, <2>1 DEF Knows, KnowsRow
    <3> QED  BY <2>3, <3>1, <3>2 DEF KnowsRow
  <2>5. Knows(t, rows, edges, contested, renamed)
    BY <1>1, <2>3, <2>4 DEF Knows, KnowsKeys, KnowsCopies, KnowsGap, KnowsEdges
  <2> QED  BY <1>1, <2>2, <2>3, <2>5, ReadOnly
<1> QED  BY <1>2, <1>3, <1>4 DEF Leave, LoadEntity

LEMMA StoredFields ==
  ASSUME NEW s \in SessionType, NEW r
  PROVE  LET t == [s EXCEPT !.pc = "next", !.items = Tail(@),
                            !.ids = With(@, Head(s.items).key, r.id),
                            !.mem = {m \in @ : m.id # r.id} \cup {r}]
         IN /\ t.pc = "next" /\ t.job = s.job /\ t.ids = With(s.ids, Head(s.items).key, r.id)
            /\ t.mem = {m \in s.mem : m.id # r.id} \cup {r}
            /\ t.items = Tail(s.items) /\ t.links = s.links /\ t.solo = s.solo /\ t.was = s.was
<1> DEFINE ids == With(s.ids, Head(s.items).key, r.id)
           mem == {m \in s.mem : m.id # r.id} \cup {r}
           u == [[[s EXCEPT !.pc = "next", !.items = Tail(@)] EXCEPT !.ids = ids] EXCEPT !.mem = mem]
           t == [s EXCEPT !.pc = "next", !.items = Tail(@),
                          !.ids = With(@, Head(s.items).key, r.id),
                          !.mem = {m \in @ : m.id # r.id} \cup {r}]
<1> HIDE DEF ids, mem
<1>1. t = u
  BY DEF SessionType, ids, mem
<1>2. /\ u.pc = "next" /\ u.job = s.job /\ u.ids = ids /\ u.mem = mem
      /\ u.items = Tail(s.items) /\ u.links = s.links /\ u.solo = s.solo /\ u.was = s.was
  BY DEF SessionType
<1> HIDE DEF u, t
<1>3. /\ t.pc = "next" /\ t.job = s.job /\ t.ids = ids /\ t.mem = mem
      /\ t.items = Tail(s.items) /\ t.links = s.links /\ t.solo = s.solo /\ t.was = s.was
  BY <1>1, <1>2
<1> QED  BY <1>3 DEF t, ids, mem

\* The item at hand has a row, r, of its name, and the session knows it.
LEMMA StoredKnows ==
  ASSUME NEW s \in SessionType, NEW R, NEW E, NEW C, NEW N, KnowsKeys(s, R, N),
         NEW r \in RowRec, Head(s.items).key \in Keys,
         \A m \in s.mem, q \in R : m.id # r.id /\ q.id = m.id /\ q.name \notin N =>
           q.name \in Mentions(s.job) /\ (q.name \notin C => m = q),
         \A q \in R : q.id = r.id /\ q.name \notin N =>
           /\ q.name = KeyName(s.job, Head(s.items).key) /\ q.name \in Mentions(s.job)
           /\ q.name \notin C => r = q,
         NEW t, t.pc = "next", t.job = s.job, t.ids = With(s.ids, Head(s.items).key, r.id),
         t.mem = {m \in s.mem : m.id # r.id} \cup {r}
  PROVE  Knows(t, R, E, C, N)
<1> DEFINE key == Head(s.items).key
           ids == With(s.ids, key, r.id)
           mem == {m \in s.mem : m.id # r.id} \cup {r}
<1>1. t.pc = "next" /\ t.job = s.job /\ t.ids = ids /\ t.mem = mem
  OBVIOUS
<1>2. key \in Keys /\ r.id \in Ids /\ s.ids \in KeyMaps
  BY DEF SessionType, RowRec
<1>3. /\ DOMAIN ids = DOMAIN s.ids \cup {key} /\ ids[key] = r.id
      /\ \A x \in DOMAIN s.ids : x # key => ids[x] = s.ids[x]
  <2> HIDE DEF key
  <2>1. \A f \in KeyMaps, k \in Keys, i \in Ids :
          /\ DOMAIN With(f, k, i) = DOMAIN f \cup {k} /\ With(f, k, i)[k] = i
          /\ \A x \in DOMAIN f : x # k => With(f, k, i)[x] = f[x]
    BY ONLY MoreKeys
  <2>2. /\ DOMAIN With(s.ids, key, r.id) = DOMAIN s.ids \cup {key} /\ With(s.ids, key, r.id)[key] = r.id
        /\ \A x \in DOMAIN s.ids : x # key => With(s.ids, key, r.id)[x] = s.ids[x]
    BY ONLY <1>2, <2>1
  <2> QED  BY <2>2
<1> HIDE DEF ids
<1>4. KnowsKeys(t, R, N)
  <2> SUFFICES ASSUME NEW k \in DOMAIN t.ids, NEW q \in R, q.id = t.ids[k], q.name \notin N
               PROVE  q.name = KeyName(t.job, k) /\ q.name \in Mentions(t.job)
    BY DEF KnowsKeys
  <2>1. CASE k = key
    BY <1>1, <1>3, <2>1
  <2>2. CASE k # key
    BY <1>1, <1>3, <2>2 DEF KnowsKeys
  <2> QED  BY <2>1, <2>2
<1>5. KnowsCopies(t, R, C, N)
  <2> SUFFICES ASSUME NEW m \in t.mem, NEW q \in R, q.id = m.id, q.name \notin N
               PROVE  q.name \in Mentions(t.job) /\ (q.name \notin C => m = q)
    BY DEF KnowsCopies
  <2>1. CASE m = r
    BY <1>1, <2>1
  <2>2. CASE m # r
    BY <1>1, <2>2
  <2> QED  BY <2>1, <2>2
<1> QED  BY <1>1, <1>4, <1>5 DEF Knows, KnowsRow, KnowsGap, KnowsEdges

LEMMA FindEntityKeeps ==
  ASSUME Typed, StoreInv, NEW w \in Writers, FindEntity(w)
  PROVE  StoreInv'
<1> DEFINE s == wk[w]
           item == Head(s.items)
           found == Named(item.name)
<1>1. /\ Busy(w) /\ UNCHANGED <<rows, edges, nextId, history>> /\ s.items # <<>> /\ s.pc = "next"
      /\ s \in SessionType /\ Knows(s, rows, edges, contested, renamed) /\ Tables
  BY DEF FindEntity, Busy, Typed, StoreInv, Sessions
<1>2. /\ KeyName(s.job, item.key) = item.name /\ item.name \in Mentions(s.job)
      /\ item.key \in Keys
  BY <1>1, ItemOfJob, ItemAtHand DEF ItemType
<1>3. CASE found = {} /\ Set(w, [s EXCEPT !.pc = "insert"])
  <2> DEFINE t == [s EXCEPT !.pc = "insert"]
  <2>1. /\ t.pc = "insert" /\ t.job = s.job /\ t.ids = s.ids /\ t.mem = s.mem /\ t.items = s.items
    BY <1>1 DEF SessionType
  <2>2. Set(w, t)
    BY <1>3
  <2> HIDE DEF t
  <2>3. KnowsGap(t, rows, contested \cup renamed)
    BY <1>3, <2>1 DEF KnowsGap, Named
  <2>4. Knows(t, rows, edges, contested, renamed)
    BY <1>1, <2>1, <2>3 DEF Knows, KnowsKeys, KnowsCopies, KnowsRow, KnowsEdges
  <2> QED  BY <1>1, <2>1, <2>2, <2>4, ReadOnly
<1>4. CASE \E r \in found : Stored(w, r)
  <2>1. PICK r \in rows : Stored(w, r) /\ r.name = item.name
    BY <1>4 DEF Named
  <2>2. r \in RowRec /\ \A q \in rows : q.id = r.id => q = r
    BY <1>1 DEF Tables
  <2> DEFINE t == [s EXCEPT !.pc = "next", !.items = Tail(@),
                            !.ids = With(@, Head(s.items).key, r.id),
                            !.mem = {m \in @ : m.id # r.id} \cup {r}]
  <2>3. Set(w, t)
    BY <2>1 DEF Stored
  <2>4. \A m \in s.mem, q \in rows : m.id # r.id /\ q.id = m.id /\ q.name \notin renamed =>
          q.name \in Mentions(s.job) /\ (q.name \notin contested => m = q)
    BY <1>1 DEF Knows, KnowsCopies
  <2>5. KnowsKeys(s, rows, renamed)
    BY <1>1 DEF Knows
  <2>6. /\ t.pc = "next" /\ t.job = s.job /\ t.ids = With(s.ids, item.key, r.id)
        /\ t.mem = {m \in s.mem : m.id # r.id} \cup {r}
    BY <1>1, StoredFields
  <2> HIDE DEF t
  <2>7. \A q \in rows : q.id = r.id /\ q.name \notin renamed =>
          /\ q.name = KeyName(s.job, item.key) /\ q.name \in Mentions(s.job)
          /\ q.name \notin contested => r = q
    BY <1>2, <2>1, <2>2
  <2>8. Knows(t, rows, edges, contested, renamed)
    BY <1>1, <1>2, <2>2, <2>4, <2>5, <2>6, <2>7, StoredKnows
  <2> QED  BY <1>1, <2>3, <2>6, <2>8, ReadOnly
<1>5. CASE \E r \in found : Set(w, [s EXCEPT !.pc = "merge", !.saw = Remembered(w, r),
                                             !.mem = @ \cup {Remembered(w, r)}])
  <2>1. PICK r \in rows : r.name = item.name /\
               Set(w, [s EXCEPT !.pc = "merge", !.saw = Remembered(w, r),
                                !.mem = @ \cup {Remembered(w, r)}])
    BY <1>5 DEF Named
  <2> DEFINE m == Remembered(w, r)
             t == [s EXCEPT !.pc = "merge", !.saw = m, !.mem = @ \cup {m}]
  <2>2. m.id = r.id /\ m \in s.mem \cup {r}
    BY RememberedRow
  <2>3. r.name \notin renamed /\ r.name \notin contested => m = r
    BY <1>1, <2>2 DEF Knows, KnowsCopies
  <2>4. \A q \in rows : q.id = r.id => q = r
    BY <1>1 DEF Tables
  <2>5. Set(w, t)
    BY <2>1
  <2> HIDE DEF m
  <2>6. /\ t.pc = "merge" /\ t.job = s.job /\ t.ids = s.ids /\ t.mem = s.mem \cup {m}
        /\ t.saw = m /\ t.items = s.items
    BY <1>1 DEF SessionType
  <2> HIDE DEF t
  <2>7. KnowsRow(t, rows, contested, renamed)
    BY <1>2, <2>1, <2>2, <2>3, <2>4, <2>6 DEF KnowsRow
  <2>8. KnowsCopies(t, rows, contested, renamed)
    BY <1>1, <1>2, <2>1, <2>2, <2>3, <2>4, <2>6 DEF KnowsCopies, Knows
  <2>9. Knows(t, rows, edges, contested, renamed)
    BY <1>1, <2>6, <2>7, <2>8 DEF Knows, KnowsKeys, KnowsGap, KnowsEdges
  <2> QED  BY <1>1, <2>5, <2>6, <2>9, ReadOnly
<1>6. CASE SkipItem(w)
  <2>1. CASE Set(w, [s EXCEPT !.pc = "next", !.items = Tail(@)])
    <3> DEFINE t == [s EXCEPT !.pc = "next", !.items = Tail(@)]
    <3>1. /\ t.pc = "next" /\ t.job = s.job /\ t.ids = s.ids /\ t.mem = s.mem
      BY <1>1 DEF SessionType
    <3>2. Set(w, t)
      BY <2>1
    <3> HIDE DEF t
    <3>3. Knows(t, rows, edges, contested, renamed)
      BY <1>1, <3>1, NextKnows
    <3> QED  BY <1>1, <3>1, <3>2, <3>3, ReadOnly
  <2>2. CASE End(w)
    <3>1. Set(w, Idle) /\ Idle.pc = "idle"
      BY <2>2 DEF End, Idle
    <3> QED  BY <1>1, <3>1, ReadOnly
  <2> QED  BY <1>6, <2>1, <2>2 DEF SkipItem
<1> QED  BY <1>3, <1>4, <1>5, <1>6 DEF FindEntity

-----------------------------------------------------------------------------
(* Steps that write. *)

LEMMA InsertEntityKeeps ==
  ASSUME Typed, Typed', StoreInv, NEW w \in Writers, InsertEntity(w)
  PROVE  StoreInv'
<1> DEFINE s == wk[w]
           item == Head(s.items)
           r == Row(nextId, item)
           t == [s EXCEPT !.pc = "next", !.items = Tail(@),
                          !.ids = With(@, Head(s.items).key, r.id),
                          !.mem = {m \in @ : m.id # r.id} \cup {r}]
<1>1. /\ Busy(w) /\ s.pc = "insert" /\ s.items # <<>> /\ s \in SessionType /\ Session(s, nextId)
      /\ Knows(s, rows, edges, contested, renamed) /\ Tables /\ Tables'
  BY DEF InsertEntity, Busy, Typed, StoreInv, Sessions, Session, InOrder
<1>2. /\ item \in ItemType /\ KeyName(s.job, item.key) = item.name /\ item.name \in Mentions(s.job)
      /\ item.key \in Keys
  BY <1>1, ItemOfJob, ItemAtHand DEF ItemType
<1>3. nextId \in Ids /\ nextId \in Nat
  BY EntityStoreAssumption DEF InsertEntity, Typed, Tables, Ids
<1>4. r \in RowRec /\ r.id = nextId /\ r.name = item.name
  BY <1>2, <1>3, NewRow
<1>5. rows' = rows \cup {r} /\ edges' = edges /\ contested' = contested /\ renamed' = renamed
  BY DEF InsertEntity
<1>7. Set(w, t)
  BY DEF InsertEntity, Stored
<1>8. /\ t.pc = "next" /\ t.job = s.job /\ t.ids = With(s.ids, item.key, r.id)
      /\ t.mem = {m \in s.mem : m.id # r.id} \cup {r}
  BY <1>1, StoredFields
<1> HIDE DEF t, r, item
<1>9. /\ \A q \in rows' : q.id # nextId => q \in rows
      /\ \A q \in rows' : q.id = nextId => q = r
  <2>1. r \in rows'
    BY <1>5
  <2> QED  BY <1>1, <1>4, <1>5, <2>1 DEF Tables
<1>10. RowsBy(Mentions(s.job)) /\ EdgesBy(Mentions(s.job)) /\ Mono
  BY <1>2, <1>4, <1>5 DEF RowsBy, EdgesBy, Mono
<1>11. Knows(t, rows', edges', contested', renamed')
  <2>1. KnowsKeys(s, rows', renamed')
    <3>1. \A k \in DOMAIN s.ids : s.ids[k] # nextId
      BY <1>1, <1>3 DEF Session, Recent
    <3> QED  BY <1>1, <1>5, <1>9, <3>1 DEF Knows, KnowsKeys
  <2>2. \A m \in s.mem, q \in rows' : m.id # r.id /\ q.id = m.id /\ q.name \notin renamed' =>
          q.name \in Mentions(s.job) /\ (q.name \notin contested' => m = q)
    BY <1>1, <1>4, <1>5, <1>9 DEF Knows, KnowsCopies
  <2>3. \A q \in rows' : q.id = r.id /\ q.name \notin renamed' =>
          /\ q.name = KeyName(s.job, item.key) /\ q.name \in Mentions(s.job)
          /\ q.name \notin contested' => r = q
    BY <1>2, <1>4, <1>9
  <2> QED  BY <1>1, <1>2, <1>4, <1>8, <2>1, <2>2, <2>3, StoredKnows DEF item
<1>12. Sessions' /\ Apart'
  BY <1>1, <1>7, <1>8, <1>10, <1>11, StepSessions DEF StoreInv
<1>13. OneName'
  <2>1. \A q \in rows', x \in rows : q.id = nextId /\ q.name = x.name => q.name \in Excused'
    BY <1>1, <1>4, <1>5, <1>9 DEF Knows, KnowsGap, Excused, item
  <2> QED  BY <1>1, <1>10, <2>1, NamesStay DEF StoreInv
<1>14. OneEdge' /\ Meant'
  BY <1>1, <1>5, <1>10, EdgesStay DEF StoreInv
<1> QED  BY <1>12, <1>13, <1>14 DEF StoreInv

LEMMA MergeEntityKeeps ==
  ASSUME Typed, Typed', StoreInv, NEW w \in Writers, MergeEntity(w)
  PROVE  StoreInv'
<1> DEFINE s == wk[w]
           item == Head(s.items)
           id == s.saw.id
           there == RowOf(id)
           new == Written(s.saw, Merged(s.saw, item), there)
           t == [s EXCEPT !.pc = "next", !.items = Tail(@),
                          !.ids = With(@, Head(s.items).key, new.id),
                          !.mem = {m \in @ : m.id # new.id} \cup {new}]
<1>1. /\ Busy(w) /\ s.pc = "merge" /\ s.items # <<>> /\ s \in SessionType /\ s.saw \in RowRec
      /\ Knows(s, rows, edges, contested, renamed) /\ Tables /\ Tables'
  BY DEF MergeEntity, Busy, Typed, StoreInv, Sessions, Session, InOrder
<1>2. /\ item \in ItemType /\ KeyName(s.job, item.key) = item.name /\ item.name \in Mentions(s.job)
      /\ item.key \in Keys
  BY <1>1, ItemOfJob, ItemAtHand DEF ItemType
<1>3. edges' = edges /\ nextId' = nextId /\ contested' = contested /\ renamed' = renamed
  BY DEF MergeEntity
<1>4. CASE id \notin RowIds
  <2>1. End(w) /\ UNCHANGED <<rows, edges, nextId, history>>
    BY <1>3, <1>4 DEF MergeEntity, history
  <2>2. Set(w, Idle) /\ Idle.pc = "idle"
    BY <2>1 DEF End, Idle
  <2> QED  BY <1>1, <2>1, <2>2, ReadOnly
<1>5. CASE id \in RowIds
  <2>1. there \in rows /\ there.id = id
    BY <1>1, <1>5, RowOfId
  <2>2. /\ new \in RowRec /\ new.id = id /\ new.name = there.name
        /\ s.saw = there => new = Merged(s.saw, item)
    BY <1>1, <1>5, MergeWrites
  <2>3. Replace(id, new) /\ Stored(w, new)
    BY <1>5 DEF MergeEntity
  <2>4. Set(w, t)
    BY <2>3 DEF Stored
  <2>5. /\ t.pc = "next" /\ t.job = s.job /\ t.ids = With(s.ids, item.key, new.id)
        /\ t.mem = {m \in s.mem : m.id # new.id} \cup {new}
    BY <1>1, StoredFields
  <2> HIDE DEF t, new, there, item
  <2>6. /\ \A q \in rows' : q = new \/ (q \in rows /\ q.id # id)
        /\ \A q \in rows' : q.id = id => q = new
    BY <1>1, <1>5, <2>2, <2>3, ReplaceRows
  <2>7. there.name \notin renamed =>
          /\ there.name = item.name /\ there.name \in Mentions(s.job)
          /\ there.name \notin contested => s.saw = there
    BY <1>1, <2>1 DEF Knows, KnowsRow, item
  <2>8. RowsBy(Mentions(s.job)) /\ EdgesBy(Mentions(s.job)) /\ Mono
    BY <1>3, <2>1, <2>2, <2>6, <2>7 DEF RowsBy, EdgesBy, Mono
  <2>9. Knows(t, rows', edges', contested', renamed')
    <3>1. KnowsKeys(s, rows', renamed')
      <4>1. KnowsKeys(s, rows, renamed)
        BY <1>1 DEF Knows
      <4> QED  BY <1>3, <2>1, <2>2, <2>6, <4>1 DEF KnowsKeys
    <3>2. \A m \in s.mem, q \in rows' : m.id # new.id /\ q.id = m.id /\ q.name \notin renamed' =>
            q.name \in Mentions(s.job) /\ (q.name \notin contested' => m = q)
      BY <1>1, <1>3, <2>2, <2>6 DEF Knows, KnowsCopies
    <3>3. \A q \in rows' : q.id = new.id /\ q.name \notin renamed' =>
            /\ q.name = KeyName(s.job, item.key) /\ q.name \in Mentions(s.job)
            /\ q.name \notin contested' => new = q
      BY <1>2, <1>3, <2>2, <2>6, <2>7
    <3> QED  BY <1>1, <1>2, <2>2, <2>5, <3>1, <3>2, <3>3, StoredKnows DEF item
  <2>10. Sessions' /\ Apart'
    BY <1>1, <2>4, <2>5, <2>8, <2>9, StepSessions DEF StoreInv
  <2>11. OneName'
    <3>1. \A q \in rows' : q.id # nextId
      BY <1>1, <1>3 DEF Tables, RowRec, Ids
    <3> QED  BY <1>1, <2>8, <3>1, NamesStay DEF StoreInv
  <2>12. OneEdge' /\ Meant'
    BY <1>1, <1>3, <2>8, EdgesStay DEF StoreInv
  <2> QED  BY <2>10, <2>11, <2>12 DEF StoreInv
<1> QED  BY <1>4, <1>5

LEMMA ChangeEntityKeeps ==
  ASSUME Typed, Typed', StoreInv, NEW w \in Writers, ChangeEntity(w)
  PROVE  StoreInv'
<1> DEFINE s == wk[w]
           j == s.job
           id == s.saw.id
           there == RowOf(id)
           new == Written(s.saw, Changed(j, s.saw), there)
<1>1. /\ Busy(w) /\ s.pc = "change" /\ j.kind # "delete" /\ j.kind \in Edits /\ s.saw \in RowRec
      /\ Knows(s, rows, edges, contested, renamed) /\ Tables /\ Tables'
  BY DEF ChangeEntity, Busy, Typed, StoreInv, Sessions, Session, InOrder
<1>2. edges' = edges /\ nextId' = nextId /\ contested' = contested
  BY DEF ChangeEntity
<1>3. Set(w, Idle) /\ Idle.pc = "idle"
  BY DEF ChangeEntity, End, Idle
<1>4. CASE id \notin RowIds
  <2>1. UNCHANGED <<rows, edges, nextId, history>>
    BY <1>2, <1>4 DEF ChangeEntity, history
  <2> QED  BY <1>1, <1>3, <2>1, ReadOnly
<1>5. CASE id \in RowIds
  <2>1. there \in rows /\ there.id = id
    BY <1>1, <1>5, RowOfId
  <2>2. /\ new \in RowRec /\ new.id = id
        /\ j.kind # "rename" => new.name = there.name
        /\ s.saw = there => new = Changed(j, s.saw)
    BY <1>1, <1>5, ChangeWrites
  <2>3. /\ Replace(id, new)
        /\ renamed' = IF j.kind = "rename" THEN renamed \cup {new.name} ELSE renamed
    BY <1>5 DEF ChangeEntity
  <2>4. j.kind = "icon" => Changed(j, s.saw) = [s.saw EXCEPT !.icon = "own"]
    BY DEF Changed
  <2> HIDE DEF new, there, j
  <2>5. /\ \A q \in rows' : q = new \/ (q \in rows /\ q.id # id)
        /\ \A q \in rows' : q.id = id => q = new
    BY <1>1, <1>5, <2>2, <2>3, ReplaceRows
  <2>6. there.name \notin renamed =>
          there.name \in Mentions(j) /\ (there.name \notin contested => s.saw = there)
    BY <1>1, <2>1 DEF Knows, KnowsRow, j
  <2>7. RowsBy(Mentions(j)) /\ EdgesBy(Mentions(j)) /\ Mono
    <3>1. Mono
      BY <1>2, <2>3 DEF Mono
    <3>2. new.name \in {there.name} \cup renamed' /\ there.name \in renamed' \cup Mentions(j)
      BY <2>2, <2>3, <2>6, <3>1 DEF Mono
    <3>3. RowsBy(Mentions(j))
      BY <2>1, <2>2, <2>5, <3>2 DEF RowsBy
    <3> QED  BY <1>2, <3>1, <3>3 DEF EdgesBy
  <2>8. Sessions' /\ Apart'
    BY <1>1, <1>3, <2>7, StepSessions DEF StoreInv, j
  <2>9. OneName'
    <3>1. \A q \in rows' : q.id # nextId
      BY <1>1, <1>2 DEF Tables, RowRec, Ids
    <3> QED  BY <1>1, <2>7, <3>1, NamesStay DEF StoreInv
  <2>10. OneEdge' /\ Meant'
    BY <1>1, <1>2, <2>7, EdgesStay DEF StoreInv
  <2> QED  BY <2>8, <2>9, <2>10 DEF StoreInv
<1> QED  BY <1>4, <1>5

LEMMA DeleteEntityKeeps ==
  ASSUME Typed, Typed', StoreInv, NEW w \in Writers, DeleteEntity(w)
  PROVE  StoreInv'
<1> DEFINE J == Mentions(wk[w].job)
<1>1. /\ Busy(w) /\ rows' \subseteq rows /\ edges' \subseteq edges
      /\ nextId' = nextId /\ contested' = contested /\ renamed' = renamed
      /\ Tables /\ Tables'
  BY DEF DeleteEntity, Busy, Typed
<1>2. Set(w, Idle) /\ Idle.pc = "idle"
  BY DEF DeleteEntity, End, Idle
<1>3. RowsBy(J) /\ EdgesBy(J) /\ Mono
  BY <1>1 DEF RowsBy, EdgesBy, Mono
<1>4. Sessions' /\ Apart'
  BY <1>1, <1>2, <1>3, StepSessions DEF StoreInv
<1>5. OneName'
  BY <1>1 DEF StoreInv, OneName, Excused
<1>6. OneEdge' /\ Meant'
  BY <1>1, <1>3, EdgesStay DEF StoreInv
<1> QED  BY <1>4, <1>5, <1>6 DEF StoreInv

LEMMA InsertEdgeKeeps ==
  ASSUME Typed, Typed', StoreInv, NEW w \in Writers, InsertEdge(w)
  PROVE  StoreInv'
<1> DEFINE s == wk[w]
           l == Head(s.links)
           J == Mentions(s.job)
<1>1. /\ Busy(w) /\ s.pc = "insert edge" /\ s.links # <<>> /\ s \in SessionType
      /\ Knows(s, rows, edges, contested, renamed) /\ Tables /\ Tables'
  BY DEF InsertEdge, Busy, Typed, StoreInv, Sessions, Session, InOrder
<1>2. rows' = rows /\ UNCHANGED history
  BY DEF InsertEdge
<1>3. CASE edges' = edges \cup {Edge(w, nextId, l)} /\ nextId' = nextId + 1 /\ SkipLink(w)
  <2> DEFINE e == Edge(w, nextId, l)
             t == [s EXCEPT !.pc = "next", !.links = Tail(@)]
  <2>1. l.from \in DOMAIN s.ids /\ l.to \in DOMAIN s.ids
        /\ \A d \in edges : Same(d, <<s.ids[l.from], s.ids[l.to]>>, l) => Hit(d, rows, Excused)
    BY <1>1 DEF Knows, KnowsEdges, Excused
  <2>2. /\ e.src = s.ids[l.from] /\ e.tgt = s.ids[l.to] /\ e.label = l.label
        /\ e.meant[1] = KeyName(s.job, l.from) /\ e.meant[2] = KeyName(s.job, l.to)
    BY DEF Edge, Ends, NameOfEnd, KeyName
  <2>3. /\ t.pc = "next" /\ t.job = s.job /\ t.ids = s.ids /\ t.mem = s.mem
    BY <1>1 DEF SessionType
  <2>4. Set(w, t)
    BY <1>3 DEF SkipLink
  <2>5. edges' = edges \cup {e}
    BY <1>3
  <2> HIDE DEF t, e
  <2>6. \A q \in rows : q.name \notin renamed =>
          /\ q.id = e.src => q.name = e.meant[1] /\ q.name \in J
          /\ q.id = e.tgt => q.name = e.meant[2] /\ q.name \in J
    <3>1. KnowsKeys(s, rows, renamed)
      BY <1>1 DEF Knows
    <3> QED  BY <2>1, <2>2, <3>1 DEF KnowsKeys
  <2>7. RowsBy(J) /\ EdgesBy(J) /\ Mono
    <3>1. RowsBy(J) /\ Mono
      BY <1>2 DEF RowsBy, Mono, history
    <3>2. EdgesBy(J)
      BY <1>2, <2>5, <2>6 DEF EdgesBy, history
    <3> QED  BY <3>1, <3>2
  <2>8. Knows(t, rows', edges', contested', renamed')
    BY <1>1, <1>2, <2>3, NextKnows DEF history
  <2>9. Sessions' /\ Apart'
    BY <1>1, <2>3, <2>4, <2>7, <2>8, StepSessions DEF StoreInv
  <2>10. OneEdge'
    <3>1. Excused' = Excused /\ \A d : Hit(d, rows', Excused') <=> Hit(d, rows, Excused)
      BY <1>2 DEF Excused, history
    <3>2. \A d \in edges : d.src = e.src /\ d.tgt = e.tgt /\ d.label = e.label =>
            Hit(d, rows, Excused) /\ Hit(e, rows, Excused)
      <4>1. \A d \in edges : d.src = e.src /\ d.tgt = e.tgt /\ d.label = e.label => Hit(d, rows, Excused)
        BY <2>1, <2>2 DEF Same
      <4> QED  BY <4>1 DEF Hit
    <3> QED  BY <2>5, <3>1, <3>2 DEF StoreInv, OneEdge
  <2>11. Meant'
    BY <1>2, <2>5, <2>6 DEF StoreInv, Meant, history
  <2>12. OneName'
    BY <1>2 DEF StoreInv, OneName, Excused, history
  <2> QED  BY <2>9, <2>10, <2>11, <2>12 DEF StoreInv
<1>4. CASE End(w) /\ UNCHANGED <<edges, nextId>>
  <2>1. UNCHANGED <<rows, edges, nextId, history>>
    BY <1>2, <1>4
  <2>2. Set(w, Idle) /\ Idle.pc = "idle"
    BY <1>4 DEF End, Idle
  <2> QED  BY <1>1, <2>1, <2>2, ReadOnly
<1> QED  BY <1>3, <1>4 DEF InsertEdge

\* Who knows something knows it when more is contested.
LEMMA KnowsMore ==
  ASSUME NEW s, NEW t, NEW R, NEW E, NEW C, NEW D, NEW N, Knows(s, R, E, C, N), C \subseteq D,
         t.pc = s.pc, t.job = s.job, t.items = s.items, t.links = s.links,
         t.ids = s.ids, t.mem = s.mem, t.saw = s.saw
  PROVE  Knows(t, R, E, D, N)
<1>1. KnowsKeys(t, R, N) /\ KnowsCopies(t, R, D, N)
  BY DEF Knows, KnowsKeys, KnowsCopies
<1>2. KnowsRow(t, R, D, N)
  BY DEF Knows, KnowsRow
<1>3. KnowsGap(t, R, D \cup N)
  BY DEF Knows, KnowsGap
<1>4. KnowsEdges(t, R, E, D \cup N)
  <2>1. \A e \in E : Hit(e, R, C \cup N) => Hit(e, R, D \cup N)
    BY DEF Hit
  <2> QED  BY <2>1 DEF Knows, KnowsEdges
<1> QED  BY <1>1, <1>2, <1>3, <1>4 DEF Knows

\* A job that begins knows the row it is about.
LEMMA OpenedKnows ==
  ASSUME Tables, NEW j \in Jobs, NEW at \in rows \cup {None}, NEW alone \in BOOLEAN,
         j.kind \in Imports => at = None,
         j.kind \notin Imports => at \in rows /\ at.name \in j.about,
         NEW C
  PROVE  LET t == Opened(j, at, alone) IN
           t.job = j /\ Knows(t, rows, edges, C, renamed)
<1> DEFINE t == Opened(j, at, alone)
<1>1. j \in JobType /\ WellKeyed(j.items)
  BY JobFacts
<1>2. /\ t.job = j /\ t.pc \in {"read", "load", "next"} /\ t.saw = at
      /\ t.pc = "load" => j.kind \in Edits
      /\ j.kind \in Imports => t.ids = <<>>
      /\ j.kind \notin Imports => t.ids = With(<<>>, at.name, at.id)
      /\ t.mem = IF j.kind = "direct" THEN {at} ELSE {}
  BY DEF Opened, Start
<1> HIDE DEF t
<1>3. CASE j.kind \in Imports
  <2>1. DOMAIN t.ids = {} /\ t.mem = {} /\ t.pc # "load"
    BY <1>2, <1>3, EmptyMap DEF Imports, Edits
  <2> QED  BY <1>2, <2>1 DEF Knows, KnowsKeys, KnowsCopies, KnowsRow, KnowsGap, KnowsEdges, t
<1>4. CASE j.kind \notin Imports
  <2>1. at \in rows /\ at \in RowRec /\ \A q \in rows : q.id = at.id => q = at
    BY <1>4 DEF Tables
  <2>2. at.name \in Names /\ at.name \in Mentions(j) /\ KeyName(j, at.name) = at.name
    <3>1. at.name \in Names /\ at.name # None
      BY <2>1, EntityStoreAssumption DEF RowRec
    <3>2. at.name \in Mentions(j)
      BY <1>4, <3>1 DEF Mentions
    <3> QED  BY <1>1, <3>1, <3>2, KeyOfName
  <2>3. DOMAIN t.ids = {at.name} /\ t.ids[at.name] = at.id
    <3>1. at.name \in Keys /\ at.id \in Ids
      BY <2>1 DEF RowRec, Keys
    <3>2. DOMAIN With(<<>>, at.name, at.id) = {at.name} /\ With(<<>>, at.name, at.id)[at.name] = at.id
      BY <3>1, FirstKey
    <3> QED  BY <1>2, <1>4, <3>2
  <2>4. KnowsKeys(t, rows, renamed)
    BY <1>2, <2>1, <2>2, <2>3 DEF KnowsKeys
  <2>5. KnowsCopies(t, rows, C, renamed)
    BY <1>2, <2>1, <2>2 DEF KnowsCopies
  <2>6. KnowsRow(t, rows, C, renamed)
    BY <1>2, <2>1, <2>2 DEF KnowsRow
  <2> QED  BY <1>2, <2>4, <2>5, <2>6 DEF Knows, KnowsGap, KnowsEdges, t
<1> QED  BY <1>3, <1>4

LEMMA BeginKeeps ==
  ASSUME Typed, StoreInv, NEW w \in Writers, NEW j \in Jobs, Begin(w, j)
  PROVE  StoreInv'
<1> DEFINE others == {v \in Writers : Busy(v)}
           shared == Mentions(j) \cap UNION {Mentions(wk[v].job) : v \in others}
<1>1. PICK at \in IF j.kind \in Imports THEN {None} ELSE rows :
        /\ j.kind \notin Imports => at.name \in j.about
        /\ wk' = [v \in Writers |-> IF v = w THEN Opened(j, at, others = {}) ELSE [wk[v] EXCEPT !.solo = FALSE]]
        /\ contested' = contested \cup shared
  BY DEF Begin
<1>2. /\ ~ Busy(w) /\ rows' = rows /\ edges' = edges /\ nextId' = nextId /\ renamed' = renamed
      /\ Tables
  BY DEF Begin, Typed
<1>3. /\ at \in rows \cup {None} /\ (others = {}) \in BOOLEAN
      /\ j.kind \in Imports => at = None
      /\ j.kind \notin Imports => at \in rows /\ at.name \in j.about
  BY <1>1
<1> DEFINE t == Opened(j, at, others = {})
<1>4. t.job = j /\ Knows(t, rows, edges, contested', renamed)
  BY <1>2, <1>3, OpenedKnows
<1>5. wk'[w] = t /\ \A v \in Writers : v # w => wk'[v] = [wk[v] EXCEPT !.solo = FALSE]
  BY <1>1
<1> HIDE DEF t
<1>6. \A v \in Writers : v # w =>
        /\ wk'[v].pc = wk[v].pc /\ wk'[v].job = wk[v].job /\ wk'[v].items = wk[v].items
        /\ wk'[v].links = wk[v].links /\ wk'[v].ids = wk[v].ids /\ wk'[v].mem = wk[v].mem
        /\ wk'[v].saw = wk[v].saw
  <2> TAKE v \in Writers
  <2> HAVE v # w
  <2> DEFINE s == wk[v]
  <2>1. wk'[v] = [s EXCEPT !.solo = FALSE] /\ s \in SessionType
    BY <1>5 DEF Typed
  <2> HIDE DEF s
  <2>2. LET u == [s EXCEPT !.solo = FALSE] IN
          /\ u.pc = s.pc /\ u.job = s.job /\ u.items = s.items /\ u.links = s.links
          /\ u.ids = s.ids /\ u.mem = s.mem /\ u.saw = s.saw
    BY <2>1 DEF SessionType
  <2> QED  BY <2>1, <2>2 DEF s
<1>7. contested \subseteq contested'
  BY <1>1
<1>8. Sessions'
  <2>1. ASSUME NEW v \in Writers, Busy(v)', v # w
        PROVE  Knows(wk'[v], rows, edges, contested', renamed)
    <3>1. Knows(wk[v], rows, edges, contested, renamed)
      BY <1>6, <2>1 DEF Busy, StoreInv, Sessions
    <3> QED  BY <1>6, <1>7, <2>1, <3>1, KnowsMore
  <2> QED  BY <1>2, <1>4, <1>5, <2>1 DEF Sessions
<1>9. Apart'
  <2>1. ASSUME NEW v \in Writers, v # w, Busy(v)'
        PROVE  Mentions(wk'[w].job) \cap Mentions(wk'[v].job) \subseteq contested'
    <3>1. v \in others /\ wk'[v].job = wk[v].job /\ wk'[w].job = j
      BY <1>4, <1>5, <1>6, <2>1 DEF Busy
    <3> QED  BY <1>1, <3>1
  <2>2. ASSUME NEW u \in Writers, NEW v \in Writers, u # v, u # w, v # w, Busy(u)', Busy(v)'
        PROVE  Mentions(wk'[u].job) \cap Mentions(wk'[v].job) \subseteq contested'
    <3>1. Mentions(wk[u].job) \cap Mentions(wk[v].job) \subseteq contested
      BY <1>6, <2>2 DEF Busy, StoreInv, Apart
    <3> QED  BY <1>6, <1>7, <2>2, <3>1
  <2> QED  BY <2>1, <2>2 DEF Apart
<1>10. OneName' /\ Meant'
  BY <1>2, <1>7 DEF StoreInv, OneName, Meant, Excused
<1>11. OneEdge'
  <2>1. \A e \in edges : Hit(e, rows, Excused) => Hit(e, rows', Excused')
    BY <1>2, <1>7 DEF Hit, Excused
  <2> QED  BY <1>2, <2>1 DEF StoreInv, OneEdge
<1> QED  BY <1>8, <1>9, <1>10, <1>11 DEF StoreInv

-----------------------------------------------------------------------------
(* The invariant and what follows from it. *)

LEMMA InitKeeps == Init => StoreInv
<1> SUFFICES ASSUME Init PROVE StoreInv
  OBVIOUS
<1>1. \A w \in Writers : ~ Busy(w)
  BY DEF Init, Idle, Busy
<1>2. edges = {} /\ \A r, s \in rows : r = s
  BY DEF Init
<1> QED  BY <1>1, <1>2 DEF StoreInv, Sessions, Apart, OneName, OneEdge, Meant

\* What a session that is about to insert an edge knows includes its ends.
LEMMA KnownEndsJoin == Typed /\ StoreInv => Joining
<1> SUFFICES ASSUME Typed, StoreInv, NEW w \in Writers, wk[w].pc = "insert edge"
             PROVE  LET l == Head(wk[w].links) IN Known(w, l) /\ Ends(w, l)[1] # Ends(w, l)[2]
  BY DEF Joining, Joins
<1>1. KnowsEdges(wk[w], rows, edges, contested \cup renamed)
  BY DEF StoreInv, Sessions, Busy, Knows
<1>2. LET l == Head(wk[w].links) IN
        {l.from, l.to} \subseteq DOMAIN wk[w].ids /\ wk[w].ids[l.from] # wk[w].ids[l.to]
  BY <1>1 DEF KnowsEdges
<1> QED  BY <1>2 DEF Known, Ends

LEMMA StoreStep ==
  ASSUME Typed, StoreInv, [Next]_vars
  PROVE  Typed' /\ StoreInv'
<1>1. Typed'
  BY KnownEndsJoin, TypedStep
<1>2. CASE UNCHANGED vars
  <2>1. Sessions' /\ Apart'
    BY <1>2 DEF vars, StoreInv, Sessions, Apart, Busy
  <2>2. OneName' /\ Meant'
    BY <1>2 DEF vars, StoreInv, OneName, Meant, Excused
  <2>3. OneEdge'
    BY <1>2 DEF vars, StoreInv, OneEdge, Hit, Excused
  <2> QED  BY <1>1, <2>1, <2>2, <2>3 DEF StoreInv
<1>3. ASSUME NEW w \in Writers, NEW j \in Jobs, Begin(w, j)  PROVE StoreInv'
  BY <1>3, BeginKeeps
<1>4. ASSUME NEW w \in Writers, Step(w)  PROVE StoreInv'
  <2>1. CASE ReadEntities(w) \/ ReadEdges(w)
    BY <1>1, <2>1, ReadEntitiesKeeps, ReadEdgesKeeps
  <2>2. CASE FindEntity(w) \/ InsertEntity(w) \/ MergeEntity(w)
    BY <1>1, <2>2, FindEntityKeeps, InsertEntityKeeps, MergeEntityKeeps
  <2>3. CASE FindEdge(w) \/ InsertEdge(w)
    BY <1>1, <2>3, FindEdgeKeeps, InsertEdgeKeeps
  <2>4. CASE Finish(w) \/ Leave(w) \/ LoadEntity(w)
    BY <2>4, RestKeeps
  <2>5. CASE ChangeEntity(w) \/ DeleteEntity(w)
    BY <1>1, <2>5, ChangeEntityKeeps, DeleteEntityKeeps
  <2> QED  BY <1>4, <2>1, <2>2, <2>3, <2>4, <2>5 DEF Step
<1> QED  BY <1>1, <1>2, <1>3, <1>4 DEF Next

\* The types and what the sessions know hold at any time.
THEOREM StoreInvHolds == Spec => [](Typed /\ StoreInv)
<1>1. Init => Typed /\ StoreInv
  BY InitTyped, InitKeeps
<1>2. Typed /\ StoreInv /\ [Next]_vars => (Typed /\ StoreInv)'
  BY StoreStep
<1> QED  BY <1>1, <1>2, PTL DEF Spec

\* As many rows as identities.
LEMMA RowsCounted ==
  ASSUME Tables
  PROVE  Cardinality(RowIds) = Cardinality(rows)
<1> DEFINE f == [r \in rows |-> r.id]
<1>1. f \in Bijection(rows, RowIds)
  BY DEF Tables, RowIds, Bijection, Injection, Surjection, IsInjective
<1>2. ExistsBijection(rows, RowIds)
  BY <1>1 DEF ExistsBijection
<1> QED  BY <1>2, FS_Bijection DEF Tables

LEMMA SoundRows == Typed /\ StoreInv => RowsAreSound
<1> SUFFICES ASSUME Typed, StoreInv PROVE RowsAreSound
  OBVIOUS
<1>1. Tables
  BY DEF Typed
<1>2. TypeOK
  <2>1. \A r \in rows : /\ r.id < nextId /\ r.name \in Names /\ r.props \subseteq Props
                        /\ r.weight \in Int /\ r.icon \in {"default", "own"}
    BY <1>1 DEF Tables, RowRec
  <2>2. \A e \in edges : e.id < nextId /\ e.label \in Labels
                         /\ e.src # e.tgt /\ {e.src, e.tgt} \subseteq RowIds
    BY <1>1 DEF Tables, EdgeRec
  <2>3. \A w \in Writers : \A k \in DOMAIN wk[w].ids : wk[w].ids[k] < nextId
    BY DEF Typed, Session, Recent
  <2> QED  BY <1>1, <2>1, <2>2, <2>3, RowsCounted DEF TypeOK
<1>3. ASSUME NEW n \in Names \ (contested \cup renamed)  PROVE Cardinality(Named(n)) <= 1
  <2>1. CASE Named(n) = {}
    BY <2>1, FS_EmptySet
  <2>2. CASE Named(n) # {}
    <3>1. PICK r : r \in Named(n)
      BY <2>2
    <3>2. Named(n) = {r}
      BY <3>1 DEF Named, StoreInv, OneName, Excused
    <3>3. Cardinality({r}) = 1
      BY FS_Singleton
    <3> QED  BY <3>2, <3>3
  <2> QED  BY <2>1, <2>2
<1>4. ASSUME NEW d \in edges, NEW e \in edges, d # e,
             <<d.src, d.tgt, d.label>> = <<e.src, e.tgt, e.label>>
      PROVE  {RowOf(e.src).name, RowOf(e.tgt).name} \cap (contested \cup renamed) # {}
  <2>1. Hit(e, rows, Excused)
    BY <1>4 DEF StoreInv, OneEdge
  <2>2. PICK r \in rows : r.id \in {e.src, e.tgt} /\ r.name \in Excused
    BY <2>1 DEF Hit
  <2>3. \A i \in {e.src, e.tgt} : RowOf(i) \in rows /\ RowOf(i).id = i
    BY <1>1, RowOfId DEF Tables
  <2>4. r = RowOf(e.src) \/ r = RowOf(e.tgt)
    BY <1>1, <2>2, <2>3 DEF Tables
  <2> QED  BY <2>2, <2>4 DEF Excused
<1> QED  BY <1>2, <1>3, <1>4 DEF RowsAreSound, OneOfEach

LEMMA MeantJoins == Typed /\ StoreInv => EdgesJoinWhatTheyMean
<1> SUFFICES ASSUME Typed, StoreInv, NEW e \in edges
             PROVE  LET joined == <<RowOf(e.src).name, RowOf(e.tgt).name>> IN
                      \A i \in {1, 2} : joined[i] = e.meant[i] \/ joined[i] \in renamed
  BY DEF EdgesJoinWhatTheyMean
<1>1. \A i \in {e.src, e.tgt} : RowOf(i) \in rows /\ RowOf(i).id = i
  BY RowOfId DEF Typed, Tables
<1>2. RowOf(e.src).name = e.meant[1] \/ RowOf(e.src).name \in renamed
  BY <1>1 DEF StoreInv, Meant
<1>3. RowOf(e.tgt).name = e.meant[2] \/ RowOf(e.tgt).name \in renamed
  BY <1>1 DEF StoreInv, Meant
<1> QED  BY <1>2, <1>3

\* entity_store.py:29-173, edge_store.py:30-66: however many sessions look
\* first and insert later, there is one row of a name that no two of them were
\* about and no update has given away, one edge of the same ends and label
\* between such rows, and no edge without both its rows.
THEOREM RowsStaySound == Spec => []RowsAreSound
BY StoreInvHolds, SoundRows, PTL

\* transform_job.py:111-121, import_.py:182-215: an edge joins the rows of the
\* names its job meant, even where jobs contest them; only a row that an update
\* has named since has another.
THEOREM EdgesStayMeant == Spec => []EdgesJoinWhatTheyMean
BY StoreInvHolds, MeantJoins, PTL

-----------------------------------------------------------------------------
(***************************************************************************)
(* What was saved.  Every session's copy of a row has what is told of the  *)
(* row, unless it is one of those that loaded the row before: a save that  *)
(* puts new properties over such a copy writes the others back.            *)
(***************************************************************************)
ToldRec == [id : Ids, prop : Props, unseen : SUBSET Writers]

Heard ==
  /\ \A x \in told : x \in ToldRec /\ x.id < nextId
  /\ OnlyUnseenIsLost
  /\ \A w \in Writers : \A m \in wk[w].mem, x \in told :
       x.id = m.id /\ w \notin x.unseen => x.prop \in m.props
  /\ \A w \in Writers : wk[w].pc = "merge" => wk[w].saw \in wk[w].mem

\* A step of w that leaves its rows with what is told of them.
LEMMA HeardStep ==
  ASSUME Typed, Heard, NEW w \in Writers, NEW t, Set(w, t),
         nextId' \in Nat, nextId <= nextId', OnlyUnseenIsLost',
         \A x \in told' : x \in told \/ /\ x \in ToldRec /\ x.id < nextId'
                                        /\ \A v \in Writers \ {w} : Holds(v, x.id) => v \in x.unseen,
         \A m \in t.mem : m \in rows' \/ /\ m \in wk[w].mem
                                         /\ \A x \in told' : x.id = m.id => x \in told,
         t.pc = "merge" => t.saw \in t.mem
  PROVE  Heard'
<1>1. wk'[w] = t /\ \A v \in Writers : v # w => wk'[v] = wk[v]
  BY DEF Set, Typed
<1>2. \A x \in told' : x \in ToldRec /\ x.id < nextId'
  <2> SUFFICES ASSUME NEW x \in told, x \in told'  PROVE x \in ToldRec /\ x.id < nextId'
    OBVIOUS
  <2>1. x \in ToldRec /\ x.id < nextId
    BY DEF Heard
  <2>2. x.id \in Nat /\ nextId \in Nat
    BY <2>1 DEF ToldRec, Ids, Typed, Tables
  <2> QED  BY <2>1, <2>2
<1>3. ASSUME NEW v \in Writers, NEW m \in wk'[v].mem, NEW x \in told', x.id = m.id, v \notin x.unseen
      PROVE  x.prop \in m.props
  <2>1. CASE v # w
    <3>1. m \in wk[v].mem
      BY <1>1, <2>1
    <3>2. Holds(v, x.id)
      BY <1>3, <3>1 DEF Holds
    <3>3. x \in told
      BY <1>3, <2>1, <3>2
    <3> QED  BY <1>3, <3>1, <3>3 DEF Heard
  <2>2. CASE v = w /\ m \in rows'
    BY <1>3, <2>2 DEF OnlyUnseenIsLost
  <2>3. CASE v = w /\ m \in wk[w].mem /\ x \in told
    BY <1>3, <2>3 DEF Heard
  <2> QED  BY <1>1, <1>3, <2>1, <2>2, <2>3
<1>4. ASSUME NEW v \in Writers, wk'[v].pc = "merge"  PROVE wk'[v].saw \in wk'[v].mem
  BY <1>1, <1>4 DEF Heard
<1> QED  BY <1>2, <1>3, <1>4 DEF Heard

\* Nothing is written: a session takes up rows, if any, that are there.
LEMMA HeardQuiet ==
  ASSUME Typed, Heard, NEW w \in Writers, NEW t, Set(w, t), UNCHANGED <<rows, told>>,
         nextId' \in Nat, nextId <= nextId',
         \A m \in t.mem : m \in wk[w].mem \/ m \in rows,
         t.pc = "merge" => t.saw \in t.mem
  PROVE  Heard'
<1>1. OnlyUnseenIsLost'
  BY DEF Heard, OnlyUnseenIsLost
<1> QED  BY <1>1, HeardStep

LEMMA EndHeard ==
  ASSUME Typed, Heard, NEW w \in Writers, End(w), nextId' \in Nat, nextId <= nextId', told' \subseteq told,
         OnlyUnseenIsLost'
  PROVE  Heard'
<1>1. Set(w, Idle) /\ Idle.mem = {} /\ Idle.pc = "idle"
  BY DEF End, Idle
<1> QED  BY <1>1, HeardStep

LEMMA InitHeard == Init => Heard
<1> SUFFICES ASSUME Init PROVE Heard
  OBVIOUS
<1>1. PICK n \in Names, p \in Props :
        rows = {Row(1, Item(n, n, {p}, 1))} /\ told = {[id |-> 1, prop |-> p, unseen |-> {}]}
  BY DEF Init
<1>2. Row(1, Item(n, n, {p}, 1)).id = 1 /\ Row(1, Item(n, n, {p}, 1)).props = {p}
  BY DEF Row, Item
<1>3. 1 \in Ids /\ nextId = 2
  BY EntityStoreAssumption DEF Init, Ids
<1>4. OnlyUnseenIsLost
  BY <1>1, <1>2 DEF OnlyUnseenIsLost
<1>5. \A w \in Writers : wk[w].mem = {} /\ wk[w].pc = "idle"
  BY DEF Init, Idle
<1> QED  BY <1>1, <1>3, <1>4, <1>5 DEF Heard, ToldRec

\* A session opens, with the row it has at hand.
LEMMA BeginHeard ==
  ASSUME Typed, Heard, NEW w \in Writers, NEW j \in Jobs, Begin(w, j)
  PROVE  Heard'
<1> DEFINE alone == ({u \in Writers : Busy(u)} = {})
<1>1. PICK at \in IF j.kind \in Imports THEN {None} ELSE rows :
        wk' = [v \in Writers |-> IF v = w THEN Opened(j, at, alone) ELSE [wk[v] EXCEPT !.solo = FALSE]]
  BY DEF Begin
<1> HIDE DEF alone
<1>2. rows' = rows /\ nextId' = nextId /\ told' = {[x EXCEPT !.unseen = @ \ {w}] : x \in told}
  BY DEF Begin
<1>3. \A x \in told : x \in ToldRec /\ x.id < nextId
  BY DEF Heard
<1>4. \A y \in told' : \E x \in told :
        y.id = x.id /\ y.prop = x.prop /\ y.unseen = x.unseen \ {w} /\ y \in ToldRec
  <2> SUFFICES ASSUME NEW x \in told
               PROVE  LET y == [x EXCEPT !.unseen = @ \ {w}] IN
                        y.id = x.id /\ y.prop = x.prop /\ y.unseen = x.unseen \ {w} /\ y \in ToldRec
    BY <1>2
  <2>1. x \in ToldRec
    BY <1>3
  <2> QED  BY <2>1 DEF ToldRec
<1>5. OnlyUnseenIsLost'
  BY <1>2, <1>4 DEF Heard, OnlyUnseenIsLost
<1>6. wk'[w] = Opened(j, at, alone) /\ \A v \in Writers : v # w => wk'[v] = [wk[v] EXCEPT !.solo = FALSE]
  BY <1>1
<1>7. \A v \in Writers : v # w => /\ wk'[v].mem = wk[v].mem /\ wk'[v].pc = wk[v].pc
                                  /\ wk'[v].saw = wk[v].saw
  <2> SUFFICES ASSUME NEW v \in Writers, NEW s, s = wk[v]
               PROVE  LET u == [s EXCEPT !.solo = FALSE] IN
                        u.mem = s.mem /\ u.pc = s.pc /\ u.saw = s.saw
    BY <1>6
  <2>1. s \in SessionType
    BY DEF Typed
  <2> QED  BY <2>1 DEF SessionType
<1>8. wk'[w].mem \subseteq rows /\ wk'[w].pc \in {"read", "load", "next"}
  BY <1>1, <1>6 DEF Opened, Start, Imports
<1>9. ASSUME NEW v \in Writers, NEW m \in wk'[v].mem, NEW y \in told', y.id = m.id, v \notin y.unseen
      PROVE  y.prop \in m.props
  <2>1. PICK x \in told : y.id = x.id /\ y.prop = x.prop /\ y.unseen = x.unseen \ {w}
    BY <1>4
  <2>2. CASE v = w
    BY <1>8, <1>9, <2>1, <2>2 DEF Heard, OnlyUnseenIsLost
  <2>3. CASE v # w
    BY <1>7, <1>9, <2>1, <2>3 DEF Heard
  <2> QED  BY <2>2, <2>3
<1>10. \A v \in Writers : wk'[v].pc = "merge" => wk'[v].saw \in wk'[v].mem
  BY <1>7, <1>8 DEF Heard
<1> QED  BY <1>2, <1>3, <1>4, <1>5, <1>9, <1>10 DEF Heard

LEMMA ReadHeard ==
  ASSUME Typed, Heard, NEW w \in Writers,
         ReadEntities(w) \/ ReadEdges(w) \/ FindEdge(w) \/ Finish(w) \/ Leave(w) \/ LoadEntity(w)
  PROVE  Heard'
<1>1. UNCHANGED <<rows, told, nextId>> /\ nextId' \in Nat /\ nextId <= nextId'
  <2>1. UNCHANGED <<rows, told, nextId>>
    BY DEF ReadEntities, ReadEdges, FindEdge, Finish, Leave, LoadEntity, history
  <2>2. nextId \in Nat
    BY DEF Typed, Tables
  <2> QED  BY <2>1, <2>2
<1>2. OnlyUnseenIsLost'
  BY <1>1 DEF Heard, OnlyUnseenIsLost
<1>3. CASE End(w)
  BY <1>1, <1>2, <1>3, EndHeard
<1>4. ASSUME NEW t, Set(w, t), t.mem = wk[w].mem, t.pc # "merge"  PROVE Heard'
  BY <1>1, <1>4, HeardQuiet
<1>5. PICK s \in SessionType : s = wk[w]
  BY DEF Typed
<1>6. CASE ReadEntities(w)
  <2>1. PICK file : Set(w, [s EXCEPT !.pc = "read edges", !.items = file, !.job.items = file])
    BY <1>5, <1>6 DEF ReadEntities
  <2> DEFINE t == [s EXCEPT !.pc = "read edges", !.items = file, !.job.items = file]
  <2>2. t.mem = s.mem /\ t.pc # "merge"
    BY DEF SessionType
  <2> HIDE DEF t
  <2> QED  BY <1>4, <1>5, <2>1, <2>2 DEF t
<1>7. CASE ReadEdges(w)
  <2>1. PICK links : Set(w, [s EXCEPT !.pc = "next", !.links = links])
    BY <1>5, <1>7 DEF ReadEdges
  <2> DEFINE t == [s EXCEPT !.pc = "next", !.links = links]
  <2>2. t.mem = s.mem /\ t.pc # "merge"
    BY DEF SessionType
  <2> HIDE DEF t
  <2> QED  BY <1>4, <1>5, <2>1, <2>2 DEF t
<1>8. ASSUME NEW pc \in {"insert edge", "done"}, Set(w, [s EXCEPT !.pc = pc])  PROVE Heard'
  <2> DEFINE t == [s EXCEPT !.pc = pc]
  <2>1. t.mem = s.mem /\ t.pc # "merge"
    BY DEF SessionType
  <2> HIDE DEF t
  <2> QED  BY <1>4, <1>5, <1>8, <2>1 DEF t
<1>9. CASE SkipLink(w)
  <2> DEFINE t == [s EXCEPT !.pc = "next", !.links = Tail(@)]
  <2>1. t.mem = s.mem /\ t.pc # "merge" /\ Set(w, t)
    BY <1>5, <1>9 DEF SessionType, SkipLink
  <2> HIDE DEF t
  <2> QED  BY <1>4, <1>5, <2>1
<1>10. CASE LoadEntity(w) /\ ~ End(w)
  <2>1. PICK r : Set(w, [s EXCEPT !.pc = "change", !.saw = r])
    BY <1>5, <1>10 DEF LoadEntity
  <2> DEFINE t == [s EXCEPT !.pc = "change", !.saw = r]
  <2>2. t.mem = s.mem /\ t.pc # "merge"
    BY DEF SessionType
  <2> HIDE DEF t
  <2> QED  BY <1>4, <1>5, <2>1, <2>2 DEF t
<1>11. CASE FindEdge(w)
  <2>1. End(w) \/ SkipLink(w) \/ Set(w, [s EXCEPT !.pc = "insert edge"])
    BY <1>5, <1>11 DEF FindEdge
  <2> QED  BY <1>3, <1>8, <1>9, <2>1
<1>12. CASE Finish(w)
  BY <1>5, <1>8, <1>12 DEF Finish
<1> QED  BY <1>3, <1>6, <1>7, <1>10, <1>11, <1>12 DEF Leave

LEMMA FindEntityHeard ==
  ASSUME Typed, Heard, NEW w \in Writers, FindEntity(w)
  PROVE  Heard'
<1>1. UNCHANGED <<rows, told, nextId>> /\ nextId' \in Nat /\ nextId <= nextId'
  <2>1. UNCHANGED <<rows, told, nextId>>
    BY DEF FindEntity, history
  <2>2. nextId \in Nat
    BY DEF Typed, Tables
  <2> QED  BY <2>1, <2>2
<1>2. OnlyUnseenIsLost'
  BY <1>1 DEF Heard, OnlyUnseenIsLost
<1>3. PICK s \in SessionType : s = wk[w]
  BY DEF Typed
<1>4. CASE Set(w, [s EXCEPT !.pc = "insert"])
  <2> DEFINE t == [s EXCEPT !.pc = "insert"]
  <2>1. t.mem = s.mem /\ t.pc # "merge" /\ Set(w, t)
    BY <1>4 DEF SessionType
  <2> HIDE DEF t
  <2> QED  BY <1>1, <1>3, <2>1, HeardQuiet
<1>5. ASSUME NEW r \in rows, Stored(w, r)  PROVE Heard'
  <2> DEFINE t == [s EXCEPT !.pc = "next", !.items = Tail(@),
                            !.ids = With(@, Head(s.items).key, r.id),
                            !.mem = {m \in @ : m.id # r.id} \cup {r}]
  <2>1. t.pc = "next" /\ t.mem = {m \in s.mem : m.id # r.id} \cup {r}
    BY StoredFields
  <2>2. Set(w, t)
    BY <1>3, <1>5 DEF Stored
  <2> HIDE DEF t
  <2> QED  BY <1>1, <1>3, <2>1, <2>2, HeardQuiet
<1>6. ASSUME NEW r \in rows,
             Set(w, [s EXCEPT !.pc = "merge", !.saw = Remembered(w, r), !.mem = @ \cup {Remembered(w, r)}])
      PROVE  Heard'
  <2>1. PICK m \in s.mem \cup {r} : m = Remembered(w, r)
    BY <1>3, RememberedRow
  <2> DEFINE t == [s EXCEPT !.pc = "merge", !.saw = m, !.mem = @ \cup {m}]
  <2>2. t.mem = s.mem \cup {m} /\ t.saw = m
    BY DEF SessionType
  <2>3. Set(w, t)
    BY <1>6, <2>1
  <2> HIDE DEF t
  <2> QED  BY <1>1, <1>3, <2>2, <2>3, HeardQuiet
<1>7. CASE SkipItem(w)
  <2>1. CASE Set(w, [s EXCEPT !.pc = "next", !.items = Tail(@)])
    <3> DEFINE t == [s EXCEPT !.pc = "next", !.items = Tail(@)]
    <3>1. t.mem = s.mem /\ t.pc # "merge" /\ Set(w, t)
      BY <2>1 DEF SessionType
    <3> HIDE DEF t
    <3> QED  BY <1>1, <1>3, <3>1, HeardQuiet
  <2> QED  BY <1>1, <1>2, <1>3, <1>7, <2>1, EndHeard DEF SkipItem
<1> QED  BY <1>3, <1>4, <1>5, <1>6, <1>7 DEF FindEntity, Named

LEMMA SavedTold ==
  ASSUME Typed, Heard, NEW w \in Writers, NEW id \in Ids, NEW new \in SUBSET Props, NEW x \in Saved(w, id, new)
  PROVE  \/ x \in told /\ (x.id = id => w \notin x.unseen /\ \A y \in new : Field[y] # Field[x.prop])
         \/ /\ x \in ToldRec /\ x.id = id /\ x.prop \in new
            /\ \A v \in Writers \ {w} : Holds(v, id) => v \in x.unseen
BY DEF Saved, ToldRec

LEMMA InsertEntityHeard ==
  ASSUME Typed, Heard, NEW w \in Writers, InsertEntity(w)
  PROVE  Heard'
<1>1. PICK s \in SessionType : s = wk[w] /\ s.pc = "insert" /\ s.items # <<>>
  BY DEF InsertEntity, Typed, Session, InOrder
<1>2. PICK item \in ItemType : item = Head(s.items)
  BY <1>1, ItemAtHand
<1>3. nextId \in Ids /\ nextId' = nextId + 1 /\ nextId \in Nat
  BY EntityStoreAssumption DEF InsertEntity, Typed, Tables, Ids
<1>4. PICK r \in RowRec : r = Row(nextId, item) /\ r.id = nextId /\ r.props = item.props
  BY <1>3, NewRow DEF Row, ItemType
<1>5. /\ rows' = rows \cup {r} /\ told' = Saved(w, nextId, r.props) /\ Stored(w, r)
  BY <1>1, <1>2, <1>4 DEF InsertEntity
<1>6. r.props \in SUBSET Props
  BY DEF RowRec
<1>7. \A x \in told' :
        \/ x \in told /\ x.id < nextId /\ x.id # nextId
        \/ /\ x \in ToldRec /\ x.id = nextId /\ x.prop \in r.props
           /\ \A v \in Writers \ {w} : Holds(v, nextId) => v \in x.unseen
  <2>1. \A x \in told : x.id < nextId /\ x.id # nextId
    BY <1>3 DEF Heard, ToldRec, Ids
  <2> QED  BY <1>3, <1>5, <1>6, <2>1, SavedTold
<1>8. \A q \in rows : q.id # nextId
  BY <1>3 DEF Typed, Tables, RowRec, Ids
<1>9. OnlyUnseenIsLost'
  BY <1>4, <1>5, <1>7, <1>8 DEF Heard, OnlyUnseenIsLost
<1> DEFINE t == [s EXCEPT !.pc = "next", !.items = Tail(@),
                          !.ids = With(@, Head(s.items).key, r.id),
                          !.mem = {m \in @ : m.id # r.id} \cup {r}]
<1>10. t.pc = "next" /\ t.mem = {m \in s.mem : m.id # r.id} \cup {r}
  BY StoredFields
<1>11. Set(w, t)
  BY <1>1, <1>5 DEF Stored
<1> HIDE DEF t
<1>12. \A m \in t.mem : m \in rows' \/ (m \in s.mem /\ \A x \in told' : x.id = m.id => x \in told)
  BY <1>4, <1>5, <1>7, <1>10
<1>13. nextId' \in Nat /\ nextId <= nextId' /\ nextId < nextId'
  BY <1>3
<1> QED  BY <1>1, <1>3, <1>7, <1>9, <1>10, <1>11, <1>12, <1>13, HeardStep

\* A save of an entity that is there.
LEMMA MergeEntityHeard ==
  ASSUME Typed, Heard, NEW w \in Writers, MergeEntity(w)
  PROVE  Heard'
<1>1. PICK s \in SessionType : s = wk[w] /\ s.pc = "merge" /\ s.items # <<>> /\ s.saw \in RowRec
  BY DEF MergeEntity, Typed, Session, InOrder
<1>2. PICK item \in ItemType : item = Head(s.items)
  BY <1>1, ItemAtHand
<1>3. nextId' = nextId /\ nextId' \in Nat /\ nextId <= nextId'
  BY DEF MergeEntity, Typed, Tables
<1>4. CASE s.saw.id \notin RowIds
  <2>1. End(w) /\ UNCHANGED <<rows, told>>
    BY <1>1, <1>4 DEF MergeEntity
  <2>2. OnlyUnseenIsLost'
    BY <2>1 DEF Heard, OnlyUnseenIsLost
  <2> QED  BY <1>3, <2>1, <2>2, EndHeard
<1>5. CASE s.saw.id \in RowIds
  <2>1. PICK id \in Ids : id = s.saw.id
    BY <1>1 DEF RowRec
  <2>2. PICK there \in rows : there = RowOf(id) /\ there.id = id
    BY <1>5, <2>1, RowOfId DEF Typed
  <2>3. PICK wanted : wanted = Merged(s.saw, item)
    OBVIOUS
  <2>4. wanted \in RowRec /\ wanted.props = Over(s.saw.props, item.props)
    BY <1>1, <2>3, MergedType
  <2>5. PICK new : new = Written(s.saw, wanted, there)
    OBVIOUS
  <2>6. new \in RowRec /\ new.id = id
    BY <1>1, <1>2, <1>5, <2>1, <2>2, <2>3, <2>5, MergeWrites
  <2>7. new.props = IF wanted.props = s.saw.props THEN there.props ELSE wanted.props
    <3>1. "props" \in DOMAIN wanted
      BY <2>4 DEF RowRec
    <3> QED  BY <2>5, <3>1 DEF Written
  <2>8. /\ Replace(id, new) /\ Stored(w, new)
        /\ told' = IF wanted.props = s.saw.props THEN told ELSE Saved(w, id, item.props)
    BY <1>1, <1>2, <1>5, <2>1, <2>2, <2>3, <2>4, <2>5 DEF MergeEntity
  <2>9. s.saw \in s.mem
    BY <1>1 DEF Heard
  <2>10. item.props \in SUBSET Props
    BY DEF ItemType
  <2>11. \A x \in told' :
          \/ x \in told
          \/ /\ x \in ToldRec /\ x.id = id
             /\ \A v \in Writers \ {w} : Holds(v, id) => v \in x.unseen
    BY <2>8, <2>10, SavedTold
  <2>12. \A x \in told' : x.id = id => x.prop \in new.props
    <3> SUFFICES ASSUME NEW x \in told', x.id = id  PROVE x.prop \in new.props
      OBVIOUS
    <3>1. CASE wanted.props = s.saw.props
      BY <2>2, <2>7, <2>8, <3>1 DEF Heard, OnlyUnseenIsLost
    <3>2. CASE wanted.props # s.saw.props
      <4>1. new.props = Over(s.saw.props, item.props)
        BY <2>4, <2>7, <3>2
      <4>2. CASE x.prop \in item.props
        BY <4>1, <4>2 DEF Over
      <4>3. CASE x \in told /\ w \notin x.unseen /\ \A y \in item.props : Field[y] # Field[x.prop]
        <5>1. x.prop \in s.saw.props
          BY <1>1, <2>1, <2>9, <4>3 DEF Heard
        <5> QED  BY <4>1, <4>3, <5>1 DEF Over
      <4> QED  BY <2>8, <2>10, <3>2, <4>2, <4>3, SavedTold
    <3> QED  BY <3>1, <3>2
  <2>13. rows' = {r \in rows : r.id # id} \cup {new}
    BY <2>8 DEF Replace
  <2>14. OnlyUnseenIsLost'
    BY <2>6, <2>11, <2>12, <2>13 DEF Heard, OnlyUnseenIsLost
  <2> DEFINE t == [s EXCEPT !.pc = "next", !.items = Tail(@),
                            !.ids = With(@, Head(s.items).key, new.id),
                            !.mem = {m \in @ : m.id # new.id} \cup {new}]
  <2>15. t.pc = "next" /\ t.mem = {m \in s.mem : m.id # new.id} \cup {new}
    BY StoredFields
  <2>16. Set(w, t)
    BY <1>1, <2>8 DEF Stored
  <2> HIDE DEF t
  <2>17. \A m \in t.mem : m \in rows' \/ (m \in s.mem /\ \A x \in told' : x.id = m.id => x \in told)
    BY <2>6, <2>11, <2>13, <2>15
  <2>18. id < nextId'
    BY <1>3, <2>2 DEF Typed, Tables
  <2> QED  BY <1>1, <1>3, <2>11, <2>14, <2>15, <2>16, <2>17, <2>18, HeardStep
<1> QED  BY <1>4, <1>5

\* An edit takes the properties away, and says so; other changes leave them.
LEMMA ChangeHeard ==
  ASSUME Typed, Heard, NEW w \in Writers, ChangeEntity(w) \/ DeleteEntity(w)
  PROVE  Heard'
<1>1. nextId' \in Nat /\ nextId <= nextId' /\ End(w)
  BY DEF ChangeEntity, DeleteEntity, Typed, Tables
<1>2. CASE DeleteEntity(w)
  <2>1. told' \subseteq told /\ rows' \subseteq rows
    BY <1>2 DEF DeleteEntity
  <2>2. OnlyUnseenIsLost'
    BY <2>1 DEF Heard, OnlyUnseenIsLost
  <2> QED  BY <1>1, <2>1, <2>2, EndHeard
<1>3. CASE ChangeEntity(w)
  <2>1. PICK s \in SessionType : s = wk[w] /\ s.pc = "change" /\ s.job.kind # "delete"
                                 /\ s.job.kind \in Edits /\ s.saw \in RowRec
    BY <1>3 DEF ChangeEntity, Typed, Session, InOrder
  <2>2. CASE s.saw.id \notin RowIds
    <3>1. UNCHANGED <<rows, told>>
      BY <1>3, <2>1, <2>2 DEF ChangeEntity
    <3>2. OnlyUnseenIsLost'
      BY <3>1 DEF Heard, OnlyUnseenIsLost
    <3> QED  BY <1>1, <3>1, <3>2, EndHeard
  <2>3. CASE s.saw.id \in RowIds
    <3>1. PICK id : id = s.saw.id
      OBVIOUS
    <3>2. PICK there \in rows : there = RowOf(id) /\ there.id = id
      BY <2>3, <3>1, RowOfId DEF Typed
    <3>3. PICK wanted : wanted = Changed(s.job, s.saw)
      OBVIOUS
    <3>4. PICK new : new = Written(s.saw, wanted, there)
      OBVIOUS
    <3>5. /\ Replace(id, new)
          /\ told' = IF s.job.kind = "edit" THEN {x \in told : x.id # id} ELSE told
      BY <1>3, <2>1, <2>3, <3>1, <3>2, <3>3, <3>4 DEF ChangeEntity
    <3>6. new.id = id
      BY <1>3, <2>1, <2>3, <3>1, <3>2, <3>3, <3>4, ChangeWrites
    <3>7. rows' = {r \in rows : r.id # id} \cup {new}
      BY <3>5 DEF Replace
    <3>8. CASE s.job.kind = "edit"
      <4>1. OnlyUnseenIsLost'
        BY <3>5, <3>6, <3>7, <3>8 DEF Heard, OnlyUnseenIsLost
      <4> QED  BY <1>1, <3>5, <3>8, <4>1, EndHeard
    <3>9. CASE s.job.kind # "edit"
      <4>1. s.job.kind \in {"rename", "icon"}
        BY <2>1, <3>9 DEF Edits
      <4>2. wanted.props = s.saw.props /\ "props" \in DOMAIN wanted
        BY <2>1, <3>3, <4>1 DEF Changed, RowRec
      <4>3. new.props = there.props
        BY <3>4, <4>2 DEF Written
      <4>4. OnlyUnseenIsLost'
        BY <3>2, <3>5, <3>6, <3>7, <3>9, <4>3 DEF Heard, OnlyUnseenIsLost
      <4> QED  BY <1>1, <3>5, <3>9, <4>4, EndHeard
    <3> QED  BY <3>8, <3>9
  <2> QED  BY <2>2, <2>3
<1> QED  BY <1>2, <1>3

LEMMA InsertEdgeHeard ==
  ASSUME Typed, Heard, NEW w \in Writers, InsertEdge(w)
  PROVE  Heard'
<1>1. UNCHANGED <<rows, told>> /\ nextId' \in Nat /\ nextId <= nextId'
  <2>1. UNCHANGED <<rows, told>> /\ nextId \in Nat /\ (nextId' = nextId \/ nextId' = nextId + 1)
    BY DEF InsertEdge, history, Typed, Tables
  <2> QED  BY <2>1
<1>2. OnlyUnseenIsLost'
  BY <1>1 DEF Heard, OnlyUnseenIsLost
<1>3. PICK s \in SessionType : s = wk[w]
  BY DEF Typed
<1>4. CASE SkipLink(w)
  <2> DEFINE t == [s EXCEPT !.pc = "next", !.links = Tail(@)]
  <2>1. t.mem = s.mem /\ t.pc # "merge" /\ Set(w, t)
    BY <1>3, <1>4 DEF SessionType, SkipLink
  <2> HIDE DEF t
  <2> QED  BY <1>1, <1>3, <2>1, HeardQuiet
<1> QED  BY <1>1, <1>2, <1>4, EndHeard DEF InsertEdge

LEMMA HeardKept ==
  ASSUME Typed, Heard, [Next]_vars
  PROVE  Heard'
<1>1. CASE UNCHANGED vars
  BY <1>1 DEF vars, Heard, OnlyUnseenIsLost
<1>2. ASSUME NEW w \in Writers, NEW j \in Jobs, Begin(w, j)  PROVE Heard'
  BY <1>2, BeginHeard
<1>3. ASSUME NEW w \in Writers, Step(w)  PROVE Heard'
  BY <1>3, ReadHeard, FindEntityHeard, InsertEntityHeard, MergeEntityHeard, ChangeHeard, InsertEdgeHeard DEF Step
<1> QED  BY <1>1, <1>2, <1>3 DEF Next

\* entity_store.py:54-78: a saved property stays in its row with its value until
\* an editor or a new value of its key replaces it, or a session saves that had
\* loaded the row before; of whatever jobs run at the same time.
THEOREM ReportsStay == Spec => []OnlyUnseenIsLost
<1>1. Init => Heard
  BY InitHeard
<1>2. Typed /\ Heard /\ [Next]_vars => Heard'
  BY HeardKept
<1>3. Heard => OnlyUnseenIsLost
  BY DEF Heard
<1> QED  BY <1>1, <1>2, <1>3, StoreInvHolds, PTL DEF Spec

-----------------------------------------------------------------------------
(***************************************************************************)
(* An export imported again, alone: what is read is told of rows and edges *)
(* that are there, so that everything is found and nothing added.          *)
(***************************************************************************)
\* Rows but for their icons.
Plain(r) == [r EXCEPT !.icon = "default"]
PlainRows(R) == {Plain(r) : r \in R}

\* The item is what an export says of r.
Tells(item, r) ==
  item.key = IdText[r.id] /\ item.name = r.name /\ item.props \in {{}, r.props} /\ item.weight = r.weight

Text(e) == Link(IdText[e.src], IdText[e.tgt], e.label)

\* Where a session stands that imports the export of the rows R and edges E.
Reread(s, R, E) ==
  /\ E = s.was[2] /\ PlainRows(R) = PlainRows(s.was[1]) /\ s.was[1] \subseteq RowRec
  /\ s.pc \in {"read", "read edges", "next", "merge", "done"}
  /\ s.mem \subseteq R
  /\ s.pc # "read" => \A i \in DOMAIN s.items : \E r \in R : Tells(s.items[i], r)
  /\ s.pc = "merge" => s.saw \in R /\ Tells(Head(s.items), s.saw)
  /\ \A k \in DOMAIN s.ids : \E i \in Ids : k = IdText[i] /\ s.ids[k] = i
  /\ s.pc \notin {"read", "read edges"} => \A i \in DOMAIN s.links : \E e \in E : s.links[i] = Text(e)

Solo(w) == /\ Busy(w) /\ wk[w].job.kind = "reimport" /\ wk[w].solo
           /\ Survives(wk[w].was, wk[w].job.format)

Alone ==
  \A w \in Writers : Solo(w) => (\A v \in Writers : Busy(v) => v = w) /\ Reread(wk[w], rows, edges)

LEMMA AloneStep ==
  ASSUME Typed, Alone, NEW w \in Writers, Busy(w), NEW t, Set(w, t),
         t.pc # "idle" => /\ t.job.kind = wk[w].job.kind /\ t.job.format = wk[w].job.format
                          /\ t.solo = wk[w].solo /\ t.was = wk[w].was,
         Solo(w) /\ t.pc # "idle" => Reread(t, rows', edges')
  PROVE  Alone'
<1>1. wk'[w] = t /\ \A v \in Writers : v # w => wk'[v] = wk[v]
  BY DEF Set, Typed
<1>2. ASSUME NEW u \in Writers, Solo(u)'  PROVE Solo(u)
  BY <1>1, <1>2 DEF Solo, Busy
<1>3. ASSUME NEW u \in Writers, Solo(u)'
      PROVE  (\A v \in Writers : Busy(v)' => v = u) /\ Reread(wk'[u], rows', edges')
  <2>1. u = w /\ \A v \in Writers : Busy(v) => v = u
    BY <1>2, <1>3 DEF Alone
  <2>2. Reread(wk'[u], rows', edges')
    BY <1>1, <1>2, <1>3, <2>1 DEF Solo, Busy
  <2> QED  BY <1>1, <2>1, <2>2 DEF Busy
<1> QED  BY <1>3 DEF Alone

\* Rows that are the old ones but for icons, and edges that are the old ones,
\* are read as they are if those are.
LEMMA SurvivesHere ==
  ASSUME Typed, Alone, NEW w \in Writers, Solo(w)
  PROVE  /\ \A r \in rows : /\ Stripped[r.name] = r.name
                            /\ WeightRead(wk[w].job.format, r.weight) = r.weight
         /\ \A e \in edges : LabelRead(wk[w].job.format, e.label) = e.label
<1>1. edges = wk[w].was[2] /\ PlainRows(rows) = PlainRows(wk[w].was[1])
  BY DEF Alone, Reread
<1>2. wk[w].was[1] \subseteq RowRec
  BY DEF Alone, Reread
<1>3. ASSUME NEW r \in rows  PROVE \E q \in wk[w].was[1] : q.name = r.name /\ q.weight = r.weight
  <2>1. PICK q \in wk[w].was[1] : Plain(q) = Plain(r)
    BY <1>1 DEF PlainRows
  <2>2. r \in RowRec /\ q \in RowRec
    BY <1>2 DEF Typed, Tables
  <2> QED  BY <2>1, <2>2 DEF Plain, RowRec
<1> QED  BY <1>1, <1>3 DEF Solo, Survives

LEMMA BeginAlone ==
  ASSUME Typed, Alone, NEW w \in Writers, NEW j \in Jobs, Begin(w, j)
  PROVE  Alone'
<1> DEFINE others == {v \in Writers : Busy(v)}
<1>1. PICK at : wk' = [v \in Writers |-> IF v = w THEN Opened(j, at, others = {}) ELSE [wk[v] EXCEPT !.solo = FALSE]]
  BY DEF Begin
<1>2. rows' = rows /\ edges' = edges
  BY DEF Begin
<1> DEFINE t == Opened(j, at, others = {})
<1>3. /\ t.job = j /\ t.solo = (others = {}) /\ t.was = <<rows, edges>> /\ t.pc = Start(j)
      /\ t.mem = (IF j.kind = "direct" THEN {at} ELSE {})
      /\ t.ids = IF j.kind \in Imports THEN <<>> ELSE With(<<>>, at.name, at.id)
  BY DEF Opened
<1>7. j.kind = "reimport" => t.pc = "read" /\ t.mem = {} /\ t.ids = <<>>
  <2> HAVE j.kind = "reimport"
  <2>1. Start(j) = "read" /\ j.kind \in Imports /\ j.kind # "direct"
    BY DEF Start, Imports, Edits
  <2> QED  BY <1>3, <2>1
<1>4. wk'[w] = t /\ \A v \in Writers : v # w => wk'[v] = [wk[v] EXCEPT !.solo = FALSE]
  BY <1>1
<1> HIDE DEF t
<1>5. \A v \in Writers : v # w => wk'[v].pc = wk[v].pc /\ wk'[v].solo = FALSE
  <2> TAKE v \in Writers
  <2> HAVE v # w
  <2> DEFINE s == wk[v]
  <2>1. wk'[v] = [s EXCEPT !.solo = FALSE] /\ s \in SessionType
    BY <1>4 DEF Typed
  <2> HIDE DEF s
  <2>2. [s EXCEPT !.solo = FALSE].pc = s.pc /\ [s EXCEPT !.solo = FALSE].solo = FALSE
    BY <2>1 DEF SessionType
  <2> QED  BY <2>1, <2>2 DEF s
<1>6. ASSUME NEW u \in Writers, Solo(u)'
      PROVE  (\A v \in Writers : Busy(v)' => v = u) /\ Reread(wk'[u], rows', edges')
  <2>1. u = w /\ others = {} /\ j.kind = "reimport"
    BY <1>3, <1>4, <1>5, <1>6 DEF Solo
  <2>2. Reread(t, rows, edges)
    <3>1. t.was[1] = rows /\ t.was[2] = edges /\ DOMAIN t.ids = {} /\ t.mem = {} /\ t.pc = "read"
      BY <1>3, <1>7, <2>1, EmptyMap
    <3>2. rows \subseteq RowRec
      BY DEF Typed, Tables
    <3> QED  BY <3>1, <3>2 DEF Reread
  <2> QED  BY <1>2, <1>4, <1>5, <2>1, <2>2 DEF Busy
<1> QED  BY <1>6 DEF Alone

LEMMA ReadEntitiesAlone ==
  ASSUME Typed, Alone, NEW w \in Writers, ReadEntities(w)
  PROVE  Alone'
<1> DEFINE s == wk[w]
           file == SetToSeq({Payload(r, s.job.format) : r \in rows})
           t == [s EXCEPT !.pc = "read edges", !.items = file, !.job.items = file]
<1>1. /\ Busy(w) /\ Set(w, t) /\ s.pc = "read" /\ rows' = rows /\ edges' = edges
  BY DEF ReadEntities, Busy
<1>2. s \in SessionType /\ s.job \in JobType /\ s.ids = <<>> /\ s.mem = {}
  BY <1>1 DEF Typed, Session, InOrder
<1>3. \A i \in DOMAIN file : \E r \in rows : file[i] = Payload(r, s.job.format)
  BY FileItems DEF Typed
<1>4. Solo(w) => \A r \in rows : Tells(Payload(r, s.job.format), r)
  BY SurvivesHere DEF Tells, Payload, Item
<1> HIDE DEF file
<1>5. /\ t.pc = "read edges" /\ t.job = [s.job EXCEPT !.items = file] /\ t.items = file
      /\ t.ids = <<>> /\ t.mem = {} /\ t.solo = s.solo /\ t.was = s.was
  BY <1>2 DEF SessionType
<1>6. t.job.kind = s.job.kind /\ t.job.format = s.job.format
  BY <1>2, <1>5 DEF JobType
<1> HIDE DEF t
<1>7. ASSUME Solo(w)  PROVE Reread(t, rows, edges)
  <2>1. Reread(s, rows, edges)
    BY <1>7 DEF Alone
  <2>2. t.was[2] = edges /\ PlainRows(rows) = PlainRows(t.was[1]) /\ t.was[1] \subseteq RowRec
    BY <1>5, <2>1 DEF Reread
  <2>3. \A i \in DOMAIN t.items : \E r \in rows : Tells(t.items[i], r)
    BY <1>3, <1>4, <1>5, <1>7
  <2>4. DOMAIN t.ids = {}
    BY <1>5, EmptyMap
  <2> QED  BY <1>5, <2>2, <2>3, <2>4 DEF Reread
<1> QED  BY <1>1, <1>5, <1>6, <1>7, AloneStep

LEMMA ReadEdgesAlone ==
  ASSUME Typed, Alone, NEW w \in Writers, ReadEdges(w)
  PROVE  Alone'
<1> DEFINE s == wk[w]
           taken == IF s.job.format = "csv" THEN {} ELSE edges
           TextRead(e) == Link(IdText[e.src], IdText[e.tgt], LabelRead(s.job.format, e.label))
           S == {TextRead(e) : e \in taken}
           links == SetToSeq(S)
           t == [s EXCEPT !.pc = "next", !.links = links]
<1>1. /\ Busy(w) /\ Set(w, t) /\ s.pc = "read edges" /\ rows' = rows /\ edges' = edges
  BY DEF ReadEdges, Busy
<1>2. s \in SessionType
  BY DEF Typed
<1>3. IsFiniteSet(taken) /\ taken \subseteq edges
  BY FS_EmptySet DEF Typed, Tables
<1>4. IsFiniteSet(S)
  <2> DEFINE f == [e \in taken |-> TextRead(e)]
  <2>1. f \in Surjection(taken, S)
    BY DEF Surjection
  <2> QED  BY <1>3, <2>1, FS_Surjection
<1>5. \A i \in DOMAIN links : links[i] \in S
  <2> HIDE DEF S
  <2> QED  BY <1>4, SeqOfSet
<1>6. Solo(w) => \A i \in DOMAIN links : \E e \in edges : links[i] = Text(e)
  <2>1. Solo(w) => \A e \in edges : TextRead(e) = Text(e)
    BY SurvivesHere DEF Text
  <2> QED  BY <1>3, <1>5, <2>1
<1> HIDE DEF links
<1>7. /\ t.pc = "next" /\ t.job = s.job /\ t.items = s.items /\ t.links = links
      /\ t.ids = s.ids /\ t.mem = s.mem /\ t.solo = s.solo /\ t.was = s.was
  BY <1>2 DEF SessionType
<1> HIDE DEF t
<1>8. ASSUME Solo(w)  PROVE Reread(t, rows, edges)
  <2>1. Reread(s, rows, edges)
    BY <1>8 DEF Alone
  <2>2. t.was[2] = edges /\ PlainRows(rows) = PlainRows(t.was[1]) /\ t.was[1] \subseteq RowRec
    BY <1>7, <2>1 DEF Reread
  <2>3. \A i \in DOMAIN t.items : \E r \in rows : Tells(t.items[i], r)
    BY <1>1, <1>7, <2>1 DEF Reread
  <2>4. t.mem \subseteq rows /\ \A k \in DOMAIN t.ids : \E i \in Ids : k = IdText[i] /\ t.ids[k] = i
    BY <1>7, <2>1 DEF Reread
  <2> QED  BY <1>6, <1>7, <1>8, <2>2, <2>3, <2>4 DEF Reread
<1> QED  BY <1>1, <1>7, <1>8, AloneStep

\* What holds of the items holds of the first and of the rest.
LEMMA ItemsTell ==
  ASSUME Typed, NEW w \in Writers, wk[w].items # <<>>,
         NEW R, \A i \in DOMAIN wk[w].items : \E r \in R : Tells(wk[w].items[i], r)
  PROVE  /\ \E r \in R : Tells(Head(wk[w].items), r)
         /\ \A i \in DOMAIN Tail(wk[w].items) : \E r \in R : Tells(Tail(wk[w].items)[i], r)
<1> DEFINE q == wk[w].items
<1>1. q \in Seq(ItemType)
  BY DEF Typed, SessionType
<1> HIDE DEF q
<1>2. /\ 1 \in DOMAIN q /\ Head(q) = q[1]
      /\ \A i \in DOMAIN Tail(q) : i + 1 \in DOMAIN q /\ Tail(q)[i] = q[i + 1]
  BY <1>1, HeadTail DEF q
<1>3. \A i \in DOMAIN q : \E r \in R : Tells(q[i], r)
  BY DEF q
<1>4. (\E r \in R : Tells(Head(q), r)) /\ \A i \in DOMAIN Tail(q) : \E r \in R : Tells(Tail(q)[i], r)
  BY <1>2, <1>3
<1> QED  BY <1>4 DEF q

LEMMA FindEntityAlone ==
  ASSUME Typed, Alone, NEW w \in Writers, FindEntity(w)
  PROVE  Alone'
<1> DEFINE s == wk[w]
           item == Head(s.items)
           found == Named(item.name)
<1>1. /\ Busy(w) /\ s.pc = "next" /\ s.items # <<>> /\ rows' = rows /\ edges' = edges
      /\ s \in SessionType /\ Tables
  BY DEF FindEntity, Busy, Typed
<1>2. Solo(w) => Reread(s, rows, edges)
  BY DEF Alone
<1>3. Solo(w) => /\ \E r \in rows : Tells(item, r)
                 /\ \A i \in DOMAIN Tail(s.items) : \E r \in rows : Tells(Tail(s.items)[i], r)
  <2> SUFFICES ASSUME Solo(w)
               PROVE  /\ \E r \in rows : Tells(item, r)
                      /\ \A i \in DOMAIN Tail(s.items) : \E r \in rows : Tells(Tail(s.items)[i], r)
    OBVIOUS
  <2>1. \A i \in DOMAIN s.items : \E r \in rows : Tells(s.items[i], r)
    BY <1>1, <1>2 DEF Reread
  <2> QED  BY <1>1, <2>1, ItemsTell
<1>4. CASE found = {} /\ Set(w, [s EXCEPT !.pc = "insert"])
  <2> DEFINE t == [s EXCEPT !.pc = "insert"]
  <2>1. t.job = s.job /\ t.solo = s.solo /\ t.was = s.was
    BY <1>1 DEF SessionType
  <2>2. Set(w, t)
    BY <1>4
  <2> HIDE DEF t
  <2>3. ~ Solo(w)
    BY <1>3, <1>4 DEF Tells, Named
  <2> QED  BY <1>1, <2>1, <2>2, <2>3, AloneStep
<1>5. CASE s.job.kind = "create" /\ \E r \in found : Stored(w, r)
  <2>1. PICK r \in found : Stored(w, r)
    BY <1>5
  <2> DEFINE t == [s EXCEPT !.pc = "next", !.items = Tail(@),
                            !.ids = With(@, Head(s.items).key, r.id),
                            !.mem = {m \in @ : m.id # r.id} \cup {r}]
  <2>2. Set(w, t)
    BY <2>1 DEF Stored
  <2>3. t.job = s.job /\ t.solo = s.solo /\ t.was = s.was
    BY <1>1, StoredFields
  <2> HIDE DEF t
  <2>4. ~ Solo(w)
    BY <1>5 DEF Solo
  <2> QED  BY <1>1, <2>2, <2>3, <2>4, AloneStep
<1>6. CASE /\ Cardinality(found) = 1
           /\ \E r \in found : Set(w, [s EXCEPT !.pc = "merge", !.saw = Remembered(w, r),
                                                !.mem = @ \cup {Remembered(w, r)}])
  <2>1. PICK r \in found : Set(w, [s EXCEPT !.pc = "merge", !.saw = Remembered(w, r),
                                            !.mem = @ \cup {Remembered(w, r)}])
    BY <1>6
  <2>2. r \in rows /\ found = {r}
    BY <1>1, <1>6, <2>1, OneFound DEF Named
  <2> DEFINE m == Remembered(w, r)
             t == [s EXCEPT !.pc = "merge", !.saw = m, !.mem = @ \cup {m}]
  <2>3. m.id = r.id /\ m \in s.mem \cup {r}
    BY <2>2, RememberedRow
  <2>4. Set(w, t)
    BY <2>1
  <2> HIDE DEF m
  <2>5. /\ t.pc = "merge" /\ t.job = s.job /\ t.ids = s.ids /\ t.mem = s.mem \cup {m} /\ t.saw = m
        /\ t.items = s.items /\ t.links = s.links /\ t.solo = s.solo /\ t.was = s.was
    BY <1>1 DEF SessionType
  <2> HIDE DEF t
  <2>6. ASSUME Solo(w)  PROVE Reread(t, rows, edges)
    <3>1. m = r
      BY <1>1, <1>2, <2>2, <2>3, <2>6 DEF Reread, Tables
    <3>2. Tells(item, r)
      BY <1>3, <2>2, <2>6 DEF Tells, Named
    <3>3. Reread(s, rows, edges)
      BY <1>2, <2>6
    <3>4. t.was[2] = edges /\ PlainRows(rows) = PlainRows(t.was[1]) /\ t.was[1] \subseteq RowRec
      BY <2>5, <3>3 DEF Reread
    <3>5. \A i \in DOMAIN t.items : \E x \in rows : Tells(t.items[i], x)
      BY <1>1, <2>5, <3>3 DEF Reread
    <3>6. t.mem \subseteq rows /\ \A k \in DOMAIN t.ids : \E i \in Ids : k = IdText[i] /\ t.ids[k] = i
      <4>1. s.mem \subseteq rows /\ t.mem = s.mem \cup {r} /\ r \in rows
        BY <2>2, <2>5, <3>1, <3>3 DEF Reread
      <4>2. \A k \in DOMAIN s.ids : \E i \in Ids : k = IdText[i] /\ s.ids[k] = i
        BY <3>3 DEF Reread
      <4> QED  BY <2>5, <4>1, <4>2
    <3>7. \A i \in DOMAIN t.links : \E e \in edges : t.links[i] = Text(e)
      BY <1>1, <2>5, <3>3 DEF Reread
    <3>8. t.saw \in rows /\ Tells(Head(t.items), t.saw)
      BY <2>2, <2>5, <3>1, <3>2
    <3> QED  BY <2>5, <3>4, <3>5, <3>6, <3>7, <3>8 DEF Reread
  <2> QED  BY <1>1, <2>4, <2>5, <2>6, AloneStep
<1>7. CASE SkipItem(w)
  <2>1. CASE Set(w, [s EXCEPT !.pc = "next", !.items = Tail(@)])
    <3> DEFINE t == [s EXCEPT !.pc = "next", !.items = Tail(@)]
    <3>1. /\ t.pc = "next" /\ t.job = s.job /\ t.ids = s.ids /\ t.mem = s.mem
          /\ t.items = Tail(s.items) /\ t.links = s.links /\ t.solo = s.solo /\ t.was = s.was
      BY <1>1 DEF SessionType
    <3>2. Set(w, t)
      BY <2>1
    <3> HIDE DEF t
    <3>3. ASSUME Solo(w)  PROVE Reread(t, rows, edges)
      <4>1. Reread(s, rows, edges)
        BY <1>2, <3>3
      <4>2. t.was[2] = edges /\ PlainRows(rows) = PlainRows(t.was[1]) /\ t.was[1] \subseteq RowRec
        BY <3>1, <4>1 DEF Reread
      <4>3. \A i \in DOMAIN t.items : \E x \in rows : Tells(t.items[i], x)
        BY <1>3, <3>1, <3>3
      <4>4. t.mem \subseteq rows /\ \A k \in DOMAIN t.ids : \E i \in Ids : k = IdText[i] /\ t.ids[k] = i
        BY <3>1, <4>1 DEF Reread
      <4>5. \A i \in DOMAIN t.links : \E e \in edges : t.links[i] = Text(e)
        BY <1>1, <3>1, <4>1 DEF Reread
      <4> QED  BY <3>1, <4>2, <4>3, <4>4, <4>5 DEF Reread
    <3> QED  BY <1>1, <3>1, <3>2, <3>3, AloneStep
  <2>2. CASE End(w)
    <3>1. Set(w, Idle) /\ Idle.pc = "idle"
      BY <2>2 DEF End, Idle
    <3> QED  BY <1>1, <3>1, AloneStep
  <2> QED  BY <1>7, <2>1, <2>2 DEF SkipItem
<1> QED  BY <1>4, <1>5, <1>6, <1>7 DEF FindEntity

LEMMA PlainMerge ==
  ASSUME NEW r \in RowRec, NEW item \in ItemType, Tells(item, r)
  PROVE  /\ Plain(Merged(r, item)) = Plain(r)
         /\ \A x : Tells(x, r) => Tells(x, Merged(r, item))
<1> DEFINE new == Merged(r, item)
<1>1. /\ new.id = r.id /\ new.name = r.name /\ new.props = Over(r.props, item.props)
      /\ new.weight = Max({r.weight, item.weight}) /\ new \in RowRec
  BY MergedType
<1>2. new.props = r.props
  BY <1>1 DEF Tells, Over
<1>3. new.weight = r.weight
  <2>1. r.weight \in Int /\ item.weight = r.weight
    BY DEF Tells, RowRec
  <2> QED  BY <1>1, <2>1, LargerOf
<1> HIDE DEF new
<1>4. Plain(new) = Plain(r)
  <2>1. \A q \in RowRec : Plain(q) = [id |-> q.id, name |-> q.name, props |-> q.props,
                                      weight |-> q.weight, icon |-> "default"]
    BY DEF Plain, RowRec
  <2> QED  BY <1>1, <1>2, <1>3, <2>1
<1>5. \A x : Tells(x, r) => Tells(x, new)
  BY <1>1, <1>2, <1>3 DEF Tells
<1> QED  BY <1>4, <1>5 DEF new

LEMMA MergeEntityAlone ==
  ASSUME Typed, Alone, NEW w \in Writers, MergeEntity(w)
  PROVE  Alone'
<1> DEFINE s == wk[w]
           item == Head(s.items)
           id == s.saw.id
           new == Written(s.saw, Merged(s.saw, item), RowOf(id))
           t == [s EXCEPT !.pc = "next", !.items = Tail(@),
                          !.ids = With(@, Head(s.items).key, new.id),
                          !.mem = {m \in @ : m.id # new.id} \cup {new}]
<1>1. /\ Busy(w) /\ s.pc = "merge" /\ s.items # <<>> /\ s \in SessionType /\ s.saw \in RowRec /\ Tables
  BY DEF MergeEntity, Busy, Typed, Session, InOrder
<1>2. item \in ItemType /\ item.key \in Keys
  BY <1>1, ItemAtHand DEF ItemType
<1>3. edges' = edges
  BY DEF MergeEntity
<1>4. CASE End(w)
  <2>1. Set(w, Idle) /\ Idle.pc = "idle"
    BY <1>4 DEF End, Idle
  <2> QED  BY <1>1, <2>1, AloneStep
<1>5. CASE id \in RowIds /\ Replace(id, new) /\ Stored(w, new)
  <2>1. RowOf(id) \in rows /\ RowOf(id).id = id
    BY <1>1, <1>5, RowOfId
  <2>2. /\ new \in RowRec /\ new.id = id
        /\ s.saw = RowOf(id) => new = Merged(s.saw, item)
    BY <1>1, <1>5, MergeWrites
  <2>3. Set(w, t)
    BY <1>5 DEF Stored
  <2>4. /\ t.pc = "next" /\ t.job = s.job /\ t.ids = With(s.ids, item.key, new.id)
        /\ t.mem = {m \in s.mem : m.id # new.id} \cup {new}
        /\ t.items = Tail(s.items) /\ t.links = s.links /\ t.solo = s.solo /\ t.was = s.was
    BY <1>1, StoredFields
  <2>5. rows' = {r \in rows : r.id # id} \cup {new}
    BY <1>5 DEF Replace
  <2> HIDE DEF t, new, item
  <2>6. ASSUME Solo(w)  PROVE Reread(t, rows', edges')
    <3>1. Reread(s, rows, edges)
      BY <2>6 DEF Alone
    <3>2. s.saw \in rows /\ Tells(item, s.saw)
      BY <1>1, <3>1 DEF Reread, item
    <3>3. s.saw = RowOf(id) /\ \A r \in rows : r.id = id => r = s.saw
      BY <1>1, <2>1, <3>2 DEF Tables
    <3>4. Plain(new) = Plain(s.saw) /\ \A x : Tells(x, s.saw) => Tells(x, new)
      <4>1. new = Merged(s.saw, item)
        BY <2>2, <3>3
      <4> QED  BY <1>1, <1>2, <3>2, <4>1, PlainMerge
    <3>5. PlainRows(rows') = PlainRows(rows)
      <4>1. \A q \in rows' : \E r \in rows : Plain(q) = Plain(r)
        BY <2>5, <3>2, <3>4
      <4>2. \A r \in rows : \E q \in rows' : Plain(q) = Plain(r)
        BY <2>5, <3>3, <3>4
      <4> QED  BY <4>1, <4>2 DEF PlainRows
    <3>6. t.was[2] = edges' /\ PlainRows(rows') = PlainRows(t.was[1]) /\ t.was[1] \subseteq RowRec
      BY <1>3, <2>4, <3>1, <3>5 DEF Reread
    <3>7. \A x : (\E r \in rows : Tells(x, r)) => \E r \in rows' : Tells(x, r)
      BY <2>5, <3>3, <3>4
    <3>8. \A i \in DOMAIN t.items : \E r \in rows' : Tells(t.items[i], r)
      <4>1. \A i \in DOMAIN s.items : \E r \in rows : Tells(s.items[i], r)
        BY <1>1, <3>1 DEF Reread
      <4>2. \A i \in DOMAIN Tail(s.items) : \E r \in rows : Tells(Tail(s.items)[i], r)
        BY <1>1, <4>1, ItemsTell
      <4> QED  BY <2>4, <3>7, <4>2
    <3>9. t.mem \subseteq rows'
      <4>1. s.mem \subseteq rows
        BY <3>1 DEF Reread
      <4> QED  BY <2>2, <2>4, <2>5, <4>1
    <3>10. \A k \in DOMAIN t.ids : \E i \in Ids : k = IdText[i] /\ t.ids[k] = i
      <4>1. \A k \in DOMAIN s.ids : \E i \in Ids : k = IdText[i] /\ s.ids[k] = i
        BY <3>1 DEF Reread
      <4>2. s.ids \in KeyMaps /\ id \in Ids
        BY <1>1 DEF SessionType, RowRec
      <4>3. item.key = IdText[id]
        BY <3>2 DEF Tells
      <4>4. t.ids = With(s.ids, item.key, id)
        BY <2>2, <2>4
      <4>5. /\ DOMAIN t.ids = DOMAIN s.ids \cup {item.key} /\ t.ids[item.key] = id
            /\ \A x \in DOMAIN s.ids : x # item.key => t.ids[x] = s.ids[x]
        <5>1. \A f \in KeyMaps, k \in Keys, i \in Ids :
                /\ DOMAIN With(f, k, i) = DOMAIN f \cup {k} /\ With(f, k, i)[k] = i
                /\ \A x \in DOMAIN f : x # k => With(f, k, i)[x] = f[x]
          BY ONLY MoreKeys
        <5>2. /\ DOMAIN With(s.ids, item.key, id) = DOMAIN s.ids \cup {item.key}
              /\ With(s.ids, item.key, id)[item.key] = id
              /\ \A x \in DOMAIN s.ids : x # item.key => With(s.ids, item.key, id)[x] = s.ids[x]
          <6> DEFINE ids == s.ids
                     key == item.key
          <6>1. ids \in KeyMaps /\ key \in Keys /\ id \in Ids
            BY <1>2, <4>2
          <6> HIDE DEF ids, key, id
          <6>2. /\ DOMAIN With(ids, key, id) = DOMAIN ids \cup {key} /\ With(ids, key, id)[key] = id
                /\ \A x \in DOMAIN ids : x # key => With(ids, key, id)[x] = ids[x]
            BY ONLY <5>1, <6>1
          <6> QED  BY <6>2 DEF ids, key, id
        <5> QED  BY <4>4, <5>2
      <4> QED  BY <4>1, <4>2, <4>3, <4>5
    <3>11. \A i \in DOMAIN t.links : \E e \in edges' : t.links[i] = Text(e)
      BY <1>1, <1>3, <2>4, <3>1 DEF Reread
    <3> QED  BY <2>4, <3>6, <3>8, <3>9, <3>10, <3>11 DEF Reread
  <2> QED  BY <1>1, <2>3, <2>4, <2>6, AloneStep
<1> QED  BY <1>4, <1>5 DEF MergeEntity

LEMMA FindEdgeAlone ==
  ASSUME Typed, Alone, NEW w \in Writers, FindEdge(w)
  PROVE  Alone'
<1> DEFINE s == wk[w]
           l == Head(s.links)
<1>1. /\ Busy(w) /\ s.pc = "next" /\ s.links # <<>> /\ s \in SessionType
      /\ rows' = rows /\ edges' = edges /\ Tables
  BY DEF FindEdge, Busy, Typed
<1>2. /\ l = s.links[1] /\ 1 \in DOMAIN s.links
      /\ \A i \in DOMAIN Tail(s.links) : i + 1 \in DOMAIN s.links /\ Tail(s.links)[i] = s.links[i + 1]
  <2>1. s.links \in Seq(LinkType)
    BY <1>1 DEF SessionType
  <2> QED  BY <1>1, <2>1, HeadTail
<1>3. \/ SkipLink(w) \/ End(w)
      \/ /\ Known(w, l) /\ \A e \in edges : ~ Same(e, Ends(w, l), l)
         /\ Set(w, [s EXCEPT !.pc = "insert edge"])
  <2>1. \/ SkipLink(w) \/ End(w)
        \/ /\ Known(w, l) /\ {e \in edges : Same(e, Ends(w, l), l)} = {}
           /\ Set(w, [s EXCEPT !.pc = "insert edge"])
    BY DEF FindEdge
  <2> QED  BY <2>1
<1>4. CASE SkipLink(w)
  <2> DEFINE t == [s EXCEPT !.pc = "next", !.links = Tail(@)]
  <2>1. /\ t.pc = "next" /\ t.job = s.job /\ t.ids = s.ids /\ t.mem = s.mem
        /\ t.items = s.items /\ t.links = Tail(s.links) /\ t.solo = s.solo /\ t.was = s.was
    BY <1>1 DEF SessionType
  <2>2. Set(w, t)
    BY <1>4 DEF SkipLink
  <2> HIDE DEF t
  <2>3. ASSUME Solo(w)  PROVE Reread(t, rows, edges)
    <3>1. Reread(s, rows, edges)
      BY <2>3 DEF Alone
    <3>2. t.was[2] = edges /\ PlainRows(rows) = PlainRows(t.was[1]) /\ t.was[1] \subseteq RowRec
      BY <2>1, <3>1 DEF Reread
    <3>3. \A i \in DOMAIN t.items : \E x \in rows : Tells(t.items[i], x)
      BY <1>1, <2>1, <3>1 DEF Reread
    <3>4. t.mem \subseteq rows /\ \A k \in DOMAIN t.ids : \E i \in Ids : k = IdText[i] /\ t.ids[k] = i
      BY <2>1, <3>1 DEF Reread
    <3>5. \A i \in DOMAIN t.links : \E e \in edges : t.links[i] = Text(e)
      <4>1. \A i \in DOMAIN s.links : \E e \in edges : s.links[i] = Text(e)
        BY <1>1, <3>1 DEF Reread
      <4> QED  BY <1>2, <2>1, <4>1
    <3> QED  BY <2>1, <3>2, <3>3, <3>4, <3>5 DEF Reread
  <2> QED  BY <1>1, <2>1, <2>2, <2>3, AloneStep
<1>5. CASE End(w)
  <2>1. Set(w, Idle) /\ Idle.pc = "idle"
    BY <1>5 DEF End, Idle
  <2> QED  BY <1>1, <2>1, AloneStep
<1>6. CASE /\ Known(w, l) /\ \A e \in edges : ~ Same(e, Ends(w, l), l)
           /\ Set(w, [s EXCEPT !.pc = "insert edge"])
  <2> DEFINE t == [s EXCEPT !.pc = "insert edge"]
  <2>1. t.job = s.job /\ t.solo = s.solo /\ t.was = s.was
    BY <1>1 DEF SessionType
  <2>2. Set(w, t)
    BY <1>6
  <2> HIDE DEF t
  <2>3. Known(w, l) /\ \A e \in edges : ~ Same(e, Ends(w, l), l)
    BY <1>6
  <2>4. ASSUME Solo(w)  PROVE FALSE
    <3>1. Reread(s, rows, edges)
      BY <2>4 DEF Alone
    <3>2. PICK e \in edges : l = Text(e)
      BY <1>1, <1>2, <3>1 DEF Reread
    <3>3. l.from = IdText[e.src] /\ l.to = IdText[e.tgt] /\ l.label = e.label
      BY <3>2 DEF Text, Link
    <3>4. e.src \in Ids /\ e.tgt \in Ids
      BY <1>1 DEF Tables, EdgeRec
    <3>5. l.from \in DOMAIN s.ids /\ l.to \in DOMAIN s.ids
      BY <2>3 DEF Known
    <3>6. \A k \in DOMAIN s.ids : \E i \in Ids : k = IdText[i] /\ s.ids[k] = i
      BY <3>1 DEF Reread
    <3>7. s.ids[l.from] = e.src /\ s.ids[l.to] = e.tgt
      BY <3>3, <3>4, <3>5, <3>6, IdTextAssumption
    <3>8. Ends(w, l) = <<e.src, e.tgt>>
      BY <3>7 DEF Ends
    <3> HIDE DEF l
    <3>9. Same(e, Ends(w, l), l)
      BY <3>3, <3>8 DEF Same
    <3> QED  BY <2>3, <3>9
  <2> QED  BY <1>1, <2>1, <2>2, <2>4, AloneStep
<1> QED  BY <1>3, <1>4, <1>5, <1>6

\* The steps that an import of an export does not take, and its last ones.
LEMMA OtherStepAlone ==
  ASSUME Typed, Alone, NEW w \in Writers,
         InsertEntity(w) \/ InsertEdge(w) \/ Finish(w) \/ Leave(w) \/ LoadEntity(w) \/ ChangeEntity(w) \/ DeleteEntity(w)
  PROVE  Alone'
<1> DEFINE s == wk[w]
<1>1. Busy(w) /\ s \in SessionType
  BY DEF InsertEntity, InsertEdge, Finish, Leave, LoadEntity, ChangeEntity, DeleteEntity, Busy, Typed
<1>2. Solo(w) => s.pc \in {"read", "read edges", "next", "merge", "done"}
  BY DEF Alone, Reread
<1>3. CASE End(w)
  <2>1. Set(w, Idle) /\ Idle.pc = "idle"
    BY <1>3 DEF End, Idle
  <2> QED  BY <1>1, <2>1, AloneStep
<1>4. CASE InsertEntity(w)
  <2> DEFINE r == Row(nextId, Head(s.items))
             t == [s EXCEPT !.pc = "next", !.items = Tail(@),
                            !.ids = With(@, Head(s.items).key, r.id),
                            !.mem = {m \in @ : m.id # r.id} \cup {r}]
  <2>1. Set(w, t) /\ ~ Solo(w)
    BY <1>2, <1>4 DEF InsertEntity, Stored
  <2>2. t.job = s.job /\ t.solo = s.solo /\ t.was = s.was
    BY <1>1, StoredFields
  <2> HIDE DEF t
  <2> QED  BY <1>1, <2>1, <2>2, AloneStep
<1>5. CASE InsertEdge(w) /\ SkipLink(w)
  <2> DEFINE t == [s EXCEPT !.pc = "next", !.links = Tail(@)]
  <2>1. Set(w, t) /\ ~ Solo(w)
    BY <1>2, <1>5 DEF InsertEdge, SkipLink
  <2>2. t.job = s.job /\ t.solo = s.solo /\ t.was = s.was
    BY <1>1 DEF SessionType
  <2> HIDE DEF t
  <2> QED  BY <1>1, <2>1, <2>2, AloneStep
<1>6. CASE LoadEntity(w) /\ Set(w, [s EXCEPT !.pc = "change", !.saw = RowOf(s.saw.id)])
  <2> DEFINE t == [s EXCEPT !.pc = "change", !.saw = RowOf(s.saw.id)]
  <2>1. Set(w, t) /\ ~ Solo(w)
    BY <1>2, <1>6 DEF LoadEntity
  <2>2. t.job = s.job /\ t.solo = s.solo /\ t.was = s.was
    BY <1>1 DEF SessionType
  <2> HIDE DEF t
  <2> QED  BY <1>1, <2>1, <2>2, AloneStep
<1>7. CASE Finish(w)
  <2> DEFINE t == [s EXCEPT !.pc = "done"]
  <2>1. Set(w, t) /\ rows' = rows /\ edges' = edges /\ s.pc = "next"
    BY <1>7 DEF Finish
  <2>2. /\ t.pc = "done" /\ t.job = s.job /\ t.ids = s.ids /\ t.mem = s.mem
        /\ t.items = s.items /\ t.links = s.links /\ t.solo = s.solo /\ t.was = s.was
    BY <1>1 DEF SessionType
  <2> HIDE DEF t
  <2>3. ASSUME Solo(w)  PROVE Reread(t, rows, edges)
    <3>1. Reread(s, rows, edges)
      BY <2>3 DEF Alone
    <3>2. t.was[2] = edges /\ PlainRows(rows) = PlainRows(t.was[1]) /\ t.was[1] \subseteq RowRec
      BY <2>2, <3>1 DEF Reread
    <3>3. \A i \in DOMAIN t.items : \E x \in rows : Tells(t.items[i], x)
      BY <2>1, <2>2, <3>1 DEF Reread
    <3>4. t.mem \subseteq rows /\ \A k \in DOMAIN t.ids : \E i \in Ids : k = IdText[i] /\ t.ids[k] = i
      BY <2>2, <3>1 DEF Reread
    <3>5. \A i \in DOMAIN t.links : \E e \in edges : t.links[i] = Text(e)
      BY <2>1, <2>2, <3>1 DEF Reread
    <3> QED  BY <2>2, <3>2, <3>3, <3>4, <3>5 DEF Reread
  <2> QED  BY <1>1, <2>1, <2>2, <2>3, AloneStep
<1> QED  BY <1>3, <1>4, <1>5, <1>6, <1>7 DEF InsertEdge, Leave, LoadEntity, ChangeEntity, DeleteEntity

LEMMA AloneKeeps ==
  ASSUME Typed, Alone, [Next]_vars
  PROVE  Alone'
<1>1. CASE UNCHANGED vars
  BY <1>1 DEF vars, Alone, Solo, Busy
<1>2. ASSUME NEW w \in Writers, NEW j \in Jobs, Begin(w, j)  PROVE Alone'
  BY <1>2, BeginAlone
<1>3. ASSUME NEW w \in Writers, Step(w)  PROVE Alone'
  <2>1. CASE ReadEntities(w) \/ ReadEdges(w)
    BY <2>1, ReadEntitiesAlone, ReadEdgesAlone
  <2>2. CASE FindEntity(w) \/ MergeEntity(w) \/ FindEdge(w)
    BY <2>2, FindEntityAlone, MergeEntityAlone, FindEdgeAlone
  <2>3. CASE \/ InsertEntity(w) \/ InsertEdge(w) \/ Finish(w) \/ Leave(w)
             \/ LoadEntity(w) \/ ChangeEntity(w) \/ DeleteEntity(w)
    BY <2>3, OtherStepAlone
  <2> QED  BY <1>3, <2>1, <2>2, <2>3 DEF Step
<1> QED  BY <1>1, <1>2, <1>3 DEF Next

\* export.py, import_.py: an import of the project's own export, while nobody
\* else writes, leaves all edges and, but for icons, all rows as they were:
\* whatever is exported is found again, and what is found is not changed.
THEOREM ReimportsChangeNothing == Spec => []ReimportChangesNothing
<1>1. Init => Alone
  BY DEF Init, Idle, Alone, Solo, Busy
<1>2. Typed /\ Alone /\ [Next]_vars => Alone'
  BY AloneKeeps
<1>3. Alone => ReimportChangesNothing
  <2> SUFFICES ASSUME Alone, NEW w \in Writers, wk[w].pc = "done", wk[w].job.kind = "reimport", wk[w].solo,
                      Survives(wk[w].was, wk[w].job.format)
               PROVE  /\ edges = wk[w].was[2]
                      /\ {[r EXCEPT !.icon = "default"] : r \in rows}
                           = {[r EXCEPT !.icon = "default"] : r \in wk[w].was[1]}
    BY DEF ReimportChangesNothing
  <2>1. edges = wk[w].was[2] /\ PlainRows(rows) = PlainRows(wk[w].was[1])
    BY DEF Alone, Solo, Busy, Reread
  <2> QED  BY <2>1 DEF PlainRows, Plain
<1>4. Typed /\ StoreInv => Typed
  OBVIOUS
<1>5. Spec => []Typed
  BY <1>4, StoreInvHolds, PTL
<1> QED  BY <1>1, <1>2, <1>3, <1>5, PTL DEF Spec
=============================================================================
