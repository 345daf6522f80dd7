------------------------------ MODULE Geocoding ------------------------------
(***************************************************************************)
(* What is known of names and places: LocationSearchStore                  *)
(* (store/location_search_store.py) for suggestions, geocoding and reverse *)
(* geocoding, and MapStore (store/map_store.py) for the points of a map.   *)
(* Both keep the table geocode_cache, one row for a name, the first one    *)
(* two memories of the process as well, and both ask Nominatim.            *)
(*                                                                         *)
(* Every request makes a store of its own (api/dependencies.py,            *)
(* transforms/location): of what LocationSearchStore writes, the memories  *)
(* are the class's, and the times before which it must not ask again are   *)
(* the store's.  A store asks Nominatim once at most, so that the answers  *)
(* for one that has to wait are never given.  Reverse geocoding in a       *)
(* worker's job, which is a process of its own, leaves nothing behind and  *)
(* is left out.                                                            *)
(***************************************************************************)
EXTENDS Integers, Sequences, FiniteSets, SequencesExt, TLC

CONSTANTS
  Clients,     \* requests that are under way at a time
  Names,       \* names and addresses, as they are typed or displayed
  Places,      \* coordinates
  Under,       \* Under[n]: the names that begin with n
  Projects,    \* sequences of entities: [label, place], either may be None
  None,
  MemoryTtl,   \* half seconds a suggestion is remembered
  Cooldown,    \* half seconds to wait after a refusal
  MaxTime,     \* bound on the clock
  MaxRequests  \* bound: requests in all

EntityType == [label : Names \cup {None}, place : Places \cup {None}]

ASSUME GeocodingAssumption ==
  /\ \A n \in Names : n \in Under[n] /\ Under[n] \subseteq Names
  /\ Projects \subseteq Seq(EntityType)
  /\ None \notin Names \cup Places /\ None \notin Nat
  /\ {MemoryTtl, Cooldown, MaxTime, MaxRequests} \subseteq Nat

VARIABLES
  now,        \* the clock, in half seconds
  table,      \* geocode_cache: the place of a name, or None
  memory,     \* suggestions: when they were learnt, and the places of names
  reversed,   \* when and what was learnt of a place
  rq,         \* where each request stands
  asked,      \* requests so far
  last,       \* history: when a place was last right for a name
  refusedAt,  \* history: when Nominatim last refused a LocationSearchStore
  hasty       \* history: whether one has asked in the cool-down after that

geocodingVars == <<table, memory, reversed, rq, asked, last, refusedAt, hasty>>

Known(n, p) == [name |-> n, place |-> p]

Asks == [op : {"normalize", "suggest"}, arg : Names] \cup [op : {"reverse"}, arg : Places]
          \cup [op : {"points"}, arg : Projects, missing : BOOLEAN]

Idle == [pc |-> "idle", ask |-> None, at |-> 0, until |-> 0, todo |-> <<>>, saw |-> None,
         found |-> {}, points |-> {}, unresolved |-> {}, warned |-> FALSE]

GeocodingInit ==
  /\ table = [n \in Names |-> None]
  /\ memory = [n \in Names |-> None]
  /\ reversed = [p \in Places |-> None]
  /\ rq = [c \in Clients |-> Idle]
  /\ asked = 0
  /\ last = [n \in Names |-> [p \in Places |-> None]]
  /\ refusedAt = None /\ hasty = FALSE

-----------------------------------------------------------------------------
Set(c, fields) == rq' = [rq EXCEPT ![c] = fields]
At(c, op, pc)  == rq[c].pc = pc /\ rq[c].ask.op = op

\* What the request has found is the answer.
Answered(c, found) == [rq[c] EXCEPT !.pc = "answered", !.found = found]

Fails(c) == Set(c, [rq[c] EXCEPT !.pc = "failed"])

Begin(c, ask) ==
  /\ rq[c].pc = "idle" /\ asked < MaxRequests
  /\ asked' = asked + 1
  /\ Set(c, [Idle EXCEPT
       !.pc = CASE ask.op = "normalize"            -> "look"
                [] ask.op \in {"suggest", "reverse"} -> "recall"
                [] ask.op = "points"               -> "entity",
       !.ask = ask,
       !.todo = IF ask.op = "points" THEN ask.arg ELSE <<>>,
       !.warned = refusedAt # None /\ now < refusedAt + Cooldown])
  /\ UNCHANGED <<table, memory, reversed, last, refusedAt, hasty>>

\* Nominatim is asked, unless this store was told to wait.
Waiting(r) == [r EXCEPT !.pc = "waiting"]

Ask(c) ==
  /\ now >= rq[c].until
  /\ Set(c, Waiting(rq[c]))
  /\ hasty' = (hasty \/ rq[c].warned)

\* A row with another place replaces the one that was right until now.
Write(n, p) ==
  /\ table' = [table EXCEPT ![n] = p]
  /\ last' = IF table[n] \in {None, p} THEN last ELSE [last EXCEPT ![n][table[n]] = now]

Fresh(entry) == entry # None /\ now - entry.at < MemoryTtl

-----------------------------------------------------------------------------
(***************************************************************************)
(* LocationSearchStore before it asks.                                     *)
(***************************************************************************)
LookExact(c) ==
  /\ At(c, "normalize", "look")
  /\ LET n == rq[c].ask.arg IN
     \/ table[n] # None /\ Set(c, Answered(c, {Known(n, table[n])})) /\ UNCHANGED hasty
     \/ table[n] = None /\ Ask(c)
  /\ UNCHANGED <<table, memory, reversed, asked, last, refusedAt>>

\* Mutant: what is remembered is dated by its end.
LearnUntil(n, at, list) == memory' = [memory EXCEPT ![n] = [at |-> at + MemoryTtl, list |-> list]]

Learn(n, at, list) == memory' = [memory EXCEPT ![n] = [at |-> at, list |-> list]]

\* Mutant: what is recalled is kept for as long again.
RecallSuggestionsAgain(c) ==
  /\ At(c, "suggest", "recall")
  /\ LET n == rq[c].ask.arg
         m == memory[n]
     IN \/ Fresh(m) /\ Set(c, Answered(c, m.list)) /\ Learn(n, now, m.list)
        \/ ~ Fresh(m) /\ Set(c, [rq[c] EXCEPT !.pc = "look", !.at = now]) /\ UNCHANGED memory
  /\ UNCHANGED <<table, reversed, asked, last, refusedAt, hasty>>

RecallSuggestions(c) ==
  /\ At(c, "suggest", "recall")
  /\ LET m == memory[rq[c].ask.arg] IN
     \/ Fresh(m) /\ Set(c, Answered(c, m.list))
     \/ ~ Fresh(m) /\ Set(c, [rq[c] EXCEPT !.pc = "look", !.at = now])
  /\ UNCHANGED <<table, memory, reversed, asked, last, refusedAt, hasty>>

\* Rows of names that begin like the query are remembered as its suggestions.
LookPrefix(c) ==
  LET n    == rq[c].ask.arg
      rows == {Known(m, table[m]) : m \in {k \in Under[n] : table[k] # None}}
  IN /\ At(c, "suggest", "look")
     /\ \/ /\ rows # {} /\ Learn(n, rq[c].at, rows)
           /\ Set(c, Answered(c, rows)) /\ UNCHANGED hasty
        \/ rows = {} /\ Ask(c) /\ UNCHANGED memory
     /\ UNCHANGED <<table, reversed, asked, last, refusedAt>>

RecallPlace(c) ==
  /\ At(c, "reverse", "recall")
  /\ LET m == reversed[rq[c].ask.arg] IN
     \/ Fresh(m) /\ Set(c, Answered(c, m.list)) /\ UNCHANGED hasty
     \/ ~ Fresh(m) /\ Ask(c)
  /\ UNCHANGED <<table, memory, reversed, asked, last, refusedAt>>

-----------------------------------------------------------------------------
(***************************************************************************)
(* What Nominatim answers.                                                 *)
(***************************************************************************)
Searching(c) == rq[c].pc = "waiting" /\ rq[c].ask.op # "points"

\* A refusal sets the time to wait in the store that has asked.
Refuse(c) ==
  /\ Searching(c)
  /\ Set(c, [Answered(c, {}) EXCEPT !.until = now + Cooldown])
  /\ refusedAt' = now
  /\ UNCHANGED <<table, memory, reversed, asked, last, hasty>>

\* Nothing is found, or the request fails: it is remembered as well.
FindNothing(c) ==
  /\ Searching(c) /\ Set(c, Answered(c, {}))
  /\ LET arg == rq[c].ask.arg IN
     \/ rq[c].ask.op = "normalize" /\ UNCHANGED <<memory, reversed>>
     \/ rq[c].ask.op = "suggest" /\ Learn(arg, now, {}) /\ UNCHANGED reversed
     \/ /\ rq[c].ask.op = "reverse" /\ UNCHANGED memory
        /\ reversed' = [reversed EXCEPT ![arg] = [at |-> now, list |-> {}]]
  /\ UNCHANGED <<table, asked, last, refusedAt, hasty>>

Storing(c, found) == [rq[c] EXCEPT !.pc = "select", !.todo = SetToSeq(found), !.found = found]

Right(found) == last' = [n \in Names |-> [p \in Places |->
                           IF Known(n, p) \in found THEN now ELSE last[n][p]]]

\* Of one place, or of several with suggestions, the display name is told.
FindPlace(c) ==
  /\ At(c, "normalize", "waiting")
  /\ \E n \in Names, p \in Places :
       LET found == {Known(rq[c].ask.arg, p), Known(n, p)}
       IN Set(c, Storing(c, found)) /\ Right(found)
  /\ UNCHANGED <<table, memory, reversed, asked, refusedAt, hasty>>

FindSuggestions(c) ==
  /\ At(c, "suggest", "waiting")
  /\ \E ns \in (SUBSET Names) \ {{}} : \E ps \in [ns -> Places] :
       IsFiniteSet(ns) /\
       LET found == {Known(n, ps[n]) : n \in ns}
       IN Set(c, Storing(c, found)) /\ Right(found) /\ Learn(rq[c].ask.arg, now, found)
  /\ UNCHANGED <<table, reversed, asked, refusedAt, hasty>>

FindName(c) ==
  /\ At(c, "reverse", "waiting")
  /\ \E n \in Names :
       LET found == {Known(n, rq[c].ask.arg)}
       IN /\ Set(c, Answered(c, found)) /\ Right(found)
          /\ reversed' = [reversed EXCEPT ![rq[c].ask.arg] = [at |-> now, list |-> found]]
  /\ UNCHANGED <<table, memory, asked, refusedAt, hasty>>

-----------------------------------------------------------------------------
(***************************************************************************)
(* The points of a map: the entities are gone through once.                *)
(***************************************************************************)
Point(e, p)   == [entity |-> e, place |-> p]
Placed(c, p)  == [rq[c] EXCEPT !.pc = "entity", !.todo = Tail(@),
                               !.points = @ \cup {Point(Head(rq[c].todo), p)}]
Unresolved(c) == [rq[c] EXCEPT !.pc = "entity", !.todo = Tail(@),
                               !.unresolved = @ \cup {Head(rq[c].todo).label}]

\* An entity with coordinates has the name it bears stored; one with a name
\* is looked for in the table and, if that is wanted, with Nominatim.
NextEntity(c) ==
  LET e == Head(rq[c].todo)
      row == table[e.label]
  IN /\ At(c, "points", "entity") /\ rq[c].todo # <<>>
     /\ \/ e.place # None /\ e.label # None /\ Set(c, [rq[c] EXCEPT !.pc = "select"])
        \/ e.place # None /\ e.label = None /\ Set(c, Placed(c, e.place))
        \/ e.place = None /\ e.label = None /\ Set(c, [rq[c] EXCEPT !.todo = Tail(@)])
        \/ /\ e.place = None /\ e.label # None
           /\ \/ row # None /\ Set(c, Placed(c, row))
              \/ row = None /\ rq[c].ask.missing /\ Set(c, Waiting(rq[c]))
              \/ row = None /\ ~ rq[c].ask.missing /\ Set(c, Unresolved(c))
     /\ UNCHANGED <<table, memory, reversed, asked, last, refusedAt, hasty>>

FindPoint(c) ==
  /\ At(c, "points", "waiting")
  /\ \/ Set(c, Unresolved(c)) /\ UNCHANGED last
     \/ \E p \in Places : LET found == {Known(Head(rq[c].todo).label, p)} IN
          Set(c, [rq[c] EXCEPT !.pc = "select", !.found = found]) /\ Right(found)
  /\ UNCHANGED <<table, memory, reversed, asked, refusedAt, hasty>>

FinishMap(c) ==
  /\ At(c, "points", "entity") /\ rq[c].todo = <<>>
  /\ Set(c, [rq[c] EXCEPT !.pc = "answered"])
  /\ UNCHANGED <<table, memory, reversed, asked, last, refusedAt, hasty>>

-----------------------------------------------------------------------------
(***************************************************************************)
(* Both stores' upserts: the row is read, and written or inserted.         *)
(***************************************************************************)
OnMap(c) == rq[c].ask.op = "points"

\* What is to be stored now: an entity's own place, or the one just found.
Current(c) ==
  IF OnMap(c) /\ Head(rq[c].todo).place # None
  THEN Known(Head(rq[c].todo).label, Head(rq[c].todo).place)
  ELSE IF OnMap(c) THEN CHOOSE k \in rq[c].found : TRUE ELSE Head(rq[c].todo)

\* The map takes a place that was looked up from the row as it then is.
Stored(c, row) ==
  IF OnMap(c) THEN Placed(c, IF Head(rq[c].todo).place # None THEN Head(rq[c].todo).place ELSE row)
  ELSE IF Len(rq[c].todo) > 1 THEN [rq[c] EXCEPT !.pc = "select", !.todo = Tail(@)]
  ELSE [Answered(c, rq[c].found) EXCEPT !.todo = <<>>]

SelectRow(c) ==
  /\ rq[c].pc = "select"
  /\ LET row == table[Current(c).name] IN
     Set(c, [rq[c] EXCEPT !.pc = IF row = None THEN "insert" ELSE "update", !.saw = row])
  /\ UNCHANGED <<table, memory, reversed, asked, last, refusedAt, hasty>>

\* Only what differs from the row that was read is written.
UpdateRow(c) ==
  LET k == Current(c) IN
  /\ rq[c].pc = "update"
  /\ \/ k.place # rq[c].saw /\ Write(k.name, k.place) /\ Set(c, Stored(c, k.place))
     \/ k.place = rq[c].saw /\ UNCHANGED <<table, last>> /\ Set(c, Stored(c, table[k.name]))
  /\ UNCHANGED <<memory, reversed, asked, refusedAt, hasty>>

\* Mutant: the map does not recover.
ConflictFails(c) == Fails(c)

\* When another request has inserted the row, the map reads it and goes on.
Conflict(c) ==
  \/ OnMap(c) /\ Set(c, [rq[c] EXCEPT !.pc = "select"])
  \/ ~ OnMap(c) /\ Fails(c)

InsertRow(c) ==
  LET k == Current(c) IN
  /\ rq[c].pc = "insert"
  /\ \/ table[k.name] = None /\ Write(k.name, k.place) /\ Set(c, Stored(c, k.place))
     \/ table[k.name] # None /\ Conflict(c) /\ UNCHANGED <<table, last>>
  /\ UNCHANGED <<memory, reversed, asked, refusedAt, hasty>>

Leave(c) ==
  /\ rq[c].pc \in {"answered", "failed"} /\ Set(c, Idle)
  /\ UNCHANGED <<table, memory, reversed, asked, last, refusedAt, hasty>>

GeocodingStep(c) ==
  \/ LookExact(c) \/ RecallSuggestions(c) \/ LookPrefix(c) \/ RecallPlace(c)
  \/ Refuse(c) \/ FindNothing(c) \/ FindPlace(c) \/ FindSuggestions(c) \/ FindName(c)
  \/ NextEntity(c) \/ FindPoint(c) \/ FinishMap(c)
  \/ SelectRow(c) \/ UpdateRow(c) \/ InsertRow(c) \/ Leave(c)

GeocodingNext == \E c \in Clients : (\E ask \in Asks : Begin(c, ask)) \/ GeocodingStep(c)

-----------------------------------------------------------------------------
(***************************************************************************)
(* Properties.                                                             *)
(***************************************************************************)
GeocodingTypeOK ==
  /\ table \in [Names -> Places \cup {None}]
  /\ \A n \in Names : memory[n] # None => memory[n].at \in 0..now /\ memory[n].list \subseteq [name : Names, place : Places]
  /\ \A p \in Places : reversed[p] # None => reversed[p].at \in 0..now
  /\ \A c \in Clients : rq[c].points \subseteq [entity : EntityType, place : Places]

\* map_store.py:196-202: whoever else stores names meanwhile, the map is
\* answered, with every entity that has a place, at that place, and with every
\* name, resolved or not.
MapIsAnswered ==
  \A c \in Clients : rq[c].pc \in {"answered", "failed"} /\ OnMap(c) =>
    /\ rq[c].pc = "answered"
    /\ \A e \in Range(rq[c].ask.arg) :
         /\ e.place # None => Point(e, e.place) \in rq[c].points
         /\ e.label # None => (\E p \in rq[c].points : p.entity = e) \/ e.label \in rq[c].unresolved

\* location_search_store.py:129-137 and 173: a place that is suggested was
\* right, in the table or by Nominatim's answer, less than the time that
\* suggestions are kept ago.
SuggestionsAreRecent ==
  \A n \in Names : Fresh(memory[n]) => \A k \in memory[n].list :
    \/ table[k.name] = k.place
    \/ last[k.name][k.place] # None /\ now - last[k.name][k.place] < MemoryTtl

\* location_search_store.py:34 and 161: after a refusal nobody who comes
\* within the cool-down asks Nominatim.
CooldownKept == ~ hasty
=============================================================================
