------------------------------- MODULE Lookups -------------------------------
(***************************************************************************)
(* What is looked up elsewhere and kept for a while, beside Geocoding:     *)
(* networks near a place, from PeeringDB (store/nearby_network_store.py,   *)
(* called by transforms/location/location_to_nearby_asns.py), the weather  *)
(* (store/weather_store.py) and what the users of the registry think of    *)
(* its transforms (RegistryClient.get_dynamic_popularity, cli/registry.py).*)
(*                                                                         *)
(* Caches and cool-downs are of a process.  The API's lasts; a worker runs *)
(* every transform in a process of its own, in which nothing is known yet. *)
(***************************************************************************)
EXTENDS Geocoding, FiniteSetsExt

CONSTANTS
  Facilities,     \* where networks meet
  Listings,       \* facilities PeeringDB may list for a city
  Networks,       \* numbers of networks
  Spots,          \* where networks are looked for; all in one city
  Distance,       \* Distance[s][f]
  Radius,         \* what is near
  MaxFacilities,  \* facilities that are looked into
  MaxNames,       \* networks whose names are asked for
  NearbyTtl, NearbyCooldown, PopularityTtl,  \* half seconds
  MaxVotes,       \* bound: changes of the popularity
  MaxLookups      \* bound: lookups in all

ASSUME LookupsAssumption ==
  /\ {Radius, MaxFacilities, MaxNames, NearbyTtl, NearbyCooldown, PopularityTtl,
      MaxVotes, MaxLookups} \subseteq Nat
  /\ Networks \subseteq Nat /\ Listings \subseteq SUBSET Facilities
  /\ \A fs \in Listings : IsFiniteSet(fs)
  /\ \A s \in Spots, f \in Facilities : Distance[s][f] \in Nat

Procs == {"api", "job"}

VARIABLES
  facilityCache, netfacCache, nameCache,  \* by process: what is kept until when
  coolUntil,     \* by process: _cooldown_until
  lk,            \* where each lookup stands
  lookups,       \* lookups so far
  weatherCache,  \* snapshots by the hour
  popularity,    \* what is kept of it, and when it was asked for
  votes,         \* GitHub: how often the popularity has changed
  votedAt,       \* history: and when each time
  coolSince      \* history, by process: when PeeringDB last refused

lookupVars == <<facilityCache, netfacCache, nameCache, coolUntil, lk, lookups,
                weatherCache, popularity, votes, votedAt, coolSince>>
nearbyVars == <<facilityCache, netfacCache, nameCache, coolUntil, coolSince>>
vars == <<now, geocodingVars, lookupVars>>

Hours == 0..MaxTime

NearbyAsks  == [op : {"nearby"}, proc : Procs, spot : Spots]
WeatherAsks == [op : {"weather"}, hour : {0, None}, key : BOOLEAN]
VoteAsks    == [op : {"popularity"}, force : BOOLEAN]

NoLookup == [pc |-> "idle", ask |-> None, at |-> 0, todo |-> <<>>, presences |-> {}, named |-> {},
             answer |-> None, failed |-> FALSE, origin |-> None, warned |-> FALSE]

LookupsInit ==
  /\ facilityCache = [p \in Procs |-> None]
  /\ netfacCache = [p \in Procs |-> [f \in Facilities |-> None]]
  /\ nameCache = [p \in Procs |-> [a \in Networks |-> None]]
  /\ coolUntil = [p \in Procs |-> 0] /\ coolSince = [p \in Procs |-> None]
  /\ lk = [c \in Clients |-> NoLookup] /\ lookups = 0
  /\ weatherCache = [h \in Hours |-> None]
  /\ popularity = [votes |-> None, at |-> 0] /\ votes = 0 /\ votedAt = <<>>

-----------------------------------------------------------------------------
Put(c, fields) == lk' = [lk EXCEPT ![c] = fields]
Reply(c, answer, origin) == [lk[c] EXCEPT !.pc = "answered", !.answer = answer, !.origin = origin]
Failure(c, origin) == [lk[c] EXCEPT !.pc = "answered", !.failed = TRUE, !.origin = origin]
Stands(c, op, pc) == lk[c].pc = pc /\ lk[c].ask.op = op
Proc(c) == lk[c].ask.proc

\* Half seconds, rounded to seconds: what is between two goes to the even one.
Rounded(halves) == 2 * (halves \div 4) + (IF halves % 4 <= 1 THEN 0 ELSE (halves % 4) - 1)

CoolingFor(p) == Max({0, Rounded(coolUntil[p] - now)})

InJob(c) == lk[c].pc # "idle" /\ lk[c].ask.op = "nearby" /\ Proc(c) = "job"

\* A lookup of networks gives up at once while the process cools down, which
\* the rounding ends half a second early.  A worker's next job finds nothing of
\* the one before.
BeginNearby(c, ask) ==
  LET p == ask.proc IN
  /\ ask.op = "nearby"
  /\ p = "job" => {d \in Clients : InJob(d)} = {}
  /\ IF p = "job"
     THEN /\ facilityCache' = [facilityCache EXCEPT ![p] = None]
          /\ netfacCache' = [netfacCache EXCEPT ![p] = [f \in Facilities |-> None]]
          /\ nameCache' = [nameCache EXCEPT ![p] = [a \in Networks |-> None]]
          /\ coolUntil' = [coolUntil EXCEPT ![p] = 0] /\ coolSince' = [coolSince EXCEPT ![p] = None]
     ELSE UNCHANGED nearbyVars
  /\ LET begun == [NoLookup EXCEPT !.ask = ask, !.at = now,
                     !.warned = p = "api" /\ coolSince[p] # None /\ now + 1 < coolSince[p] + NearbyCooldown]
     IN \/ p = "api" /\ CoolingFor(p) > 0
           /\ Put(c, [begun EXCEPT !.pc = "answered", !.failed = TRUE, !.origin = "cool-down"])
        \/ (p = "api" => CoolingFor(p) = 0) /\ Put(c, [begun EXCEPT !.pc = "facilities"])
  /\ UNCHANGED <<weatherCache, popularity>>

\* What is kept is good until it expires.
Kept(entry) == entry # None /\ entry.until > now
Keep(value) == [until |-> now + NearbyTtl, value |-> value]

\* The nearest facilities within the radius, at the caller's distances and
\* sorted by them; those that are as far as each other come in any order.
ToLookInto(spot, fs) ==
  LET near == {f \in fs : Distance[spot][f] <= Radius}
      n    == Min({MaxFacilities, Cardinality(near)})
  IN {todo \in [1..n -> near] :
        /\ IsInjective(todo)
        /\ \A i, j \in 1..n : i < j => Distance[spot][todo[i]] <= Distance[spot][todo[j]]
        /\ \A i \in 1..n, f \in near \ Range(todo) : Distance[spot][todo[i]] <= Distance[spot][f]}

\* With no facility near the answer is empty.
LookInto(c, fs) ==
  \E todo \in ToLookInto(lk[c].ask.spot, fs) :
    Put(c, IF todo = <<>> THEN Reply(c, {}, "upstream")
           ELSE [lk[c] EXCEPT !.pc = "networks", !.todo = todo])

RecallFacilities(c) ==
  /\ Stands(c, "nearby", "facilities")
  /\ LET kept == facilityCache[Proc(c)] IN
     \/ Kept(kept) /\ LookInto(c, kept.value)
     \/ ~ Kept(kept) /\ Put(c, [lk[c] EXCEPT !.pc = "ask facilities"])
  /\ UNCHANGED <<nearbyVars, lookups, weatherCache, popularity>>

GetFacilities(c) ==
  /\ Stands(c, "nearby", "ask facilities")
  /\ \E fs \in Listings :
       /\ facilityCache' = [facilityCache EXCEPT ![Proc(c)] = Keep(fs)]
       /\ LookInto(c, fs)
  /\ UNCHANGED <<netfacCache, nameCache, coolUntil, coolSince, lookups, weatherCache, popularity>>

Presence(f, a, distance) == [facility |-> f, network |-> a, distance |-> distance]

\* Mutant: networks are taken as they are kept.
RecalledAsKept(c, f, kept) == kept

\* Networks present at a facility that have been looked up for another spot
\* get this spot's distance.
Recalled(c, f, kept) == {Presence(f, r.network, Distance[lk[c].ask.spot][f]) : r \in kept}

\* All facilities have been looked into: the names are asked for next.
Seen(c, rows) ==
  LET all  == lk[c].presences \cup rows
      nets == SetToSortSeq({r.network : r \in all}, <)
  IN IF Len(lk[c].todo) > 1 THEN [lk[c] EXCEPT !.pc = "networks", !.todo = Tail(@), !.presences = all]
     ELSE [lk[c] EXCEPT !.pc = "names", !.presences = all,
                        !.todo = SubSeq(nets, 1, Min({MaxNames, Len(nets)}))]

RecallNetworks(c) ==
  /\ Stands(c, "nearby", "networks")
  /\ LET f == Head(lk[c].todo)
         kept == netfacCache[Proc(c)][f]
     IN \/ Kept(kept) /\ Put(c, Seen(c, Recalled(c, f, kept.value)))
        \/ ~ Kept(kept) /\ Put(c, [lk[c] EXCEPT !.pc = "ask networks"])
  /\ UNCHANGED <<nearbyVars, lookups, weatherCache, popularity>>

GetNetworks(c) ==
  /\ Stands(c, "nearby", "ask networks")
  /\ \E nets \in SUBSET Networks :
       LET f == Head(lk[c].todo) IN
       /\ netfacCache' = [netfacCache EXCEPT ![Proc(c)][f] = Keep({Presence(f, a, 0) : a \in nets})]
       /\ Put(c, Seen(c, {Presence(f, a, Distance[lk[c].ask.spot][f]) : a \in nets}))
  /\ UNCHANGED <<facilityCache, nameCache, coolUntil, coolSince, lookups, weatherCache, popularity>>

\* A name that is not found, or not answered, is left out.
Named(c, names) == [lk[c] EXCEPT !.pc = "names", !.todo = Tail(@), !.named = @ \cup names]

RecallName(c) ==
  /\ Stands(c, "nearby", "names") /\ lk[c].todo # <<>>
  /\ LET a == Head(lk[c].todo) IN
     \/ Kept(nameCache[Proc(c)][a]) /\ Put(c, Named(c, {a}))
     \/ ~ Kept(nameCache[Proc(c)][a]) /\ Put(c, [lk[c] EXCEPT !.pc = "ask name"])
  /\ UNCHANGED <<nearbyVars, lookups, weatherCache, popularity>>

GetName(c) ==
  /\ Stands(c, "nearby", "ask name")
  /\ LET a == Head(lk[c].todo) IN
     \/ /\ nameCache' = [nameCache EXCEPT ![Proc(c)][a] = Keep(a)]
        /\ Put(c, Named(c, {a}))
     \/ Put(c, Named(c, {})) /\ UNCHANGED nameCache
  /\ UNCHANGED <<facilityCache, netfacCache, coolUntil, coolSince, lookups, weatherCache, popularity>>

FinishNearby(c) ==
  /\ Stands(c, "nearby", "names") /\ lk[c].todo = <<>>
  /\ Put(c, Reply(c, lk[c].presences, "upstream"))
  /\ UNCHANGED <<nearbyVars, lookups, weatherCache, popularity>>

\* Mutant: the time to wait is set in the store that has asked.
StartOwnCooldown(p) == UNCHANGED coolUntil

StartCooldown(p) == coolUntil' = [coolUntil EXCEPT ![p] = Max({@, now + NearbyCooldown})]

\* A refusal or a failure ends the lookup; a name refused, only the names.
Refused(c) ==
  \/ lk[c].pc \in {"ask facilities", "ask networks"} /\ Put(c, Failure(c, "upstream"))
  \/ lk[c].pc = "ask name" /\ Put(c, [lk[c] EXCEPT !.pc = "names", !.todo = <<>>])

Asking(c) == lk[c].pc \in {"ask facilities", "ask networks", "ask name"}

RefuseNearby(c) ==
  /\ Asking(c) /\ Refused(c)
  /\ StartCooldown(Proc(c)) /\ coolSince' = [coolSince EXCEPT ![Proc(c)] = now]
  /\ UNCHANGED <<facilityCache, netfacCache, nameCache, lookups, weatherCache, popularity>>

FailNearby(c) ==
  /\ Asking(c) /\ Put(c, Failure(c, "upstream"))
  /\ UNCHANGED <<nearbyVars, lookups, weatherCache, popularity>>

-----------------------------------------------------------------------------
(***************************************************************************)
(* The weather: what is kept comes first, before the key is asked for.     *)
(***************************************************************************)
Hour(ask, t) == IF ask.hour = None THEN t ELSE ask.hour

BeginWeather(c, ask) ==
  /\ ask.op = "weather"
  /\ LET h == Hour(ask, now)
         begun == [NoLookup EXCEPT !.ask = ask, !.at = h]
     IN \/ weatherCache[h] # None
           /\ Put(c, [begun EXCEPT !.pc = "answered", !.failed = weatherCache[h].failed, !.origin = "cache"])
        \/ weatherCache[h] = None /\ ~ ask.key
           /\ Put(c, [begun EXCEPT !.pc = "answered", !.failed = TRUE, !.origin = "no key"])
        \/ weatherCache[h] = None /\ ask.key /\ Put(c, [begun EXCEPT !.pc = "ask weather"])
  /\ UNCHANGED <<nearbyVars, weatherCache, popularity>>

\* Mutant: whatever is answered is kept.
KeepsAny(failed) == TRUE

Keeps(failed) == ~ failed

\* An answer that takes long is kept for the hour it was asked for.
GetWeather(c) ==
  /\ Stands(c, "weather", "ask weather")
  /\ \E failed \in BOOLEAN :
       /\ Put(c, [Reply(c, None, "upstream") EXCEPT !.failed = failed])
       /\ weatherCache' = IF Keeps(failed) THEN [weatherCache EXCEPT ![lk[c].at] = [failed |-> failed]]
                          ELSE weatherCache
  /\ UNCHANGED <<nearbyVars, lookups, popularity>>

-----------------------------------------------------------------------------
(***************************************************************************)
(* Popularity, asked for page by page.                                     *)
(***************************************************************************)
BeginPopularity(c, ask) ==
  /\ ask.op = "popularity"
  /\ LET fresh == ~ ask.force /\ popularity.votes # None /\ now - popularity.at < PopularityTtl
         begun == [NoLookup EXCEPT !.ask = ask, !.at = now]
     IN \/ fresh /\ Put(c, [begun EXCEPT !.pc = "answered", !.answer = popularity.votes, !.origin = "cache"])
        \/ ~ fresh /\ Put(c, [begun EXCEPT !.pc = "ask page", !.answer = votes])
  /\ UNCHANGED <<nearbyVars, weatherCache, popularity>>

\* Mutant: what has come is dated when it has come.
AskedNow(c) == now

AskedAt(c) == lk[c].at

\* The oldest page is as the votes were when it came first.
GetPopularity(c) ==
  /\ Stands(c, "popularity", "ask page")
  /\ popularity' = [votes |-> lk[c].answer, at |-> AskedAt(c)]
  /\ Put(c, Reply(c, lk[c].answer, "upstream"))
  /\ UNCHANGED <<nearbyVars, lookups, weatherCache>>

FailPopularity(c) ==
  /\ Stands(c, "popularity", "ask page")
  /\ Put(c, Reply(c, popularity.votes, "old"))
  /\ UNCHANGED <<nearbyVars, lookups, weatherCache, popularity>>

-----------------------------------------------------------------------------
BeginLookup(c) ==
  /\ lk[c].pc = "idle" /\ lookups < MaxLookups /\ lookups' = lookups + 1
  /\ \/ \E ask \in NearbyAsks : BeginNearby(c, ask)
     \/ \E ask \in WeatherAsks : BeginWeather(c, ask)
     \/ \E ask \in VoteAsks : BeginPopularity(c, ask)

LeaveLookup(c) ==
  /\ lk[c].pc = "answered" /\ Put(c, NoLookup)
  /\ UNCHANGED <<nearbyVars, lookups, weatherCache, popularity>>

LookupStep(c) ==
  \/ BeginLookup(c) \/ LeaveLookup(c)
  \/ RecallFacilities(c) \/ GetFacilities(c) \/ RecallNetworks(c) \/ GetNetworks(c)
  \/ RecallName(c) \/ GetName(c) \/ FinishNearby(c) \/ RefuseNearby(c) \/ FailNearby(c)
  \/ GetWeather(c) \/ GetPopularity(c) \/ FailPopularity(c)

\* Bound: the popularity changes when it has been asked for.
Vote ==
  /\ votes < MaxVotes
  /\ popularity.votes # None \/ \E c \in Clients : Stands(c, "popularity", "ask page")
  /\ votes' = votes + 1 /\ votedAt' = Append(votedAt, now)
  /\ UNCHANGED <<nearbyVars, lk, lookups, weatherCache, popularity>>

Tick == now < MaxTime /\ now' = now + 1 /\ UNCHANGED <<geocodingVars, lookupVars>>

Init == now = 0 /\ GeocodingInit /\ LookupsInit

\* Bound: geocoding and the other lookups share nothing but the clock, so that
\* each is looked at by itself.
Next ==
  \/ lookups = 0 /\ GeocodingNext /\ UNCHANGED <<now, lookupVars>>
  \/ asked = 0 /\ (\E c \in Clients : LookupStep(c)) /\ UNCHANGED <<now, votes, votedAt, geocodingVars>>
  \/ lookups > 0 /\ Vote /\ UNCHANGED <<now, geocodingVars>>
  \/ Tick

Spec == Init /\ [][Next]_vars

-----------------------------------------------------------------------------
(***************************************************************************)
(* Properties.                                                             *)
(***************************************************************************)
TypeOK ==
  /\ GeocodingTypeOK
  /\ \A c \in Clients : lk[c].presences \subseteq [facility : Facilities, network : Networks, distance : Nat]
  /\ \A p \in Procs : coolUntil[p] \in 0..(MaxTime + NearbyCooldown)

\* nearby_network_store.py:60-67 and 275-282: after PeeringDB has refused, a
\* lookup that begins in the same process asks nothing until half a second
\* before the end of the cool-down, from where on the rest rounds to nothing.
CoolingProcessAsksNothing == \A c \in Clients : lk[c].warned => ~ Asking(c)

\* nearby_network_store.py:75-81 and 154-159: an answer without error tells of
\* facilities within the radius only, and the distance from its own spot,
\* whoever has looked there from another one before.
NearbyIsAsAsked ==
  \A c \in Clients : Stands(c, "nearby", "answered") /\ ~ lk[c].failed =>
    \A r \in lk[c].answer : r.distance = Distance[lk[c].ask.spot][r.facility] /\ r.distance <= Radius

\* weather_store.py:47: a lookup that failed is not the answer to the next.
FailuresAreNotKept ==
  \A c \in Clients : Stands(c, "weather", "answered") /\ lk[c].failed => lk[c].origin # "cache"

\* cli/registry.py:182-194: popularity that is answered without being asked
\* for again was right less than the time it is kept ago, though answers of
\* two requests may come in the other order.
PopularityIsRecent ==
  \A c \in Clients : Stands(c, "popularity", "answered") /\ lk[c].origin = "cache" =>
    lk[c].answer = votes \/ votedAt[lk[c].answer + 1] > lk[c].at - PopularityTtl

\* location_search_store.py, nearby_network_store.py, weather_store.py and
\* cli/registry.py: what caches and cool-downs answer in place of a question
\* is what that question would have brought not long ago.
CachesAreTrue ==
  /\ TypeOK /\ SuggestionsAreRecent
  /\ CoolingProcessAsksNothing /\ NearbyIsAsAsked /\ FailuresAreNotKept /\ PopularityIsRecent
=============================================================================
