---------------------------- MODULE LookupsProofs ----------------------------
(***************************************************************************)
(* Proofs about EventBridge, Geocoding and Lookups: what a browser can     *)
(* rely on of the events of its project, that the map is answered whoever  *)
(* else stores names, and that what caches and cool-downs answer was right *)
(* not long ago.                                                           *)
(***************************************************************************)
EXTENDS Lookups, EventBridge, SequenceTheorems, FiniteSetTheorems, TLAPS

-----------------------------------------------------------------------------
(* Lists of which some places are kept. *)

LEMMA PlacesFinite ==
  ASSUME NEW S, NEW s \in Seq(S), NEW A \in SUBSET (DOMAIN s)
  PROVE  IsFiniteSet(A) /\ A \subseteq Nat /\ Cardinality(A) \in Nat
<1>1. Len(s) \in Nat /\ DOMAIN s = 1 .. Len(s) /\ IsFiniteSet(1 .. Len(s))
  BY FS_Interval
<1> QED  BY <1>1, FS_Subset, FS_CardinalityType

\* The entries at some places of a list: each place is met once, in its order.
LEMMA AtPlacesEmbed ==
  ASSUME NEW S, NEW s \in Seq(S), NEW P \in SUBSET (DOMAIN s)
  PROVE  /\ AtPlaces(s, P) \in Seq(S) /\ Len(AtPlaces(s, P)) = Cardinality(P)
         /\ Cardinality(P) \in Nat
         /\ \E e \in [1 .. Cardinality(P) -> P] :
              /\ \A k \in 1 .. Cardinality(P) : AtPlaces(s, P)[k] = s[e[k]]
              /\ \A k, l \in 1 .. Cardinality(P) : k < l => e[k] < e[l]
              /\ \A i \in P : \E k \in 1 .. Cardinality(P) : e[k] = i
              /\ \A k \in 1 .. Cardinality(P) : Rank(e[k], P) = k
<1>1. IsFiniteSet(P) /\ P \subseteq Nat /\ Cardinality(P) \in Nat
  BY PlacesFinite
<1> DEFINE n == Cardinality(P)
           UpTo(i) == {j \in P : j <= i}
<1>2. \A i \in P : IsFiniteSet(UpTo(i)) /\ Cardinality(UpTo(i)) \in Nat
                   /\ Cardinality(UpTo(i)) <= n
  BY <1>1, FS_Subset, FS_CardinalityType
<1>3. ASSUME NEW i \in P  PROVE Cardinality(UpTo(i)) >= 1
  <2>1. i \in UpTo(i)
    BY <1>1
  <2>2. Cardinality(UpTo(i)) # 0
    <3> HIDE DEF UpTo
    <3> QED  BY <1>2, <2>1, FS_EmptySet
  <2> HIDE DEF UpTo
  <2> QED  BY <1>2, <2>2
<1>4. ASSUME NEW i \in P, NEW j \in P, i < j
      PROVE  Cardinality(UpTo(i)) < Cardinality(UpTo(j))
  <2>1. UpTo(i) \subseteq UpTo(j) /\ j \in UpTo(j) /\ j \notin UpTo(i)
    BY <1>1, <1>4
  <2> HIDE DEF UpTo
  <2> QED  BY <1>2, <2>1, FS_Subset
<1> DEFINE rank == [i \in P |-> Rank(i, P)]
<1>5. \A i \in P : Rank(i, P) = Cardinality(UpTo(i))
  BY DEF Rank
<1>6. rank \in Injection(P, 1 .. n)
  <2>1. \A i \in P : Rank(i, P) \in 1 .. n
    <3> HIDE DEF UpTo
    <3> QED  BY <1>1, <1>2, <1>3, <1>5
  <2>2. ASSUME NEW i \in P, NEW j \in P, i # j  PROVE Rank(i, P) # Rank(j, P)
    <3>1. i < j \/ j < i
      BY <1>1, <2>2
    <3> HIDE DEF UpTo
    <3> QED  BY <1>2, <1>4, <1>5, <3>1
  <2> QED  BY <2>1, <2>2 DEF Injection, IsInjective
<1>7. rank \in Surjection(P, 1 .. n)
  <2>1. IsFiniteSet(1 .. n) /\ Cardinality(1 .. n) = n
    BY <1>1, FS_Interval
  <2> HIDE DEF rank, n
  <2>2. Cardinality(P) = Cardinality(1 .. n)
    BY <2>1 DEF n
  <2> QED  BY <1>6, <2>1, <2>2, FS_Injection
<1>8. \A k \in 1 .. n : \E i \in P : Rank(i, P) = k
  BY <1>7 DEF Surjection
<1> DEFINE e == [k \in 1 .. n |-> CHOOSE i \in P : Rank(i, P) = k]
<1>9. \A k \in 1 .. n : e[k] \in P /\ Rank(e[k], P) = k
  BY <1>8
<1>10. \A k \in 1 .. n : AtPlaces(s, P)[k] = s[e[k]]
  BY DEF AtPlaces
<1>11. AtPlaces(s, P) \in Seq(S) /\ Len(AtPlaces(s, P)) = n
  <2>1. \A k \in 1 .. n : s[e[k]] \in S
    <3> HIDE DEF e
    <3> QED  BY <1>9
  <2>2. AtPlaces(s, P) = [k \in 1 .. n |-> s[e[k]]]
    BY DEF AtPlaces
  <2> HIDE DEF e, n
  <2>3. AtPlaces(s, P) \in [1 .. n -> S]
    BY <2>1, <2>2
  <2> QED  BY <1>1, <2>3 DEF n
<1>12. \A k, l \in 1 .. n : k < l => e[k] < e[l]
  <2> SUFFICES ASSUME NEW k \in 1 .. n, NEW l \in 1 .. n, k < l  PROVE e[k] < e[l]
    OBVIOUS
  <2>1. e[k] \in P /\ e[l] \in P /\ Rank(e[k], P) = k /\ Rank(e[l], P) = l
    BY <1>9
  <2>2. e[k] \in Nat /\ e[l] \in Nat
    BY <1>1, <2>1
  <2>3. PICK u \in P : u = e[k]
    BY <2>1
  <2>4. PICK v \in P : v = e[l]
    BY <2>1
  <2>5. ~(v < u) /\ u # v
    <3>1. Rank(u, P) = k /\ Rank(v, P) = l
      BY <2>1, <2>3, <2>4
    <3>2. k \in Nat /\ l \in Nat
      BY <1>1
    <3> HIDE DEF UpTo
    <3> QED  BY <1>4, <1>5, <3>1, <3>2
  <2> QED  BY <2>2, <2>3, <2>4, <2>5
<1>13. \A i \in P : \E k \in 1 .. n : e[k] = i
  <2> SUFFICES ASSUME NEW i \in P  PROVE \E k \in 1 .. n : e[k] = i
    OBVIOUS
  <2>1. Rank(i, P) \in 1 .. n
    BY <1>6 DEF Injection
  <2>2. e[Rank(i, P)] \in P /\ Rank(e[Rank(i, P)], P) = Rank(i, P)
    BY <1>9, <2>1
  <2>3. e[Rank(i, P)] = i
    BY <1>6, <2>2 DEF Injection, IsInjective
  <2> QED  BY <2>1, <2>3
<1>14. e \in [1 .. n -> P]
  BY <1>9
<1> HIDE DEF e
<1> QED  BY <1>1, <1>9, <1>10, <1>11, <1>12, <1>13, <1>14

\* A place is kept no later than it was, and one earlier at most if only one
\* place is given up.
LEMMA RankBounds ==
  ASSUME NEW S, NEW s \in Seq(S), NEW P \in SUBSET (DOMAIN s), NEW i \in P
  PROVE  /\ Rank(i, P) \in Nat /\ Rank(i, P) <= i
         /\ \A z : (\A j \in DOMAIN s : j \in P \/ j = z) => i <= Rank(i, P) + 1
<1> DEFINE A == {j \in P : j <= i}
<1>1. P \subseteq Nat /\ IsFiniteSet(P) /\ DOMAIN s = 1 .. Len(s) /\ Len(s) \in Nat
  BY PlacesFinite
<1>2. i \in Nat /\ i >= 1 /\ i <= Len(s)
  BY <1>1
<1>3. IsFiniteSet(1 .. i) /\ Cardinality(1 .. i) = i
  BY <1>2, FS_Interval
<1>4. A \subseteq 1 .. i
  BY <1>1, <1>2
<1>5. Rank(i, P) = Cardinality(A)
  BY DEF Rank
<1> HIDE DEF A
<1>6. IsFiniteSet(A) /\ Cardinality(A) \in Nat /\ Cardinality(A) <= i
  <2>1. IsFiniteSet(A) /\ Cardinality(A) <= Cardinality(1 .. i)
    BY <1>3, <1>4, FS_Subset
  <2> QED  BY <1>3, <2>1, FS_CardinalityType
<1>7. ASSUME NEW z, \A j \in DOMAIN s : j \in P \/ j = z
      PROVE  i <= Cardinality(A) + 1
  <2>1. 1 .. i \subseteq A \cup {z}
    BY <1>1, <1>2, <1>7 DEF A
  <2>2. IsFiniteSet(A \cup {z}) /\ Cardinality(A \cup {z}) <= Cardinality(A) + 1
    <3>1. /\ IsFiniteSet(A \cup {z})
          /\ Cardinality(A \cup {z}) = IF z \in A THEN Cardinality(A) ELSE Cardinality(A) + 1
      BY <1>6, FS_AddElement
    <3> QED  BY <1>6, <3>1
  <2>3. Cardinality(1 .. i) <= Cardinality(A \cup {z})
    BY <2>1, <2>2, FS_Subset
  <2>4. Cardinality(A \cup {z}) \in Nat
    BY <2>2, FS_CardinalityType
  <2> QED  BY <1>2, <1>3, <1>6, <2>2, <2>3, <2>4
<1> QED  BY <1>5, <1>6, <1>7

-----------------------------------------------------------------------------
(***************************************************************************)
(* The event bridge.                                                       *)
(***************************************************************************)
Casting == listener \in {"sending", "waiting"}

BridgeTypes ==
  /\ socket \in [Sockets -> {"absent", "open", "broken", "left"}]
  /\ conns \in Seq(Sockets)
  /\ listener \in {"subscribed", "sending", "waiting", "lost"}
  /\ buffer \in Seq(Nat) /\ events \in Nat
  /\ cast \in [message : Nat, next : Nat \ {0}, to : Sockets \cup {Nobody},
               dead : SUBSET Sockets, detached : BOOLEAN, owed : SUBSET Sockets]
  /\ received \in [Sockets -> Seq(Nat)]
  /\ left \in SUBSET Sockets /\ IsFiniteSet(left)

\* Who is in the list is there once, and has not left.
Registered ==
  /\ \A i, j \in DOMAIN conns : conns[i] = conns[j] => i = j
  /\ \A i \in DOMAIN conns : socket[conns[i]] \in {"open", "broken"}

Increasing(s) == \A i, j \in DOMAIN s : i < j => s[i] < s[j]

\* Everything that is still to be sent is newer than what was received.
InOrder ==
  /\ Increasing(buffer)
  /\ \A j \in DOMAIN buffer : buffer[j] >= 1 /\ buffer[j] <= events
  /\ \A s \in Sockets :
       /\ Increasing(received[s])
       /\ \A i \in DOMAIN received[s] :
            /\ received[s][i] <= events
            /\ \A j \in DOMAIN buffer : received[s][i] < buffer[j]
       /\ socket[s] = "absent" => received[s] = <<>>

\* Everything in the list is older than message m.
Older(list, m) == \A i \in DOMAIN list : list[i] < m

\* The places of the list that are behind the one that is next, and hold
\* somebody who was there from the start and was not sent to.
Skipped ==
  {i \in DOMAIN conns : /\ i < cast.next /\ conns[i] \in cast.owed
                        /\ conns[i] \notin cast.dead
                        /\ cast.message \notin Range(received[conns[i]])}

CastNew ==
  cast.message \in 1..events /\ \A j \in DOMAIN buffer : cast.message < buffer[j]

CastWho ==
  (\A s \in cast.owed : socket[s] # "absent") /\ (\A s \in left : socket[s] = "left")

\* The one that is sent to stands among the dead.
CastTo ==
  listener = "waiting" =>
    /\ cast.to \in cast.dead /\ socket[cast.to] # "absent"
    /\ Older(received[cast.to], cast.message)

\* From the next place on nobody has been sent to.
CastNext ==
  ~ cast.detached => \A i \in DOMAIN conns : i >= cast.next =>
    /\ Older(received[conns[i]], cast.message)
    /\ listener = "waiting" => conns[i] # cast.to

\* For each place that is skipped somebody has left.
CastCount == ~ cast.detached => Cardinality(Skipped) <= Cardinality(left)

CastGone == cast.detached => \A i \in DOMAIN conns : conns[i] \notin cast.owed

CastFacts == CastNew /\ CastWho /\ CastTo /\ CastNext /\ CastCount /\ CastGone

CastGood ==
  /\ Casting => CastFacts
  /\ ~ Casting => cast = NoCast /\ left = {}

BridgeInv == BridgeTypes /\ Registered /\ InOrder /\ CastGood

\* What a list without some connections looks like from the list before: each
\* place is moved to the front, by one place at most if one leaves.
LEMMA WithoutShape ==
  ASSUME BridgeTypes, Registered, NEW S, NEW list, list = Without(S)
  PROVE  /\ list \in Seq(Sockets)
         /\ \E e \in [DOMAIN list -> DOMAIN conns] :
              /\ \A k \in DOMAIN list : list[k] = conns[e[k]] /\ conns[e[k]] \notin S
              /\ \A k, l \in DOMAIN list : e[k] = e[l] => k = l
              /\ \A k \in DOMAIN list : k <= e[k]
              /\ \A s : S = {s} => \A k \in DOMAIN list : e[k] <= k + 1
<1> DEFINE P == {i \in DOMAIN conns : conns[i] \in Range(conns) \ S}
<1>1. conns \in Seq(Sockets)
  BY DEF BridgeTypes
<1>2. P \in SUBSET (DOMAIN conns)
  OBVIOUS
<1>3. \A i \in DOMAIN conns : i \in P <=> conns[i] \notin S
  BY DEF Range
<1>4. list = AtPlaces(conns, P)
  BY DEF Without, Only
<1>5. DOMAIN conns = 1 .. Len(conns) /\ Len(conns) \in Nat
  BY <1>1
<1>6. ASSUME NEW s, S = {s}
      PROVE  \E z : \A j \in DOMAIN conns : j \in P \/ j = z
  <2>1. CASE \E z \in DOMAIN conns : conns[z] = s
    BY <1>3, <1>6, <2>1 DEF Registered
  <2>2. CASE \A z \in DOMAIN conns : conns[z] # s
    BY <1>3, <1>6, <2>2
  <2> QED  BY <2>1, <2>2
<1> HIDE DEF P
<1>7. /\ AtPlaces(conns, P) \in Seq(Sockets) /\ Len(AtPlaces(conns, P)) = Cardinality(P)
      /\ Cardinality(P) \in Nat
  BY <1>1, <1>2, AtPlacesEmbed
<1>8. PICK e \in [1 .. Cardinality(P) -> P] :
        /\ \A k \in 1 .. Cardinality(P) : AtPlaces(conns, P)[k] = conns[e[k]]
        /\ \A k, l \in 1 .. Cardinality(P) : k < l => e[k] < e[l]
        /\ \A i \in P : \E k \in 1 .. Cardinality(P) : e[k] = i
        /\ \A k \in 1 .. Cardinality(P) : Rank(e[k], P) = k
  BY <1>1, <1>2, AtPlacesEmbed
<1>9. list \in Seq(Sockets) /\ DOMAIN list = 1 .. Cardinality(P)
  BY <1>4, <1>7
<1>10. ASSUME NEW k \in DOMAIN list
       PROVE  /\ e[k] \in P /\ e[k] \in DOMAIN conns /\ e[k] \in Nat /\ Rank(e[k], P) = k
              /\ list[k] = conns[e[k]] /\ conns[e[k]] \notin S
  BY <1>2, <1>3, <1>4, <1>5, <1>8, <1>9
<1>11. ASSUME NEW k \in DOMAIN list, NEW l \in DOMAIN list, e[k] = e[l]  PROVE k = l
  BY <1>10, <1>11
<1>12. ASSUME NEW k \in DOMAIN list  PROVE k <= e[k]
  <2>1. PICK i \in P : i = e[k] /\ Rank(i, P) = k
    BY <1>10
  <2> QED  BY <1>1, <1>2, <2>1, RankBounds
<1>13. ASSUME NEW s, S = {s}, NEW k \in DOMAIN list  PROVE e[k] <= k + 1
  <2>1. PICK i \in P : i = e[k] /\ Rank(i, P) = k
    BY <1>10
  <2>2. PICK z : \A j \in DOMAIN conns : j \in P \/ j = z
    BY <1>6, <1>13
  <2>3. i <= Rank(i, P) + 1
    BY <1>1, <1>2, <2>2, RankBounds
  <2> QED  BY <2>1, <2>3
<1>14. e \in [DOMAIN list -> DOMAIN conns]
  BY <1>2, <1>8, <1>9
<1> QED  BY <1>9, <1>10, <1>11, <1>12, <1>13, <1>14

\* The list may lose connections, as far as Registered goes.
LEMMA WithoutRegistered ==
  ASSUME BridgeTypes, Registered, NEW S, conns' = Without(S),
         socket' \in [Sockets -> {"absent", "open", "broken", "left"}],
         \A s \in Sockets \ S : socket'[s] = socket[s]
  PROVE  Registered'
<1>1. PICK e \in [DOMAIN conns' -> DOMAIN conns] :
        /\ \A k \in DOMAIN conns' : conns'[k] = conns[e[k]] /\ conns[e[k]] \notin S
        /\ \A k, l \in DOMAIN conns' : e[k] = e[l] => k = l
  BY WithoutShape
<1>2. \A i \in DOMAIN conns : conns[i] \in Sockets
  BY DEF BridgeTypes
<1> QED  BY <1>1, <1>2 DEF Registered

LEMMA SkippedFinite ==
  ASSUME BridgeTypes
  PROVE  IsFiniteSet(Skipped) /\ Cardinality(Skipped) \in Nat
<1>1. Skipped \in SUBSET (DOMAIN conns) /\ conns \in Seq(Sockets)
  BY DEF Skipped, BridgeTypes
<1> QED  BY <1>1, PlacesFinite

\* Someone more who is skipped needs someone more to have left.
LEMMA FewerSkipped ==
  ASSUME BridgeTypes, BridgeTypes', Skipped' \subseteq Skipped,
         Cardinality(Skipped) <= Cardinality(left), left' = left
  PROVE  Cardinality(Skipped') <= Cardinality(left')
<1>1. IsFiniteSet(Skipped) /\ Cardinality(Skipped) \in Nat
  BY SkippedFinite
<1>2. IsFiniteSet(Skipped') /\ Cardinality(Skipped') <= Cardinality(Skipped)
  BY <1>1, FS_Subset
<1>3. Cardinality(Skipped') \in Nat /\ Cardinality(left) \in Nat
  BY <1>2, FS_CardinalityType DEF BridgeTypes
<1> QED  BY <1>1, <1>2, <1>3

LEMMA BridgeInitInv == BridgeInit => BridgeInv
<1> SUFFICES ASSUME BridgeInit  PROVE BridgeInv
  OBVIOUS
<1>1. cast = NoCast /\ conns = <<>> /\ buffer = <<>> /\ listener = "lost"
  BY DEF BridgeInit
<1>2. NoCast \in [message : Nat, next : Nat \ {0}, to : Sockets \cup {Nobody},
                  dead : SUBSET Sockets, detached : BOOLEAN, owed : SUBSET Sockets]
  BY DEF NoCast
<1>3. BridgeTypes
  BY <1>1, <1>2, FS_EmptySet DEF BridgeInit, BridgeTypes
<1>4. Registered /\ InOrder
  BY <1>1 DEF BridgeInit, Registered, InOrder, Increasing
<1> QED  BY <1>3, <1>4 DEF BridgeInit, BridgeInv, CastGood, Casting

\* A step that leaves the broadcast where it is.
LEMMA CastStays ==
  ASSUME CastGood, cast' = cast, left' = left, listener' = listener,
         Casting => CastFacts'
  PROVE  CastGood'
BY DEF CastGood, Casting

LEMMA ConnectKeeps ==
  ASSUME BridgeInv, NEW s \in Sockets, Connect(s)
  PROVE  BridgeInv'
<1>1. BridgeTypes /\ Registered /\ InOrder /\ CastGood
  BY DEF BridgeInv
<1>2. /\ socket[s] = "absent" /\ socket' = [socket EXCEPT ![s] = "open"]
      /\ conns' = Append(conns, s)
      /\ UNCHANGED <<listener, buffer, cast, events, received, left>>
  BY DEF Connect, Register
<1>3. PICK n \in Nat : n = Len(conns) /\ DOMAIN conns = 1 .. n
  BY <1>1 DEF BridgeTypes
<1>4. /\ conns' \in Seq(Sockets) /\ DOMAIN conns' = 1 .. n + 1 /\ conns'[n + 1] = s
      /\ \A i \in 1 .. n : conns'[i] = conns[i] /\ conns[i] \in Sockets
  BY <1>1, <1>2, <1>3 DEF BridgeTypes
<1>5. BridgeTypes'
  BY <1>1, <1>2, <1>4 DEF BridgeTypes
<1>6. \A i \in 1 .. n + 1 : i \in 1 .. n \/ i = n + 1
  BY <1>3
<1>7. \A i \in 1 .. n : socket[conns[i]] \in {"open", "broken"} /\ conns[i] # s
  BY <1>1, <1>2, <1>3 DEF Registered
<1>8. socket'[s] = "open" /\ \A q \in Sockets \ {s} : socket'[q] = socket[q]
  BY <1>1, <1>2 DEF BridgeTypes
<1>9. Registered'
  <2>1. ASSUME NEW i \in 1 .. n + 1, NEW j \in 1 .. n + 1, conns'[i] = conns'[j]
        PROVE  i = j
    BY <1>1, <1>3, <1>4, <1>6, <1>7, <2>1 DEF Registered
  <2>2. ASSUME NEW i \in 1 .. n + 1  PROVE socket'[conns'[i]] \in {"open", "broken"}
    BY <1>4, <1>6, <1>7, <1>8
  <2> QED  BY <1>4, <2>1, <2>2 DEF Registered
<1>10. InOrder'
  BY <1>1, <1>2, <1>8 DEF InOrder, Increasing
<1>11. ASSUME Casting  PROVE CastFacts'
  <2>1. CastFacts
    BY <1>1, <1>11 DEF CastGood
  <2>2. s \notin cast.owed /\ received[s] = <<>>
    BY <1>1, <1>2, <2>1 DEF CastFacts, CastWho, InOrder
  <2>3. \A q \in Sockets : socket[q] # "absent" => socket'[q] = socket[q]
    BY <1>2, <1>8
  <2>4. cast.owed \subseteq Sockets /\ left \subseteq Sockets /\ cast.dead \subseteq Sockets
    BY <1>1 DEF BridgeTypes
  <2>5. CastNew'
    BY <1>2, <2>1 DEF CastFacts, CastNew
  <2>6. CastWho'
    BY <1>2, <2>1, <2>3, <2>4 DEF CastFacts, CastWho
  <2>7. CastTo'
    BY <1>2, <2>1, <2>3, <2>4 DEF CastFacts, CastTo
  <2>8. CastGone'
    BY <1>2, <1>3, <1>4, <1>6, <2>1, <2>2 DEF CastFacts, CastGone
  <2>9. CastNext'
    <3> SUFFICES ASSUME ~ cast.detached, NEW i \in 1 .. n + 1, i >= cast.next
                 PROVE  /\ Older(received[conns'[i]], cast.message)
                        /\ listener = "waiting" => conns'[i] # cast.to
      BY <1>2, <1>4 DEF CastNext
    <3>1. CASE i \in 1 .. n
      BY <1>3, <1>4, <2>1, <3>1 DEF CastFacts, CastNext
    <3>2. CASE i = n + 1
      <4>1. Older(received[s], cast.message)
        BY <2>2 DEF Older
      <4>2. listener = "waiting" => s # cast.to
        BY <1>2, <2>1 DEF CastFacts, CastTo
      <4> QED  BY <1>4, <3>2, <4>1, <4>2
    <3> QED  BY <1>6, <3>1, <3>2
  <2>10. CastCount'
    <3>1. ASSUME NEW i \in Skipped'  PROVE i \in Skipped
      <4>1. i \in 1 .. n + 1 /\ conns'[i] \in cast.owed
        BY <1>2, <1>4, <3>1 DEF Skipped
      <4>2. i \in 1 .. n
        BY <1>4, <1>6, <2>2, <4>1
      <4> QED  BY <1>2, <1>3, <1>4, <3>1, <4>2 DEF Skipped
    <3>2. Skipped' \subseteq Skipped
      BY <3>1
    <3> QED  BY <1>1, <1>2, <1>5, <2>1, <3>2, FewerSkipped DEF CastFacts, CastCount
  <2> QED  BY <2>5, <2>6, <2>7, <2>8, <2>9, <2>10 DEF CastFacts
<1>12. CastGood'
  BY <1>1, <1>2, <1>11, CastStays
<1> QED  BY <1>5, <1>9, <1>10, <1>12 DEF BridgeInv

LEMMA BreakKeeps ==
  ASSUME BridgeInv, NEW s \in Sockets, Break(s)
  PROVE  BridgeInv'
<1>1. BridgeTypes /\ Registered /\ InOrder /\ CastGood
  BY DEF BridgeInv
<1>2. /\ socket[s] = "open" /\ socket' = [socket EXCEPT ![s] = "broken"]
      /\ UNCHANGED <<conns, listener, buffer, cast, events, received, left>>
  BY DEF Break
<1>3. socket'[s] = "broken" /\ \A q \in Sockets \ {s} : socket'[q] = socket[q]
  BY <1>1, <1>2 DEF BridgeTypes
<1>4. BridgeTypes'
  BY <1>1, <1>2 DEF BridgeTypes
<1>5. \A i \in DOMAIN conns : conns[i] \in Sockets
  BY <1>1 DEF BridgeTypes
<1>6. Registered'
  BY <1>1, <1>2, <1>3, <1>5 DEF Registered
<1>7. InOrder'
  BY <1>1, <1>2, <1>3 DEF InOrder, Increasing
<1>8. \A q \in Sockets : /\ socket[q] # "absent" => socket'[q] # "absent"
                         /\ socket[q] = "left" => socket'[q] = "left"
  BY <1>2, <1>3
<1>9. cast.owed \subseteq Sockets /\ left \subseteq Sockets /\ cast.dead \subseteq Sockets
  BY <1>1 DEF BridgeTypes
<1>10. ASSUME Casting  PROVE CastFacts'
  <2>1. CastFacts
    BY <1>1, <1>10 DEF CastGood
  <2>2. CastNew' /\ CastNext' /\ CastGone'
    BY <1>2, <2>1 DEF CastFacts, CastNew, CastNext, CastGone
  <2>3. CastWho'
    BY <1>2, <1>8, <1>9, <2>1 DEF CastFacts, CastWho
  <2>4. CastTo'
    BY <1>2, <1>8, <1>9, <2>1 DEF CastFacts, CastTo
  <2>5. CastCount'
    <3>1. Skipped' = Skipped
      BY <1>2 DEF Skipped
    <3> QED  BY <1>2, <2>1, <3>1 DEF CastFacts, CastCount
  <2> QED  BY <2>2, <2>3, <2>4, <2>5 DEF CastFacts
<1>11. CastGood'
  BY <1>1, <1>2, <1>10, CastStays
<1> QED  BY <1>4, <1>6, <1>7, <1>11 DEF BridgeInv

\* The list gets shorter while it is gone through: whoever leaves hides one
\* other at most.
LEMMA DisconnectKeeps ==
  ASSUME BridgeInv, NEW s \in Sockets, Disconnect(s)
  PROVE  BridgeInv'
<1>1. BridgeTypes /\ Registered /\ InOrder /\ CastGood
  BY DEF BridgeInv
<1>2. /\ socket[s] \in {"open", "broken"} /\ socket' = [socket EXCEPT ![s] = "left"]
      /\ conns' = Without({s}) /\ cast' = Detaches(Without({s}))
      /\ left' = IF cast = NoCast THEN {} ELSE left \cup {s}
      /\ UNCHANGED <<listener, buffer, events, received>>
  BY DEF Disconnect
<1>3. socket'[s] = "left" /\ \A q \in Sockets \ {s} : socket'[q] = socket[q]
  BY <1>1, <1>2 DEF BridgeTypes
<1>4. /\ conns' \in Seq(Sockets)
      /\ \E e \in [DOMAIN conns' -> DOMAIN conns] :
           /\ \A k \in DOMAIN conns' : conns'[k] = conns[e[k]] /\ conns[e[k]] \notin {s}
           /\ \A k, l \in DOMAIN conns' : e[k] = e[l] => k = l
           /\ \A k \in DOMAIN conns' : k <= e[k]
           /\ \A q : {s} = {q} => \A k \in DOMAIN conns' : e[k] <= k + 1
  BY <1>1, <1>2, WithoutShape
<1>5. PICK e \in [DOMAIN conns' -> DOMAIN conns] :
        /\ \A k \in DOMAIN conns' : conns'[k] = conns[e[k]] /\ conns[e[k]] \notin {s}
        /\ \A k, l \in DOMAIN conns' : e[k] = e[l] => k = l
        /\ \A k \in DOMAIN conns' : k <= e[k] /\ e[k] <= k + 1
  BY <1>4
<1>6. DOMAIN conns \subseteq Nat /\ DOMAIN conns' \subseteq Nat
  BY <1>1, <1>4 DEF BridgeTypes
<1>7. NoCast \in [message : Nat, next : Nat \ {0}, to : Sockets \cup {Nobody},
                  dead : SUBSET Sockets, detached : BOOLEAN, owed : SUBSET Sockets]
  BY DEF NoCast
<1>8. /\ cast' \in [message : Nat, next : Nat \ {0}, to : Sockets \cup {Nobody},
                    dead : SUBSET Sockets, detached : BOOLEAN, owed : SUBSET Sockets]
      /\ cast = NoCast => cast' = NoCast /\ left' = {}
      /\ cast # NoCast =>
           /\ cast'.message = cast.message /\ cast'.next = cast.next /\ cast'.to = cast.to
           /\ cast'.dead = cast.dead /\ cast'.owed = cast.owed
           /\ cast'.detached = (cast.detached \/ conns' = <<>>) /\ left' = left \cup {s}
  <2>1. cast \in [message : Nat, next : Nat \ {0}, to : Sockets \cup {Nobody},
                  dead : SUBSET Sockets, detached : BOOLEAN, owed : SUBSET Sockets]
    BY <1>1 DEF BridgeTypes
  <2>2. cast' = IF cast = NoCast THEN NoCast
                ELSE [cast EXCEPT !.detached = @ \/ conns' = <<>>]
    BY <1>2 DEF Detaches
  <2>3. CASE cast = NoCast
    BY <1>2, <1>7, <2>2, <2>3
  <2>4. CASE cast # NoCast
    <3>1. cast' = [cast EXCEPT !.detached = @ \/ conns' = <<>>] /\ left' = left \cup {s}
      BY <1>2, <2>2, <2>4
    <3>2. (cast.detached \/ conns' = <<>>) \in BOOLEAN
      OBVIOUS
    <3> QED  BY <2>1, <2>4, <3>1, <3>2
  <2> QED  BY <2>3, <2>4
<1>9. IsFiniteSet(left) /\ IsFiniteSet(left \cup {s}) /\ IsFiniteSet({})
  BY <1>1, FS_AddElement, FS_EmptySet DEF BridgeTypes
<1>10. BridgeTypes'
  <2>1. left' \in SUBSET Sockets /\ IsFiniteSet(left')
    BY <1>1, <1>8, <1>9 DEF BridgeTypes
  <2>2. socket' \in [Sockets -> {"absent", "open", "broken", "left"}]
    BY <1>1, <1>2 DEF BridgeTypes
  <2> QED  BY <1>1, <1>2, <1>4, <1>8, <2>1, <2>2 DEF BridgeTypes
<1>11. Registered'
  <2>1. \A q \in Sockets \ {s} : socket'[q] = socket[q]
    BY <1>3
  <2>2. socket' \in [Sockets -> {"absent", "open", "broken", "left"}]
    BY <1>10 DEF BridgeTypes
  <2> QED  BY <1>1, <1>2, <2>1, <2>2, WithoutRegistered
<1>12. InOrder'
  BY <1>1, <1>2, <1>3 DEF InOrder, Increasing
<1>13. ASSUME Casting, cast # NoCast  PROVE CastFacts'
  <2>1. CastFacts
    BY <1>1, <1>13 DEF CastGood
  <2>2. /\ cast'.message = cast.message /\ cast'.next = cast.next /\ cast'.to = cast.to
        /\ cast'.dead = cast.dead /\ cast'.owed = cast.owed
        /\ cast'.detached = (cast.detached \/ conns' = <<>>) /\ left' = left \cup {s}
    BY <1>8, <1>13
  <2>3. cast.owed \subseteq Sockets /\ left \subseteq Sockets /\ cast.dead \subseteq Sockets
        /\ cast.next \in Nat
    BY <1>1 DEF BridgeTypes
  <2>4. CastNew'
    BY <1>2, <2>1, <2>2 DEF CastFacts, CastNew
  <2>5. CastWho'
    BY <1>2, <1>3, <2>1, <2>2, <2>3 DEF CastFacts, CastWho
  <2>6. CastTo'
    BY <1>2, <1>3, <2>1, <2>2, <2>3 DEF CastFacts, CastTo
  <2>7. CastGone'
    <3> SUFFICES ASSUME cast'.detached, NEW i \in DOMAIN conns'
                 PROVE  conns'[i] \notin cast'.owed
      BY DEF CastGone
    <3>1. CASE cast.detached
      BY <1>5, <2>1, <2>2, <3>1 DEF CastFacts, CastGone
    <3>2. CASE conns' = <<>>
      BY <3>2
    <3> QED  BY <2>2, <3>1, <3>2
  <2>8. CastNext'
    <3> SUFFICES ASSUME ~ cast'.detached, NEW i \in DOMAIN conns', i >= cast'.next
                 PROVE  /\ Older(received'[conns'[i]], cast'.message)
                        /\ listener' = "waiting" => conns'[i] # cast'.to
      BY DEF CastNext
    <3>1. e[i] \in DOMAIN conns /\ e[i] >= cast.next /\ ~ cast.detached
      <4>1. i \in Nat /\ e[i] \in DOMAIN conns /\ i <= e[i]
        BY <1>5, <1>6
      <4>2. i >= cast.next /\ ~ cast.detached /\ e[i] \in Nat
        BY <1>6, <2>2, <4>1
      <4> QED  BY <2>3, <4>1, <4>2
    <3>2. conns'[i] = conns[e[i]]
      BY <1>5
    <3>3. /\ Older(received[conns[e[i]]], cast.message)
          /\ listener = "waiting" => conns[e[i]] # cast.to
      BY <2>1, <3>1 DEF CastFacts, CastNext
    <3> QED  BY <1>2, <2>2, <3>2, <3>3
  <2>9. CastCount'
    <3> SUFFICES ASSUME ~ cast'.detached  PROVE Cardinality(Skipped') <= Cardinality(left')
      BY DEF CastCount
    <3>1. ~ cast.detached /\ Cardinality(Skipped) <= Cardinality(left)
      BY <2>1, <2>2 DEF CastFacts, CastCount
    <3>2. ASSUME NEW i \in Skipped'
          PROVE  i \in DOMAIN conns' /\ e[i] \in Skipped \cup {cast.next}
      <4>1. /\ i \in DOMAIN conns' /\ i < cast.next /\ conns'[i] \in cast.owed
            /\ conns'[i] \notin cast.dead
            /\ cast.message \notin Range(received[conns'[i]])
        BY <1>2, <2>2, <3>2 DEF Skipped
      <4>2. e[i] \in DOMAIN conns /\ conns'[i] = conns[e[i]] /\ e[i] <= i + 1
        BY <1>5, <4>1
      <4>3. e[i] < cast.next \/ e[i] = cast.next
        BY <1>6, <2>3, <4>1, <4>2
      <4> QED  BY <4>1, <4>2, <4>3 DEF Skipped
    <3> DEFINE more == Skipped \cup {cast.next}
               f == [i \in Skipped' |-> e[i]]
    <3>3. f \in Injection(Skipped', more)
      BY <1>5, <3>2 DEF Injection, IsInjective
    <3>4. /\ IsFiniteSet(Skipped) /\ Cardinality(Skipped) \in Nat
      BY <1>1, SkippedFinite
    <3>5. /\ IsFiniteSet(more)
          /\ Cardinality(more) = IF cast.next \in Skipped THEN Cardinality(Skipped)
                                 ELSE Cardinality(Skipped) + 1
      BY <3>4, FS_AddElement
    <3> HIDE DEF more, f
    <3>6. Cardinality(Skipped') <= Cardinality(more) /\ IsFiniteSet(Skipped')
      BY <3>3, <3>5, FS_Injection
    <3>7. s \notin left
      BY <1>2, <2>1 DEF CastFacts, CastWho
    <3>8. Cardinality(left') = Cardinality(left) + 1 /\ Cardinality(left) \in Nat
      BY <1>9, <2>2, <3>7, FS_AddElement, FS_CardinalityType
    <3>9. Cardinality(Skipped') \in Nat /\ Cardinality(more) \in Nat
      BY <3>5, <3>6, FS_CardinalityType
    <3> QED  BY <3>1, <3>4, <3>5, <3>6, <3>8, <3>9
  <2> QED  BY <2>4, <2>5, <2>6, <2>7, <2>8, <2>9 DEF CastFacts
<1>14. Casting => cast # NoCast
  BY <1>1 DEF CastGood, CastFacts, CastNew, NoCast
<1>15. CastGood'
  <2>1. CASE Casting
    BY <1>2, <1>13, <1>14, <2>1 DEF CastGood, Casting
  <2>2. CASE ~ Casting
    BY <1>1, <1>2, <1>8, <2>2 DEF CastGood, Casting
  <2> QED  BY <2>1, <2>2
<1> QED  BY <1>10, <1>11, <1>12, <1>15 DEF BridgeInv

LEMMA PublishKeeps ==
  ASSUME BridgeInv, Publish
  PROVE  BridgeInv'
<1>1. BridgeTypes /\ Registered /\ InOrder /\ CastGood
  BY DEF BridgeInv
<1>2. /\ events' = events + 1
      /\ buffer' = IF listener = "lost" THEN buffer ELSE Append(buffer, events')
      /\ UNCHANGED <<socket, conns, listener, cast, received, left>>
  BY DEF Publish
<1>3. buffer \in Seq(Nat) /\ events \in Nat /\ events' \in Nat
  BY <1>1, <1>2 DEF BridgeTypes
<1>4. PICK n \in Nat : n = Len(buffer) /\ DOMAIN buffer = 1 .. n
  BY <1>3
<1>5. \A j \in DOMAIN buffer : buffer[j] \in Nat /\ buffer[j] >= 1 /\ buffer[j] <= events
  BY <1>1, <1>3 DEF InOrder

\* Only the new message is added, as the last.
<1>6. /\ buffer' \in Seq(Nat)
      /\ \A j \in DOMAIN buffer' :
           \/ j \in DOMAIN buffer /\ buffer'[j] = buffer[j]
           \/ j = n + 1 /\ buffer'[j] = events + 1
  <2>1. CASE listener = "lost"
    BY <1>2, <1>3, <2>1
  <2>2. CASE listener # "lost"
    <3>1. buffer' = Append(buffer, events')
      BY <1>2, <2>2
    <3>2. /\ Append(buffer, events') \in Seq(Nat)
          /\ Len(Append(buffer, events')) = n + 1
          /\ \A i \in 1 .. n : Append(buffer, events')[i] = buffer[i]
          /\ Append(buffer, events')[n + 1] = events'
      BY <1>3, <1>4, AppendProperties
    <3>3. DOMAIN buffer' = 1 .. n + 1
      BY <3>1, <3>2
    <3> QED  BY <1>2, <1>4, <3>1, <3>2, <3>3
  <2> QED  BY <2>1, <2>2
<1>7. BridgeTypes'
  BY <1>1, <1>2, <1>3, <1>6 DEF BridgeTypes
<1>8. Registered'
  BY <1>1, <1>2 DEF Registered
<1>9. InOrder'
  <2>1. Increasing(buffer')
    <3> SUFFICES ASSUME NEW i \in DOMAIN buffer', NEW j \in DOMAIN buffer', i < j
                 PROVE  buffer'[i] < buffer'[j]
      BY DEF Increasing
    <3>1. i # n + 1
      <4>1. i \in Nat /\ j \in Nat /\ (j \in 1 .. n \/ j = n + 1)
        BY <1>4, <1>6
      <4> QED  BY <4>1
    <3>2. i \in DOMAIN buffer /\ buffer'[i] = buffer[i]
      BY <1>6, <3>1
    <3>3. CASE j \in DOMAIN buffer /\ buffer'[j] = buffer[j]
      BY <1>1, <3>2, <3>3 DEF InOrder, Increasing
    <3>4. CASE j = n + 1 /\ buffer'[j] = events + 1
      BY <1>3, <1>5, <3>2, <3>4
    <3> QED  BY <1>6, <3>3, <3>4
  <2>2. \A j \in DOMAIN buffer' : buffer'[j] >= 1 /\ buffer'[j] <= events'
    BY <1>2, <1>3, <1>5, <1>6
  <2>3. ASSUME NEW s \in Sockets
        PROVE  /\ Increasing(received[s])
               /\ \A i \in DOMAIN received[s] :
                    /\ received[s][i] <= events'
                    /\ \A j \in DOMAIN buffer' : received[s][i] < buffer'[j]
               /\ socket[s] = "absent" => received[s] = <<>>
    <3>1. /\ Increasing(received[s])
          /\ \A i \in DOMAIN received[s] :
               /\ received[s][i] <= events
               /\ \A j \in DOMAIN buffer : received[s][i] < buffer[j]
          /\ socket[s] = "absent" => received[s] = <<>>
      BY <1>1 DEF InOrder
    <3>2. \A i \in DOMAIN received[s] : received[s][i] \in Nat
      BY <1>1 DEF BridgeTypes
    <3> QED  BY <1>2, <1>3, <1>6, <3>1, <3>2
  <2> QED  BY <1>2, <2>1, <2>2, <2>3 DEF InOrder
<1>10. ASSUME Casting  PROVE CastFacts'
  <2>1. CastFacts
    BY <1>1, <1>10 DEF CastGood
  <2>2. CastNew'
    BY <1>2, <1>3, <1>6, <2>1 DEF CastFacts, CastNew
  <2>3. CastWho' /\ CastTo' /\ CastNext' /\ CastGone'
    BY <1>2, <2>1 DEF CastFacts, CastWho, CastTo, CastNext, CastGone
  <2>4. CastCount'
    <3>1. Skipped' = Skipped
      BY <1>2 DEF Skipped
    <3> QED  BY <1>2, <2>1, <3>1 DEF CastFacts, CastCount
  <2> QED  BY <2>2, <2>3, <2>4 DEF CastFacts
<1>11. CastGood'
  BY <1>1, <1>2, <1>10, CastStays
<1> QED  BY <1>7, <1>8, <1>9, <1>11 DEF BridgeInv

\* The listener comes back, or loses what it has not taken: it sends nothing.
LEMMA ListenerKeeps ==
  ASSUME BridgeInv, Subscribe \/ LoseRedis
  PROVE  BridgeInv'
<1>1. BridgeTypes /\ Registered /\ InOrder /\ CastGood
  BY DEF BridgeInv
<1>2. /\ listener \in {"lost", "subscribed"} /\ listener' \in {"lost", "subscribed"}
      /\ buffer' = buffer \/ buffer' = <<>>
      /\ UNCHANGED <<socket, conns, cast, events, received, left>>
  BY DEF Subscribe, LoseRedis
<1>3. buffer' \in Seq(Nat) /\ \A j \in DOMAIN buffer' : j \in DOMAIN buffer /\ buffer'[j] = buffer[j]
  <2>1. buffer \in Seq(Nat)
    BY <1>1 DEF BridgeTypes
  <2>2. CASE buffer' = buffer
    BY <2>1, <2>2
  <2>3. CASE buffer' = <<>>
    BY <2>3
  <2> QED  BY <1>2, <2>2, <2>3
<1>4. BridgeTypes'
  BY <1>1, <1>2, <1>3 DEF BridgeTypes
<1>5. Registered'
  BY <1>1, <1>2 DEF Registered
<1>6. InOrder'
  BY <1>1, <1>2, <1>3 DEF InOrder, Increasing
<1>7. CastGood'
  BY <1>1, <1>2 DEF CastGood, Casting
<1> QED  BY <1>4, <1>5, <1>6, <1>7 DEF BridgeInv

\* A broadcast begins with everybody ahead of it.
LEMMA TakeKeeps ==
  ASSUME BridgeInv, Take
  PROVE  BridgeInv'
<1>1. BridgeTypes /\ Registered /\ InOrder /\ CastGood
  BY DEF BridgeInv
<1>2. /\ listener = "subscribed" /\ buffer # <<>> /\ buffer' = Tail(buffer)
      /\ UNCHANGED <<socket, conns, events, received>>
  BY DEF Take
<1>3. /\ buffer \in Seq(Nat) /\ events \in Nat /\ Head(buffer) \in Nat
      /\ buffer' \in Seq(Nat) /\ Head(buffer) = buffer[1] /\ 1 \in DOMAIN buffer
  BY <1>1, <1>2 DEF BridgeTypes
<1>4. \A j \in DOMAIN buffer' : j + 1 \in DOMAIN buffer /\ buffer'[j] = buffer[j + 1] /\ j \in 1 .. j
  <2>1. /\ Len(Tail(buffer)) = Len(buffer) - 1
        /\ \A i \in 1 .. Len(Tail(buffer)) : Tail(buffer)[i] = buffer[i + 1]
    BY <1>2, <1>3, HeadTailProperties
  <2> QED  BY <1>2, <1>3, <2>1
<1>5. Registered'
  BY <1>1, <1>2 DEF Registered
<1>6. \A i \in DOMAIN conns : conns[i] \in Sockets /\ i >= 1
  BY <1>1 DEF BridgeTypes
<1>7. InOrder'
  <2>1. Increasing(buffer')
    <3> SUFFICES ASSUME NEW i \in DOMAIN buffer', NEW j \in DOMAIN buffer', i < j
                 PROVE  buffer'[i] < buffer'[j]
      BY DEF Increasing
    <3>1. i \in Nat /\ j \in Nat /\ i + 1 < j + 1
      BY <1>3
    <3> QED  BY <1>1, <1>4, <3>1 DEF InOrder, Increasing
  <2> QED  BY <1>1, <1>2, <1>4, <2>1 DEF InOrder
<1>8. CASE UNCHANGED <<listener, cast, left>>
  <2>1. BridgeTypes'
    BY <1>1, <1>2, <1>3, <1>8 DEF BridgeTypes
  <2>2. CastGood'
    BY <1>1, <1>2, <1>8 DEF CastGood, Casting
  <2> QED  BY <1>5, <1>7, <2>1, <2>2 DEF BridgeInv
<1>9. CASE /\ conns # <<>> /\ listener' = "sending" /\ left' = {}
           /\ cast' = [NoCast EXCEPT !.message = Head(buffer), !.owed = Range(conns)]
  <2>1. /\ cast'.message = buffer[1] /\ cast'.next = 1 /\ cast'.owed = Range(conns)
        /\ cast'.detached = FALSE
        /\ cast' \in [message : Nat, next : Nat \ {0}, to : Sockets \cup {Nobody},
                      dead : SUBSET Sockets, detached : BOOLEAN, owed : SUBSET Sockets]
    <3>1. Range(conns) \in SUBSET Sockets
      BY <1>6 DEF Range
    <3>2. cast' = [message |-> Head(buffer), next |-> 1, to |-> Nobody, dead |-> {},
                   detached |-> FALSE, owed |-> Range(conns)]
      BY <1>9 DEF NoCast
    <3> QED  BY <1>3, <3>1, <3>2
  <2>2. BridgeTypes'
    BY <1>1, <1>2, <1>3, <1>9, <2>1, FS_EmptySet DEF BridgeTypes
  <2>3. CastNew'
    <3>1. buffer[1] \in 1 .. events
      BY <1>1, <1>3 DEF InOrder
    <3>2. ASSUME NEW j \in DOMAIN buffer'  PROVE buffer[1] < buffer'[j]
      <4>1. 1 < j + 1 /\ j + 1 \in DOMAIN buffer
        BY <1>3, <1>4
      <4> QED  BY <1>1, <1>3, <1>4, <4>1 DEF InOrder, Increasing
    <3> QED  BY <1>2, <2>1, <3>1, <3>2 DEF CastNew
  <2>4. CastWho'
    BY <1>1, <1>2, <1>9, <2>1 DEF CastWho, Registered, Range
  <2>5. CastTo' /\ CastGone'
    BY <1>9, <2>1 DEF CastTo, CastGone
  <2>6. CastNext'
    <3>1. ASSUME NEW i \in DOMAIN conns  PROVE Older(received[conns[i]], buffer[1])
      BY <1>1, <1>3, <1>6 DEF Older, InOrder
    <3> QED  BY <1>2, <1>9, <2>1, <3>1 DEF CastNext
  <2>7. CastCount'
    <3>1. Skipped' = {}
      BY <1>2, <1>6, <2>1, <2>2 DEF Skipped, BridgeTypes
    <3> QED  BY <1>9, <3>1, FS_EmptySet DEF CastCount
  <2>8. CastGood'
    BY <1>9, <2>3, <2>4, <2>5, <2>6, <2>7 DEF CastGood, CastFacts, Casting
  <2> QED  BY <1>5, <1>7, <2>2, <2>8 DEF BridgeInv
<1> QED  BY <1>8, <1>9 DEF Take

\* Whoever stands at the next place is sent to, and is behind it afterwards.
LEMMA SendKeeps ==
  ASSUME BridgeInv, Send
  PROVE  BridgeInv'
<1>1. BridgeTypes /\ Registered /\ InOrder /\ CastGood
  BY DEF BridgeInv
<1>2. /\ listener = "sending" /\ cast.next <= Len(Listed) /\ listener' = "waiting"
      /\ cast' = [cast EXCEPT !.next = @ + 1, !.to = Listed[cast.next],
                              !.dead = @ \cup {Listed[cast.next]}]
      /\ UNCHANGED <<socket, conns, buffer, events, received, left>>
  BY DEF Send
<1>3. CastFacts /\ Casting
  BY <1>1, <1>2 DEF CastGood, Casting
<1>4. conns \in Seq(Sockets) /\ cast.next \in Nat \ {0}
  BY <1>1 DEF BridgeTypes
<1>5. ~ cast.detached /\ Listed = conns
  <2>1. CASE cast.detached
    <3>1. Len(Listed) = 0
      BY <2>1 DEF Listed
    <3> QED  BY <1>2, <1>4, <3>1
  <2> QED  BY <2>1 DEF Listed
<1>6. cast.next \in DOMAIN conns
  BY <1>2, <1>4, <1>5
<1>7. PICK q \in Sockets : q = conns[cast.next]
  BY <1>4, <1>6
<1>8. /\ cast' \in [message : Nat, next : Nat \ {0}, to : Sockets \cup {Nobody},
                    dead : SUBSET Sockets, detached : BOOLEAN, owed : SUBSET Sockets]
      /\ cast'.message = cast.message /\ cast'.next = cast.next + 1 /\ cast'.to = q
      /\ cast'.dead = cast.dead \cup {q} /\ cast'.owed = cast.owed
      /\ cast'.detached = cast.detached
  <2>1. cast \in [message : Nat, next : Nat \ {0}, to : Sockets \cup {Nobody},
                  dead : SUBSET Sockets, detached : BOOLEAN, owed : SUBSET Sockets]
    BY <1>1 DEF BridgeTypes
  <2>2. cast' = [cast EXCEPT !.next = @ + 1, !.to = q, !.dead = @ \cup {q}]
    BY <1>2, <1>5, <1>7
  <2>3. cast.next + 1 \in Nat \ {0} /\ cast.dead \cup {q} \in SUBSET Sockets
    BY <1>4, <2>1
  <2> QED  BY <2>1, <2>2, <2>3
<1>9. BridgeTypes'
  BY <1>1, <1>2, <1>8 DEF BridgeTypes
<1>10. Registered' /\ InOrder'
  BY <1>1, <1>2 DEF Registered, InOrder, Increasing
<1>11. CastNew' /\ CastWho'
  BY <1>2, <1>3, <1>8 DEF CastFacts, CastNew, CastWho
<1>12. CastTo'
  <2>1. socket[q] # "absent"
    BY <1>1, <1>6, <1>7 DEF Registered
  <2>2. Older(received[q], cast.message)
    BY <1>3, <1>4, <1>5, <1>6, <1>7 DEF CastFacts, CastNext
  <2> QED  BY <1>2, <1>8, <2>1, <2>2 DEF CastTo
<1>13. CastNext'
  <2> SUFFICES ASSUME NEW i \in DOMAIN conns, i >= cast.next + 1
               PROVE  Older(received[conns[i]], cast.message) /\ conns[i] # q
    BY <1>2, <1>8 DEF CastNext
  <2>1. i >= cast.next /\ i # cast.next
    BY <1>4
  <2> QED  BY <1>1, <1>3, <1>5, <1>6, <1>7, <2>1 DEF CastFacts, CastNext, Registered
<1>14. CastCount'
  <2>1. ASSUME NEW i \in Skipped'  PROVE i \in Skipped
    <3>1. /\ i \in DOMAIN conns /\ i < cast.next + 1 /\ conns[i] \in cast.owed
          /\ conns[i] \notin cast.dead \cup {q}
          /\ cast.message \notin Range(received[conns[i]])
      BY <1>2, <1>8, <2>1 DEF Skipped
    <3>2. i # cast.next
      BY <1>7, <3>1
    <3>3. i < cast.next
      BY <1>4, <3>1, <3>2
    <3> QED  BY <3>1, <3>3 DEF Skipped
  <2>2. Skipped' \subseteq Skipped
    BY <2>1
  <2> QED  BY <1>1, <1>2, <1>3, <1>5, <1>9, <2>2, FewerSkipped DEF CastFacts, CastCount
<1>15. CastGone'
  BY <1>5, <1>8 DEF CastGone
<1>16. CastGood'
  BY <1>2, <1>11, <1>12, <1>13, <1>14, <1>15 DEF CastGood, CastFacts, Casting
<1> QED  BY <1>9, <1>10, <1>16 DEF BridgeInv

\* Only the one that is sent to receives, and what it receives is newer than
\* what it has and older than what waits.
LEMMA EndSendKeeps ==
  ASSUME BridgeInv, EndSend
  PROVE  BridgeInv'
<1>1. BridgeTypes /\ Registered /\ InOrder /\ CastGood
  BY DEF BridgeInv
<1>2. /\ listener = "waiting" /\ listener' = "sending"
      /\ UNCHANGED <<socket, conns, buffer, events, left>>
  BY DEF EndSend, DropLater
<1>3. CastFacts
  BY <1>1, <1>2 DEF CastGood, Casting
<1>4. PICK q \in Sockets : q = cast.to /\ q \in cast.dead
  BY <1>1, <1>2, <1>3 DEF BridgeTypes, CastFacts, CastTo
<1>5. CASE socket[q] # "open" /\ cast' = cast /\ received' = received
  <2>1. BridgeTypes'
    BY <1>1, <1>2, <1>5 DEF BridgeTypes
  <2>2. Registered' /\ InOrder'
    BY <1>1, <1>2, <1>5 DEF Registered, InOrder, Increasing
  <2>3. CastNew' /\ CastWho' /\ CastTo' /\ CastNext' /\ CastGone'
    BY <1>2, <1>3, <1>5 DEF CastFacts, CastNew, CastWho, CastTo, CastNext, CastGone
  <2>4. CastCount'
    <3>1. Skipped' = Skipped
      BY <1>2, <1>5 DEF Skipped
    <3> QED  BY <1>2, <1>3, <1>5, <3>1 DEF CastFacts, CastCount
  <2>5. CastGood'
    BY <1>2, <2>3, <2>4 DEF CastGood, CastFacts, Casting
  <2> QED  BY <2>1, <2>2, <2>5 DEF BridgeInv
<1>6. CASE /\ socket[q] = "open" /\ cast' = [cast EXCEPT !.dead = @ \ {q}]
           /\ received' = [received EXCEPT ![q] = Append(@, cast.message)]
  <2>1. PICK m \in Nat : m = cast.message /\ m >= 1 /\ m <= events
    BY <1>1, <1>3 DEF BridgeTypes, CastFacts, CastNew
  <2>2. PICK old \in Seq(Nat) : old = received[q]
    BY <1>1 DEF BridgeTypes
  <2>3. PICK n \in Nat : n = Len(old) /\ DOMAIN old = 1 .. n
    BY <2>2
  <2>4. PICK new : new = Append(old, m)
    OBVIOUS
  <2>5. /\ new \in Seq(Nat) /\ DOMAIN new = 1 .. n + 1 /\ new[n + 1] = m
        /\ \A i \in 1 .. n : new[i] = old[i] /\ old[i] \in Nat
    BY <2>1, <2>2, <2>3, <2>4, AppendProperties
  <2>6. /\ received'[q] = new /\ \A s \in Sockets \ {q} : received'[s] = received[s]
        /\ received' \in [Sockets -> Seq(Nat)]
    BY <1>1, <1>6, <2>1, <2>2, <2>4, <2>5 DEF BridgeTypes
  <2>7. /\ cast' \in [message : Nat, next : Nat \ {0}, to : Sockets \cup {Nobody},
                      dead : SUBSET Sockets, detached : BOOLEAN, owed : SUBSET Sockets]
        /\ cast'.message = cast.message /\ cast'.next = cast.next
        /\ cast'.dead = cast.dead \ {q} /\ cast'.owed = cast.owed
        /\ cast'.detached = cast.detached
    <3>1. cast \in [message : Nat, next : Nat \ {0}, to : Sockets \cup {Nobody},
                    dead : SUBSET Sockets, detached : BOOLEAN, owed : SUBSET Sockets]
      BY <1>1 DEF BridgeTypes
    <3>2. cast.dead \ {q} \in SUBSET Sockets
      BY <3>1
    <3> QED  BY <1>6, <3>1, <3>2
  <2>8. BridgeTypes'
    BY <1>1, <1>2, <2>6, <2>7 DEF BridgeTypes
  <2>9. Registered'
    BY <1>1, <1>2 DEF Registered
  <2>10. Older(old, m)
    BY <1>2, <1>3, <1>4, <2>1, <2>2 DEF CastFacts, CastTo
  <2>11. \A j \in DOMAIN buffer : m < buffer[j]
    BY <1>3, <2>1 DEF CastFacts, CastNew
  <2>12. \A i \in 1 .. n + 1 : i \in 1 .. n \/ i = n + 1
    BY <2>3
  <2>13. Increasing(new)
    <3> SUFFICES ASSUME NEW i \in 1 .. n + 1, NEW j \in 1 .. n + 1, i < j
                 PROVE  new[i] < new[j]
      BY <2>5 DEF Increasing
    <3>1. i \in 1 .. n
      BY <2>3
    <3>2. CASE j \in 1 .. n
      <4>1. old[i] < old[j]
        BY <1>1, <2>2, <2>3, <3>1, <3>2 DEF InOrder, Increasing
      <4> QED  BY <2>5, <3>1, <3>2, <4>1
    <3>3. CASE j = n + 1
      BY <2>3, <2>5, <2>10, <3>1, <3>3 DEF Older
    <3> QED  BY <2>12, <3>2, <3>3
  <2>14. \A i \in 1 .. n + 1 : /\ new[i] <= events
                               /\ \A j \in DOMAIN buffer : new[i] < buffer[j]
    <3>1. \A i \in 1 .. n : old[i] <= events /\ \A j \in DOMAIN buffer : old[i] < buffer[j]
      BY <1>1, <2>2, <2>3 DEF InOrder
    <3> QED  BY <2>1, <2>5, <2>11, <2>12, <3>1
  <2>15. InOrder'
    <3>1. ASSUME NEW s \in Sockets
          PROVE  /\ Increasing(received'[s])
                 /\ \A i \in DOMAIN received'[s] :
                      /\ received'[s][i] <= events
                      /\ \A j \in DOMAIN buffer : received'[s][i] < buffer[j]
                 /\ socket[s] = "absent" => received'[s] = <<>>
      <4>1. CASE s = q
        <5>1. socket[s] # "absent" /\ received'[s] = new
          BY <1>6, <2>6, <4>1
        <5>2. Increasing(received'[s])
          BY <2>13, <5>1
        <5> QED  BY <2>5, <2>14, <5>1, <5>2
      <4>2. CASE s # q
        <5>1. received'[s] = received[s]
          BY <2>6, <4>2
        <5>2. Increasing(received'[s])
          BY <1>1, <5>1 DEF InOrder
        <5> QED  BY <1>1, <5>1, <5>2 DEF InOrder
      <4> QED  BY <4>1, <4>2
    <3> QED  BY <1>1, <1>2, <3>1 DEF InOrder
  <2>16. CastNew' /\ CastWho'
    BY <1>2, <1>3, <2>7 DEF CastFacts, CastNew, CastWho
  <2>17. CastTo'
    BY <1>2 DEF CastTo
  <2>18. \A i \in DOMAIN conns : conns[i] \in Sockets
    BY <1>1 DEF BridgeTypes
  <2>19. CastNext'
    <3> SUFFICES ASSUME ~ cast.detached, NEW i \in DOMAIN conns, i >= cast.next
                 PROVE  Older(received'[conns[i]], cast.message)
      BY <1>2, <2>7 DEF CastNext
    <3>1. conns[i] # q /\ Older(received[conns[i]], cast.message)
      BY <1>2, <1>3, <1>4 DEF CastFacts, CastNext
    <3>2. received'[conns[i]] = received[conns[i]]
      BY <2>6, <2>18, <3>1
    <3> QED  BY <3>1, <3>2
  <2>20. CastCount'
    <3>1. ASSUME NEW i \in Skipped'  PROVE i \in Skipped
      <4>1. /\ i \in DOMAIN conns /\ i < cast.next /\ conns[i] \in cast.owed
            /\ conns[i] \notin cast.dead \ {q}
            /\ cast.message \notin Range(received'[conns[i]])
        BY <1>2, <2>7, <3>1 DEF Skipped
      <4>2. cast.message \in Range(new)
        <5>1. n + 1 \in DOMAIN new
          BY <2>3, <2>5
        <5> QED  BY <2>1, <2>5, <5>1 DEF Range
      <4>3. conns[i] # q
        BY <2>6, <4>1, <4>2
      <4>4. received'[conns[i]] = received[conns[i]]
        BY <2>6, <2>18, <4>1, <4>3
      <4> QED  BY <4>1, <4>3, <4>4 DEF Skipped
    <3>2. Skipped' \subseteq Skipped
      BY <3>1
    <3> QED  BY <1>1, <1>2, <1>3, <2>7, <2>8, <3>2, FewerSkipped DEF CastFacts, CastCount
  <2>21. CastGone'
    BY <1>2, <1>3, <2>7 DEF CastFacts, CastGone
  <2>22. CastGood'
    BY <1>2, <2>16, <2>17, <2>19, <2>20, <2>21 DEF CastGood, CastFacts, Casting
  <2> QED  BY <2>8, <2>9, <2>15, <2>22 DEF BridgeInv
<1> QED  BY <1>4, <1>5, <1>6 DEF EndSend, DropLater

LEMMA EndCastKeeps ==
  ASSUME BridgeInv, EndCast
  PROVE  BridgeInv'
<1>1. BridgeTypes /\ Registered /\ InOrder /\ CastGood
  BY DEF BridgeInv
<1>2. /\ listener' = "subscribed" /\ conns' = Without(cast.dead) /\ cast' = NoCast
      /\ left' = {} /\ UNCHANGED <<socket, buffer, events, received>>
  BY DEF EndCast
<1>3. conns' \in Seq(Sockets)
  BY <1>1, <1>2, WithoutShape
<1>4. NoCast \in [message : Nat, next : Nat \ {0}, to : Sockets \cup {Nobody},
                  dead : SUBSET Sockets, detached : BOOLEAN, owed : SUBSET Sockets]
  BY DEF NoCast
<1>5. BridgeTypes'
  BY <1>1, <1>2, <1>3, <1>4, FS_EmptySet DEF BridgeTypes
<1>6. Registered'
  <2>1. /\ socket' \in [Sockets -> {"absent", "open", "broken", "left"}]
        /\ \A s \in Sockets \ cast.dead : socket'[s] = socket[s]
    BY <1>1, <1>2 DEF BridgeTypes
  <2> QED  BY <1>1, <1>2, <2>1, WithoutRegistered
<1>7. InOrder'
  BY <1>1, <1>2 DEF InOrder, Increasing
<1>8. CastGood'
  BY <1>2 DEF CastGood, Casting
<1> QED  BY <1>5, <1>6, <1>7, <1>8 DEF BridgeInv

LEMMA BridgeNextInv == BridgeInv /\ [BridgeNext]_bridgeVars => BridgeInv'
<1> SUFFICES ASSUME BridgeInv, [BridgeNext]_bridgeVars  PROVE BridgeInv'
  OBVIOUS
<1>1. CASE \E s \in Sockets : Connect(s) \/ Break(s) \/ Disconnect(s)
  BY <1>1, ConnectKeeps, BreakKeeps, DisconnectKeeps
<1>2. CASE Publish \/ Subscribe \/ LoseRedis \/ Take
  BY <1>2, PublishKeeps, ListenerKeeps, TakeKeeps
<1>3. CASE Send \/ EndSend \/ EndCast
  BY <1>3, SendKeeps, EndSendKeeps, EndCastKeeps
<1>4. CASE UNCHANGED bridgeVars
  <2>1. UNCHANGED <<socket, conns, listener, buffer, cast, events, received, left>>
    BY <1>4 DEF bridgeVars
  <2>2. BridgeTypes' /\ Registered' /\ InOrder'
    BY <2>1 DEF BridgeInv, BridgeTypes, Registered, InOrder, Increasing
  <2>3. Skipped' = Skipped
    BY <2>1 DEF Skipped
  <2>4. CastFacts => CastFacts'
    BY <2>1, <2>3 DEF CastFacts, CastNew, CastWho, CastTo, CastNext, CastCount, CastGone
  <2>5. CastGood'
    BY <2>1, <2>4 DEF BridgeInv, CastGood, Casting
  <2> QED  BY <2>2, <2>5 DEF BridgeInv
<1> QED  BY <1>1, <1>2, <1>3, <1>4 DEF BridgeNext

LEMMA BridgeInvArrive == BridgeInv => EventsArrive
<1> SUFFICES ASSUME BridgeInv  PROVE EventsArrive
  OBVIOUS
<1>1. BridgeTypes /\ Registered /\ InOrder /\ CastGood
  BY DEF BridgeInv
<1>2. InOrderOnce
  BY <1>1 DEF InOrder, Increasing, InOrderOnce
<1>3. LeaversAreForgotten
  BY <1>1 DEF Registered, LeaversAreForgotten, Range
<1>4. ASSUME Ended  PROVE Cardinality(PassedOver) <= Cardinality(left)
  <2>1. CastFacts /\ cast.next > Len(Listed)
    BY <1>1, <1>4 DEF CastGood, Casting, Ended
  <2>2. IsFiniteSet(left) /\ Cardinality(left) \in Nat
    BY <1>1, FS_CardinalityType DEF BridgeTypes
  <2>3. CASE cast.detached
    <3>1. PassedOver = {}
      BY <2>1, <2>3 DEF PassedOver, CastFacts, CastGone, Range
    <3> QED  BY <2>2, <3>1, FS_EmptySet
  <2>4. CASE ~ cast.detached
    <3> DEFINE place == [s \in PassedOver |-> CHOOSE i \in DOMAIN conns : conns[i] = s]
    <3>1. \A i \in DOMAIN conns : i < cast.next
      <4>1. cast.next > Len(conns) /\ conns \in Seq(Sockets) /\ cast.next \in Nat
        BY <1>1, <2>1, <2>4 DEF Listed, BridgeTypes
      <4> QED  BY <4>1
    <3>2. ASSUME NEW s \in PassedOver
          PROVE  place[s] \in DOMAIN conns /\ conns[place[s]] = s
      BY DEF PassedOver, Range
    <3>3. ASSUME NEW s \in PassedOver  PROVE place[s] \in Skipped
      BY <3>1, <3>2 DEF PassedOver, Skipped
    <3>4. place \in Injection(PassedOver, Skipped)
      <4> HIDE DEF place
      <4>1. place \in [PassedOver -> Skipped]
        BY <3>3 DEF place
      <4> QED  BY <3>2, <4>1 DEF Injection, IsInjective
    <3>5. IsFiniteSet(Skipped) /\ Cardinality(Skipped) \in Nat
      BY <1>1, SkippedFinite
    <3>6. IsFiniteSet(PassedOver) /\ Cardinality(PassedOver) <= Cardinality(Skipped)
      BY <3>4, <3>5, FS_Injection
    <3>7. Cardinality(Skipped) <= Cardinality(left)
      BY <2>1, <2>4 DEF CastFacts, CastCount
    <3>8. Cardinality(PassedOver) \in Nat
      BY <3>6, FS_CardinalityType
    <3> QED  BY <2>2, <3>5, <3>6, <3>7, <3>8
  <2> QED  BY <2>3, <2>4
<1> QED  BY <1>2, <1>3, <1>4 DEF EventsArrive, OnlyLeaversHideOthers

\* A browser receives the messages of its project in order and none twice, it
\* is passed over in a broadcast only for another that left meanwhile, and who
\* has left is forgotten, however many connect, break, leave or are sent to
\* while the list is gone through (api/websocket.py).
THEOREM EventsAlwaysArrive == BridgeSpec => []EventsArrive
<1>1. BridgeInit => BridgeInv
  BY BridgeInitInv
<1>2. BridgeInv /\ [BridgeNext]_bridgeVars => BridgeInv'
  BY BridgeNextInv
<1>3. BridgeInv => EventsArrive
  BY BridgeInvArrive
<1> QED  BY <1>1, <1>2, <1>3, PTL DEF BridgeSpec

-----------------------------------------------------------------------------
(***************************************************************************)
(* Names, places and the points of a map.                                  *)
(***************************************************************************)
KnownType == [name : Names, place : Places]
PointType == [entity : EntityType, place : Places]

RequestFields == {"pc", "ask", "at", "until", "todo", "saw", "found", "points",
                  "unresolved", "warned"}

\* The name that is stored next, of a map's entity or of what was found.
NameOf(r) == IF r.ask.op = "points" THEN Head(r.todo).label ELSE Head(r.todo).name

Upserts == {"select", "insert", "update"}

\* An entity that the map has answered.
Handled(e, r) ==
  /\ e.place # None => Point(e, e.place) \in r.points
  /\ e.label # None => (\E p \in r.points : p.entity = e) \/ e.label \in r.unresolved

\* Every entity is answered or still to come, and the one whose name is
\* looked for or stored has one.
OfMap(r) ==
  /\ r.pc \in {"entity", "waiting", "answered"} \cup Upserts
  /\ r.todo \in Seq(EntityType)
  /\ \A e \in Range(r.ask.arg) : Handled(e, r) \/ e \in Range(r.todo)
  /\ r.pc = "answered" => r.todo = <<>>
  /\ r.pc \in {"waiting"} \cup Upserts => r.todo # <<>> /\ Head(r.todo).label # None
  /\ r.pc = "waiting" => Head(r.todo).place = None
  /\ r.pc \in Upserts /\ Head(r.todo).place = None =>
       \E p \in Places : r.found = {Known(Head(r.todo).label, p)}

OfSearch(r) == r.pc \in Upserts => r.todo \in Seq(KnownType) /\ r.todo # <<>>

\* A request as it may stand, when the table is t and it is that time.
RequestGood(r, t, time) ==
  /\ DOMAIN r = RequestFields
  /\ r.at \in Nat /\ r.at <= time
  /\ r.found \subseteq KnownType /\ r.points \subseteq PointType
  /\ r.pc # "idle" =>
       /\ r.ask \in Asks
       /\ IF r.ask.op = "points" THEN OfMap(r) ELSE OfSearch(r)
       /\ r.pc = "update" => t[NameOf(r)] # None

Clock == now \in 0 .. MaxTime

Tables ==
  /\ table \in [Names -> Places \cup {None}]
  /\ last \in [Names -> [Places -> Nat \cup {None}]]

\* A place is right by table t, or was at that time or since by history h.
RightFor(k, at, t, h) ==
  \/ t[k.name] = k.place
  \/ h[k.name][k.place] # None /\ h[k.name][k.place] >= at

\* Each place that m tells of is right, or was since m was learnt.
Remembered(m, t, h, time) ==
  m # None => m.at <= time /\ \A k \in m.list : RightFor(k, m.at, t, h)

Memories ==
  /\ memory \in [Names -> [at : Nat, list : SUBSET KnownType] \cup {None}]
  /\ \A n \in Names : Remembered(memory[n], table, last, now)
  /\ reversed \in [Places -> [at : Nat, list : SUBSET KnownType] \cup {None}]
  /\ \A p \in Places : reversed[p] # None => reversed[p].at <= now

Requests ==
  /\ DOMAIN rq = Clients
  /\ \A c \in Clients : RequestGood(rq[c], table, now)

GeocodingInv == Clock /\ Tables /\ Memories /\ Requests

-----------------------------------------------------------------------------
(* The table and the memories. *)

\* What was right by t and h is so by t2 and h2, and no name is lost.
GrowsTo(t, h, t2, h2, time) ==
  /\ \A k \in KnownType, at \in Nat :
       at <= time /\ RightFor(k, at, t, h) => RightFor(k, at, t2, h2)
  /\ \A n \in Names : t[n] # None => t2[n] # None

LEMMA SameGrows == ASSUME NEW t, NEW h, NEW time  PROVE GrowsTo(t, h, t, h, time)
BY DEF GrowsTo

\* Nominatim's answer makes what it tells of right, now.
LEMMA RightGrows ==
  ASSUME Clock, Tables, table' = table, NEW found \in SUBSET KnownType, Right(found)
  PROVE  /\ Tables' /\ GrowsTo(table, last, table', last', now)
         /\ \A k \in found : RightFor(k, now, table', last')
<1>1. now \in Nat
  BY DEF Clock, GeocodingAssumption
<1>2. \A n \in Names, p \in Places :
        last'[n][p] = IF Known(n, p) \in found THEN now ELSE last[n][p]
  BY DEF Right
<1>3. None \notin Nat
  BY GeocodingAssumption
<1>4. Tables'
  <2>1. last' \in [Names -> [Places -> Nat \cup {None}]]
    BY <1>1 DEF Tables, Right
  <2> QED  BY <2>1 DEF Tables
<1>5. ASSUME NEW k \in KnownType, NEW at \in Nat, at <= now, RightFor(k, at, table, last)
      PROVE  RightFor(k, at, table', last')
  <2>1. k.name \in Names /\ k.place \in Places
    BY DEF KnownType
  <2>2. last'[k.name][k.place] \in {now, last[k.name][k.place]}
    BY <1>2, <2>1
  <2> QED  BY <1>1, <1>3, <1>5, <2>2 DEF RightFor
<1>6. ASSUME NEW k \in found  PROVE RightFor(k, now, table', last')
  <2>1. k.name \in Names /\ k.place \in Places /\ k = Known(k.name, k.place)
    BY DEF KnownType, Known
  <2>2. last'[k.name][k.place] = now
    BY <1>2, <2>1
  <2> QED  BY <1>1, <1>3, <2>2 DEF RightFor
<1> QED  BY <1>4, <1>5, <1>6 DEF GrowsTo

\* A row that is replaced was right until now.
LEMMA WriteGrows ==
  ASSUME Clock, Tables, NEW n \in Names, NEW p \in Places, Write(n, p)
  PROVE  Tables' /\ GrowsTo(table, last, table', last', now)
<1>1. now \in Nat /\ None \notin Nat /\ None \notin Places
  BY GeocodingAssumption DEF Clock
<1>2. table \in [Names -> Places \cup {None}] /\ last \in [Names -> [Places -> Nat \cup {None}]]
  BY DEF Tables
<1>3. /\ table' = [table EXCEPT ![n] = p]
      /\ last' = IF table[n] \in {None, p} THEN last ELSE [last EXCEPT ![n][table[n]] = now]
  BY DEF Write
<1>4. CASE table[n] \in {None, p}
  <2>1. Tables'
    BY <1>2, <1>3, <1>4 DEF Tables
  <2>2. \A k \in KnownType : table[k.name] = k.place => table'[k.name] = k.place
    BY <1>1, <1>2, <1>3, <1>4 DEF KnownType
  <2>3. \A m \in Names : table[m] # None => table'[m] # None
    BY <1>1, <1>2, <1>3
  <2>4. last' = last
    BY <1>3, <1>4
  <2> QED  BY <2>1, <2>2, <2>3, <2>4 DEF GrowsTo, RightFor
<1>5. CASE table[n] \notin {None, p}
  <2>1. table[n] \in Places /\ last' = [last EXCEPT ![n][table[n]] = now]
    BY <1>2, <1>3, <1>5
  <2>2. last' \in [Names -> [Places -> Nat \cup {None}]]
    BY <1>1, <1>2, <2>1
  <2>3. Tables'
    BY <1>2, <1>3, <2>2 DEF Tables
  <2>4. \A m \in Names, q \in Places :
          last'[m][q] = IF m = n /\ q = table[n] THEN now ELSE last[m][q]
    BY <1>2, <2>1
  <2>5. \A m \in Names : table[m] # None => table'[m] # None
    BY <1>1, <1>2, <1>3
  <2>6. ASSUME NEW k \in KnownType, NEW at \in Nat, at <= now, RightFor(k, at, table, last)
        PROVE  RightFor(k, at, table', last')
    <3>1. k.name \in Names /\ k.place \in Places
      BY DEF KnownType
    <3>2. CASE k.name = n /\ k.place = table[n]
      <4>1. last'[k.name][k.place] = now
        BY <2>4, <3>1, <3>2
      <4> QED  BY <1>1, <2>6, <4>1 DEF RightFor
    <3>3. CASE ~ (k.name = n /\ k.place = table[n])
      <4>1. last'[k.name][k.place] = last[k.name][k.place]
        BY <2>4, <3>1, <3>3
      <4>2. table[k.name] = k.place => table'[k.name] = k.place
        BY <1>2, <1>3, <3>1, <3>3
      <4> QED  BY <2>6, <4>1, <4>2 DEF RightFor
    <3> QED  BY <3>2, <3>3
  <2> QED  BY <2>3, <2>5, <2>6 DEF GrowsTo
<1> QED  BY <1>4, <1>5

LEMMA RememberedStays ==
  ASSUME NEW m \in [at : Nat, list : SUBSET KnownType] \cup {None},
         NEW t, NEW h, NEW t2, NEW h2, NEW time \in Nat, NEW time2 \in Nat, time <= time2,
         Remembered(m, t, h, time), GrowsTo(t, h, t2, h2, time)
  PROVE  Remembered(m, t2, h2, time2)
<1> SUFFICES ASSUME m # None
             PROVE  m.at <= time2 /\ \A k \in m.list : RightFor(k, m.at, t2, h2)
  BY DEF Remembered
<1>1. m.at \in Nat /\ m.list \in SUBSET KnownType /\ m.at <= time
      /\ \A k \in m.list : RightFor(k, m.at, t, h)
  BY DEF Remembered
<1> QED  BY <1>1 DEF GrowsTo

LEMMA MemoriesStay ==
  ASSUME Memories, Clock, Clock', now <= now', GrowsTo(table, last, table', last', now),
         memory' = memory, reversed' = reversed
  PROVE  Memories'
<1>1. now \in Nat /\ now' \in Nat
  BY DEF Clock
<1>2. ASSUME NEW n \in Names  PROVE Remembered(memory[n], table', last', now')
  <2>1. PICK m \in [at : Nat, list : SUBSET KnownType] \cup {None} : m = memory[n]
    BY DEF Memories
  <2>2. Remembered(m, table, last, now)
    BY <2>1 DEF Memories
  <2>3. Remembered(m, table', last', now')
    BY <1>1, <2>2, RememberedStays
  <2> QED  BY <2>1, <2>3
<1>3. ASSUME NEW p \in Places, reversed[p] # None  PROVE reversed[p].at <= now'
  <2>1. reversed[p].at <= now /\ reversed[p].at \in Nat
    BY <1>3 DEF Memories
  <2> QED  BY <1>1, <2>1
<1> QED  BY <1>2, <1>3 DEF Memories

\* Something is learnt of a name.
LEMMA LearnKeeps ==
  ASSUME Memories, Clock, now' = now, GrowsTo(table, last, table', last', now),
         reversed' = reversed, NEW n \in Names, NEW at \in Nat, at <= now,
         NEW list \in SUBSET KnownType, Learn(n, at, list),
         \A k \in list : RightFor(k, at, table', last')
  PROVE  Memories'
<1>1. now \in Nat
  BY DEF Clock
<1>2. memory' = [memory EXCEPT ![n] = [at |-> at, list |-> list]]
  BY DEF Learn
<1>3. memory' \in [Names -> [at : Nat, list : SUBSET KnownType] \cup {None}]
  BY <1>2 DEF Memories
<1>4. ASSUME NEW m \in Names  PROVE Remembered(memory'[m], table', last', now)
  <2>1. CASE m = n
    <3>1. memory'[m] = [at |-> at, list |-> list]
      BY <1>2, <2>1 DEF Memories
    <3> QED  BY <3>1 DEF Remembered
  <2>2. CASE m # n
    <3>1. PICK x \in [at : Nat, list : SUBSET KnownType] \cup {None} : x = memory[m]
      BY DEF Memories
    <3>2. Remembered(x, table, last, now)
      BY <3>1 DEF Memories
    <3>3. Remembered(x, table', last', now)
      BY <1>1, <3>2, RememberedStays
    <3>4. memory'[m] = x
      BY <1>2, <2>2, <3>1 DEF Memories
    <3> QED  BY <3>3, <3>4
  <2> QED  BY <2>1, <2>2
<1> QED  BY <1>3, <1>4 DEF Memories

\* Something is learnt of a place.
LEMMA ReversedKeeps ==
  ASSUME Memories, Clock, now' = now, GrowsTo(table, last, table', last', now),
         memory' = memory, NEW p \in Places, NEW list \in SUBSET KnownType,
         reversed' = [reversed EXCEPT ![p] = [at |-> now, list |-> list]]
  PROVE  Memories'
<1>1. now \in Nat
  BY DEF Clock
<1>2. \A n \in Names : Remembered(memory'[n], table', last', now)
  <2> SUFFICES ASSUME NEW n \in Names  PROVE Remembered(memory[n], table', last', now)
    OBVIOUS
  <2>1. PICK m \in [at : Nat, list : SUBSET KnownType] \cup {None} : m = memory[n]
    BY DEF Memories
  <2>2. Remembered(m, table, last, now)
    BY <2>1 DEF Memories
  <2>3. Remembered(m, table', last', now)
    BY <1>1, <2>2, RememberedStays
  <2> QED  BY <2>1, <2>3
<1>3. /\ reversed' \in [Places -> [at : Nat, list : SUBSET KnownType] \cup {None}]
      /\ \A q \in Places : reversed'[q] # None => reversed'[q].at <= now
  BY <1>1 DEF Memories
<1> QED  BY <1>2, <1>3 DEF Memories

-----------------------------------------------------------------------------
(* Requests. *)

LEMMA NameIsKnown ==
  ASSUME NEW r, NEW t, NEW time, RequestGood(r, t, time), r.pc \in Upserts
  PROVE  NameOf(r) \in Names
<1>1. r.pc # "idle" /\ r.ask \in Asks
  BY DEF RequestGood, Upserts
<1>2. CASE r.ask.op = "points"
  <2>1. r.todo \in Seq(EntityType) /\ r.todo # <<>> /\ Head(r.todo).label # None
    BY <1>1, <1>2 DEF RequestGood, OfMap
  <2>2. Head(r.todo) \in EntityType
    BY <2>1
  <2> QED  BY <1>2, <2>1, <2>2 DEF NameOf, EntityType
<1>3. CASE r.ask.op # "points"
  <2>1. r.todo \in Seq(KnownType) /\ r.todo # <<>>
    BY <1>1, <1>3 DEF RequestGood, OfSearch
  <2>2. Head(r.todo) \in KnownType
    BY <2>1
  <2> QED  BY <1>3, <2>2 DEF NameOf, KnownType
<1> QED  BY <1>2, <1>3

LEMMA RequestStays ==
  ASSUME NEW r, NEW t, NEW t2, NEW time \in Nat, NEW time2 \in Nat, time <= time2,
         RequestGood(r, t, time), \A n \in Names : t[n] # None => t2[n] # None
  PROVE  RequestGood(r, t2, time2)
<1>1. r.at \in Nat /\ r.at <= time
  BY DEF RequestGood
<1>2. r.at <= time2
  BY <1>1
<1>3. r.pc = "update" => t2[NameOf(r)] # None
  <2> SUFFICES ASSUME r.pc = "update"  PROVE t2[NameOf(r)] # None
    OBVIOUS
  <2>1. NameOf(r) \in Names
    BY NameIsKnown DEF Upserts
  <2>2. t[NameOf(r)] # None
    BY DEF RequestGood
  <2> QED  BY <2>1, <2>2
<1>4. /\ DOMAIN r = RequestFields /\ r.found \subseteq KnownType /\ r.points \subseteq PointType
      /\ r.pc # "idle" =>
           /\ r.ask \in Asks
           /\ IF r.ask.op = "points" THEN OfMap(r) ELSE OfSearch(r)
  BY DEF RequestGood
<1> QED  BY ONLY <1>1, <1>2, <1>3, <1>4 DEF RequestGood

\* One request takes a step, the others stay where they are.
LEMMA RequestsKeep ==
  ASSUME GeocodingInv, NEW c \in Clients, now' = now,
         GrowsTo(table, last, table', last', now),
         NEW f, Set(c, f), RequestGood(f, table', now)
  PROVE  Requests'
<1>1. now \in Nat
  BY DEF GeocodingInv, Clock
<1>2. DOMAIN rq = Clients /\ \A d \in Clients : RequestGood(rq[d], table, now)
  BY DEF GeocodingInv, Requests
<1>3. rq' = [rq EXCEPT ![c] = f]
  BY DEF Set
<1>4. DOMAIN rq' = Clients
  BY <1>2, <1>3
<1>5. ASSUME NEW d \in Clients  PROVE RequestGood(rq'[d], table', now)
  <2>1. CASE d = c
    BY <1>2, <1>3, <2>1
  <2>2. CASE d # c
    <3>1. rq'[d] = rq[d]
      BY <1>2, <1>3, <2>2
    <3>2. RequestGood(rq[d], table', now)
      <4>1. \A n \in Names : table[n] # None => table'[n] # None
        BY DEF GrowsTo
      <4>2. RequestGood(rq[d], table, now) /\ now <= now
        BY <1>1, <1>2
      <4> QED  BY ONLY <1>1, <4>1, <4>2, RequestStays
    <3> QED  BY <3>1, <3>2
  <2> QED  BY <2>1, <2>2
<1> QED  BY <1>4, <1>5 DEF Requests

\* What is stored next, and where.
LEMMA CurrentIsKnown ==
  ASSUME GeocodingInv, NEW c \in Clients, rq[c].pc \in Upserts
  PROVE  /\ Current(c) \in KnownType /\ Current(c).name = NameOf(rq[c])
         /\ OnMap(c) /\ Head(rq[c].todo).place # None =>
              Current(c).place = Head(rq[c].todo).place
<1>1. RequestGood(rq[c], table, now) /\ rq[c].pc # "idle"
  BY DEF GeocodingInv, Requests, Upserts
<1>2. CASE OnMap(c)
  <2>1. OfMap(rq[c])
    BY <1>1, <1>2 DEF RequestGood, OnMap
  <2>2. rq[c].todo \in Seq(EntityType) /\ rq[c].todo # <<>> /\ Head(rq[c].todo).label # None
    BY <2>1 DEF OfMap
  <2>3. /\ Head(rq[c].todo).label \in Names
        /\ Head(rq[c].todo).place # None => Head(rq[c].todo).place \in Places
    <3>1. Head(rq[c].todo) \in EntityType
      BY <2>2
    <3> QED  BY <2>2, <3>1 DEF EntityType
  <2>4. NameOf(rq[c]) = Head(rq[c].todo).label
    BY <1>2 DEF OnMap, NameOf
  <2>5. CASE Head(rq[c].todo).place # None
    <3>1. Current(c) = Known(Head(rq[c].todo).label, Head(rq[c].todo).place)
      BY <1>2, <2>5 DEF Current
    <3> QED  BY <2>3, <2>4, <2>5, <3>1 DEF Known, KnownType
  <2>6. CASE Head(rq[c].todo).place = None
    <3>1. PICK p \in Places : rq[c].found = {Known(Head(rq[c].todo).label, p)}
      BY <2>1, <2>6 DEF OfMap
    <3>2. Current(c) = Known(Head(rq[c].todo).label, p)
      BY <1>2, <2>6, <3>1 DEF Current
    <3> QED  BY <2>3, <2>4, <2>6, <3>2 DEF Known, KnownType
  <2> QED  BY <2>5, <2>6
<1>3. CASE ~ OnMap(c)
  <2>1. rq[c].todo \in Seq(KnownType) /\ rq[c].todo # <<>>
    BY <1>1, <1>3 DEF RequestGood, OfSearch, OnMap
  <2>2. Current(c) = Head(rq[c].todo) /\ NameOf(rq[c]) = Head(rq[c].todo).name
    BY <1>3 DEF Current, NameOf, OnMap
  <2> QED  BY <1>3, <2>1, <2>2
<1> QED  BY <1>2, <1>3

\* A step that changes only where one request stands.
LEMMA OnlyRequestKeeps ==
  ASSUME GeocodingInv, NEW c \in Clients,
         UNCHANGED <<now, table, memory, reversed, last>>,
         NEW f, Set(c, f), RequestGood(f, table, now)
  PROVE  GeocodingInv'
<1>1. GrowsTo(table, last, table', last', now)
  BY SameGrows
<1>2. Requests'
  BY <1>1, RequestsKeep
<1>3. Clock' /\ Tables' /\ Memories'
  BY DEF GeocodingInv, Clock, Tables, Memories
<1> QED  BY <1>2, <1>3 DEF GeocodingInv

\* What a request is when it has its answer, or waits, or has failed: of one
\* that does not ask for a map nothing more is required then.
LEMMA SearchMoves ==
  ASSUME NEW r, NEW t, NEW time, RequestGood(r, t, time), r.pc # "idle",
         r.ask.op # "points", NEW f, DOMAIN f = RequestFields,
         f.ask = r.ask, f.at \in Nat, f.at <= time, f.found \subseteq KnownType,
         f.points = r.points, f.pc \notin Upserts
  PROVE  RequestGood(f, t, time)
<1>1. f.ask \in Asks /\ f.ask.op # "points" /\ f.points \subseteq PointType
  BY DEF RequestGood
<1>2. OfSearch(f) /\ f.pc # "update"
  BY DEF OfSearch, Upserts
<1> QED  BY <1>1, <1>2 DEF RequestGood

LEMMA AskShape ==
  ASSUME NEW ask \in Asks
  PROVE  /\ ask.op \in {"normalize", "suggest", "reverse", "points"}
         /\ ask.op \in {"normalize", "suggest"} => ask.arg \in Names
         /\ ask.op = "reverse" => ask.arg \in Places
         /\ ask.op = "points" => ask.arg \in Seq(EntityType)
BY GeocodingAssumption DEF Asks

LEMMA BeginKeeps ==
  ASSUME GeocodingInv, NEW c \in Clients, NEW ask \in Asks, Begin(c, ask), now' = now
  PROVE  GeocodingInv'
<1>1. PICK f : f = [Idle EXCEPT
        !.pc = CASE ask.op = "normalize"            -> "look"
                 [] ask.op \in {"suggest", "reverse"} -> "recall"
                 [] ask.op = "points"               -> "entity",
        !.ask = ask,
        !.todo = IF ask.op = "points" THEN ask.arg ELSE <<>>,
        !.warned = refusedAt # None /\ now < refusedAt + Cooldown]
  OBVIOUS
<1>2. Set(c, f) /\ UNCHANGED <<table, memory, reversed, last>>
  BY <1>1 DEF Begin
<1>3. /\ DOMAIN f = RequestFields /\ f.ask = ask /\ f.at = 0 /\ f.found = {} /\ f.points = {}
      /\ ask.op = "normalize" => f.pc = "look"
      /\ ask.op \in {"suggest", "reverse"} => f.pc = "recall"
      /\ ask.op = "points" => f.pc = "entity" /\ f.todo = ask.arg
  BY <1>1 DEF Idle, RequestFields
<1>4. f.pc \in {"look", "recall", "entity"}
  BY <1>3, AskShape
<1>5. ask.op = "points" => OfMap(f)
  BY <1>3, AskShape DEF OfMap, Upserts
<1>6. OfSearch(f)
  BY <1>4 DEF OfSearch, Upserts
<1>7. now \in Nat
  BY DEF GeocodingInv, Clock
<1>8. RequestGood(f, table, now)
  BY <1>3, <1>4, <1>5, <1>6, <1>7 DEF RequestGood
<1> QED  BY <1>2, <1>8, OnlyRequestKeeps

LEMMA LeaveKeeps ==
  ASSUME GeocodingInv, NEW c \in Clients, Leave(c), now' = now
  PROVE  GeocodingInv'
<1>1. RequestGood(Idle, table, now)
  <2>1. now \in Nat
    BY DEF GeocodingInv, Clock
  <2>2. /\ DOMAIN Idle = RequestFields /\ Idle.pc = "idle" /\ Idle.at = 0
        /\ Idle.found = {} /\ Idle.points = {}
    BY DEF Idle, RequestFields
  <2> QED  BY <2>1, <2>2 DEF RequestGood
<1> QED  BY <1>1, OnlyRequestKeeps DEF Leave

\* What changes of a request that is not for a map, and its answer.
LEMMA Moved ==
  ASSUME GeocodingInv, NEW c \in Clients, rq[c].pc # "idle", ~ OnMap(c)
  PROVE  /\ \A found \in SUBSET KnownType :
              RequestGood(Answered(c, found), table, now)
         /\ \A until : \A found \in SUBSET KnownType :
              RequestGood([Answered(c, found) EXCEPT !.until = until], table, now)
         /\ RequestGood(Waiting(rq[c]), table, now)
         /\ RequestGood([rq[c] EXCEPT !.pc = "failed"], table, now)
         /\ RequestGood([rq[c] EXCEPT !.pc = "look", !.at = now], table, now)
         /\ \A found \in SUBSET KnownType :
              RequestGood([Answered(c, found) EXCEPT !.todo = <<>>], table, now)
<1>1. PICK r : r = rq[c]
  OBVIOUS
<1>2. /\ RequestGood(r, table, now) /\ r.pc # "idle" /\ r.ask.op # "points"
      /\ DOMAIN r = RequestFields /\ r.at \in Nat /\ r.at <= now /\ r.found \subseteq KnownType
  BY <1>1 DEF GeocodingInv, Requests, RequestGood, OnMap
<1>3. now \in Nat
  BY DEF GeocodingInv, Clock
<1>4. "pc" \notin Upserts /\ "answered" \notin Upserts /\ "waiting" \notin Upserts
      /\ "failed" \notin Upserts /\ "look" \notin Upserts
  BY DEF Upserts
<1>5. ASSUME NEW found \in SUBSET KnownType
      PROVE  RequestGood([r EXCEPT !.pc = "answered", !.found = found], table, now)
  <2>1. PICK f : f = [r EXCEPT !.pc = "answered", !.found = found]
    OBVIOUS
  <2>2. /\ DOMAIN f = RequestFields /\ f.ask = r.ask /\ f.at = r.at /\ f.found = found
        /\ f.points = r.points /\ f.pc = "answered"
    BY <1>2, <2>1 DEF RequestFields
  <2> QED  BY <1>2, <1>4, <2>1, <2>2, SearchMoves
<1>6. ASSUME NEW found \in SUBSET KnownType, NEW until
      PROVE  RequestGood([[r EXCEPT !.pc = "answered", !.found = found]
                            EXCEPT !.until = until], table, now)
  <2>1. PICK f : f = [[r EXCEPT !.pc = "answered", !.found = found] EXCEPT !.until = until]
    OBVIOUS
  <2>2. /\ DOMAIN f = RequestFields /\ f.ask = r.ask /\ f.at = r.at /\ f.found = found
        /\ f.points = r.points /\ f.pc = "answered"
    BY <1>2, <2>1 DEF RequestFields
  <2> QED  BY <1>2, <1>4, <2>1, <2>2, SearchMoves
<1>7. ASSUME NEW pc \in {"waiting", "failed"}
      PROVE  RequestGood([r EXCEPT !.pc = pc], table, now)
  <2>1. PICK f : f = [r EXCEPT !.pc = pc]
    OBVIOUS
  <2>2. /\ DOMAIN f = RequestFields /\ f.ask = r.ask /\ f.at = r.at /\ f.found = r.found
        /\ f.points = r.points /\ f.pc = pc
    BY <1>2, <2>1 DEF RequestFields
  <2> QED  BY <1>2, <1>4, <2>1, <2>2, SearchMoves
<1>8. RequestGood([r EXCEPT !.pc = "look", !.at = now], table, now)
  <2>1. PICK f : f = [r EXCEPT !.pc = "look", !.at = now]
    OBVIOUS
  <2>2. /\ DOMAIN f = RequestFields /\ f.ask = r.ask /\ f.at = now /\ f.found = r.found
        /\ f.points = r.points /\ f.pc = "look"
    BY <1>2, <2>1 DEF RequestFields
  <2>3. f.at \in Nat /\ f.at <= now
    BY <1>3, <2>2
  <2> QED  BY <1>2, <1>4, <2>1, <2>2, <2>3, SearchMoves
<1>9. ASSUME NEW found \in SUBSET KnownType
      PROVE  RequestGood([[r EXCEPT !.pc = "answered", !.found = found]
                            EXCEPT !.todo = <<>>], table, now)
  <2>1. PICK f : f = [[r EXCEPT !.pc = "answered", !.found = found] EXCEPT !.todo = <<>>]
    OBVIOUS
  <2>2. /\ DOMAIN f = RequestFields /\ f.ask = r.ask /\ f.at = r.at /\ f.found = found
        /\ f.points = r.points /\ f.pc = "answered"
    BY <1>2, <2>1 DEF RequestFields
  <2> QED  BY <1>2, <1>4, <2>1, <2>2, SearchMoves
<1> QED  BY <1>1, <1>5, <1>6, <1>7, <1>8, <1>9 DEF Answered, Waiting

\* What stands where: a request that is not for a map, and its argument.
LEMMA StandsAt ==
  ASSUME GeocodingInv, NEW c \in Clients, NEW op \in {"normalize", "suggest", "reverse"},
         NEW pc, pc # "idle", At(c, op, pc)
  PROVE  /\ rq[c].pc # "idle" /\ ~ OnMap(c) /\ rq[c].ask \in Asks
         /\ op \in {"normalize", "suggest"} => rq[c].ask.arg \in Names
         /\ op = "reverse" => rq[c].ask.arg \in Places
         /\ rq[c].at \in Nat /\ rq[c].at <= now
<1>1. rq[c].pc # "idle" /\ rq[c].ask.op = op
  BY DEF At
<1>2. RequestGood(rq[c], table, now)
  BY DEF GeocodingInv, Requests
<1>3. rq[c].ask \in Asks /\ rq[c].at \in Nat /\ rq[c].at <= now
  BY <1>1, <1>2 DEF RequestGood
<1> QED  BY <1>1, <1>3, AskShape DEF OnMap

LEMMA LookExactKeeps ==
  ASSUME GeocodingInv, NEW c \in Clients, LookExact(c), now' = now
  PROVE  GeocodingInv'
<1>1. /\ rq[c].pc # "idle" /\ ~ OnMap(c) /\ rq[c].ask.arg \in Names
      /\ UNCHANGED <<now, table, memory, reversed, last>>
  BY StandsAt DEF LookExact
<1>2. PICK n \in Names : n = rq[c].ask.arg
  BY <1>1
<1>3. CASE table[n] # None /\ Set(c, Answered(c, {Known(n, table[n])}))
  <2>1. {Known(n, table[n])} \in SUBSET KnownType
    BY <1>3 DEF GeocodingInv, Tables, Known, KnownType
  <2>2. RequestGood(Answered(c, {Known(n, table[n])}), table, now)
    BY <1>1, <2>1, Moved
  <2> QED  BY <1>1, <1>3, <2>2, OnlyRequestKeeps
<1>4. CASE Ask(c)
  <2>1. RequestGood(Waiting(rq[c]), table, now)
    BY <1>1, Moved
  <2> QED  BY <1>1, <1>4, <2>1, OnlyRequestKeeps DEF Ask
<1> QED  BY <1>2, <1>3, <1>4 DEF LookExact

LEMMA RecallSuggestionsKeeps ==
  ASSUME GeocodingInv, NEW c \in Clients, RecallSuggestions(c), now' = now
  PROVE  GeocodingInv'
<1>1. /\ rq[c].pc # "idle" /\ ~ OnMap(c) /\ rq[c].ask.arg \in Names
      /\ UNCHANGED <<now, table, memory, reversed, last>>
  BY StandsAt DEF RecallSuggestions
<1>2. PICK n \in Names : n = rq[c].ask.arg
  BY <1>1
<1>3. CASE Fresh(memory[n]) /\ Set(c, Answered(c, memory[n].list))
  <2>1. memory[n].list \in SUBSET KnownType
    BY <1>3 DEF GeocodingInv, Memories, Fresh
  <2>2. RequestGood(Answered(c, memory[n].list), table, now)
    BY <1>1, <2>1, Moved
  <2> QED  BY <1>1, <1>3, <2>2, OnlyRequestKeeps
<1>4. CASE Set(c, [rq[c] EXCEPT !.pc = "look", !.at = now])
  <2>1. RequestGood([rq[c] EXCEPT !.pc = "look", !.at = now], table, now)
    BY <1>1, Moved
  <2> QED  BY <1>1, <1>4, <2>1, OnlyRequestKeeps
<1> QED  BY <1>2, <1>3, <1>4 DEF RecallSuggestions

\* Rows are remembered as of the time at which they were looked for.
LEMMA LookPrefixKeeps ==
  ASSUME GeocodingInv, NEW c \in Clients, LookPrefix(c), now' = now
  PROVE  GeocodingInv'
<1>1. /\ rq[c].pc # "idle" /\ ~ OnMap(c) /\ rq[c].ask.arg \in Names
      /\ rq[c].at \in Nat /\ rq[c].at <= now
      /\ UNCHANGED <<now, table, reversed, last>>
  BY StandsAt DEF LookPrefix
<1>2. PICK n \in Names : n = rq[c].ask.arg
  BY <1>1
<1>3. PICK rows : rows = {Known(m, table[m]) : m \in {k \in Under[n] : table[k] # None}}
  OBVIOUS
<1>4. rows \in SUBSET KnownType /\ \A k \in rows : table[k.name] = k.place
  <2>1. \A m \in Under[n] : m \in Names
    BY GeocodingAssumption
  <2> QED  BY <1>3, <2>1 DEF GeocodingInv, Tables, Known, KnownType
<1>5. CASE Learn(n, rq[c].at, rows) /\ Set(c, Answered(c, rows))
  <2>1. RequestGood(Answered(c, rows), table, now)
    BY <1>1, <1>4, Moved
  <2>2. GrowsTo(table, last, table', last', now)
    BY <1>1, SameGrows
  <2>3. Requests'
    BY <1>1, <1>5, <2>1, <2>2, RequestsKeep
  <2>4. \A k \in rows : RightFor(k, rq[c].at, table', last')
    BY <1>1, <1>4 DEF RightFor
  <2>5. Memories'
    BY <1>1, <1>4, <1>5, <2>2, <2>4, LearnKeeps DEF GeocodingInv
  <2>6. Clock' /\ Tables'
    BY <1>1 DEF GeocodingInv, Clock, Tables
  <2> QED  BY <2>3, <2>5, <2>6 DEF GeocodingInv
<1>6. CASE Ask(c) /\ UNCHANGED memory
  <2>1. RequestGood(Waiting(rq[c]), table, now)
    BY <1>1, Moved
  <2> QED  BY <1>1, <1>6, <2>1, OnlyRequestKeeps DEF Ask
<1> QED  BY <1>2, <1>3, <1>5, <1>6 DEF LookPrefix

LEMMA RecallPlaceKeeps ==
  ASSUME GeocodingInv, NEW c \in Clients, RecallPlace(c), now' = now
  PROVE  GeocodingInv'
<1>1. /\ rq[c].pc # "idle" /\ ~ OnMap(c) /\ rq[c].ask.arg \in Places
      /\ UNCHANGED <<now, table, memory, reversed, last>>
  BY StandsAt DEF RecallPlace
<1>2. PICK p \in Places : p = rq[c].ask.arg
  BY <1>1
<1>3. CASE Fresh(reversed[p]) /\ Set(c, Answered(c, reversed[p].list))
  <2>1. reversed[p].list \in SUBSET KnownType
    BY <1>3 DEF GeocodingInv, Memories, Fresh
  <2>2. RequestGood(Answered(c, reversed[p].list), table, now)
    BY <1>1, <2>1, Moved
  <2> QED  BY <1>1, <1>3, <2>2, OnlyRequestKeeps
<1>4. CASE Ask(c)
  <2>1. RequestGood(Waiting(rq[c]), table, now)
    BY <1>1, Moved
  <2> QED  BY <1>1, <1>4, <2>1, OnlyRequestKeeps DEF Ask
<1> QED  BY <1>2, <1>3, <1>4 DEF RecallPlace

\* A finite set's sequence.
LEMMA SetToSeqIs ==
  ASSUME NEW S, IsFiniteSet(S), S # {}
  PROVE  SetToSeq(S) \in Seq(S) /\ SetToSeq(S) # <<>>
<1> DEFINE n == Cardinality(S)
<1>1. n \in Nat /\ ExistsBijection(1..n, S)
  BY FS_CardinalityType
<1>2. n # 0
  BY FS_EmptySet
<1>3. \E f \in [1..n -> S] : IsInjective(f)
  BY <1>1 DEF ExistsBijection, Bijection, Injection
<1>4. SetToSeq(S) \in [1..n -> S]
  BY <1>3 DEF SetToSeq
<1> HIDE DEF n
<1>5. SetToSeq(S) \in Seq(S)
  BY <1>1, <1>4
<1>6. DOMAIN SetToSeq(S) = 1..n /\ 1 \in 1..n
  BY <1>1, <1>2, <1>4
<1>7. PICK s : s = SetToSeq(S) /\ 1 \in DOMAIN s
  BY <1>6
<1>8. s # <<>>
  BY <1>7
<1> QED  BY <1>5, <1>7, <1>8

LEMMA RefuseKeeps ==
  ASSUME GeocodingInv, NEW c \in Clients, Refuse(c), now' = now
  PROVE  GeocodingInv'
<1>1. /\ rq[c].pc # "idle" /\ ~ OnMap(c) /\ UNCHANGED <<now, table, memory, reversed, last>>
      /\ Set(c, [Answered(c, {}) EXCEPT !.until = now + Cooldown])
  BY DEF Refuse, Searching, OnMap
<1>2. RequestGood([Answered(c, {}) EXCEPT !.until = now + Cooldown], table, now)
  <2>1. {} \in SUBSET KnownType
    OBVIOUS
  <2> QED  BY <1>1, <2>1, Moved
<1> QED  BY <1>1, <1>2, OnlyRequestKeeps

LEMMA FindNothingKeeps ==
  ASSUME GeocodingInv, NEW c \in Clients, FindNothing(c), now' = now
  PROVE  GeocodingInv'
<1>1. /\ rq[c].pc # "idle" /\ ~ OnMap(c) /\ UNCHANGED <<now, table, last>>
      /\ Set(c, Answered(c, {}))
  BY DEF FindNothing, Searching, OnMap
<1>2. {} \in SUBSET KnownType /\ now \in Nat
  BY DEF GeocodingInv, Clock
<1>3. RequestGood(Answered(c, {}), table, now)
  BY <1>1, <1>2, Moved
<1>4. GrowsTo(table, last, table', last', now)
  BY <1>1, SameGrows
<1>5. Requests' /\ Clock' /\ Tables'
  <2>1. Requests'
    BY <1>1, <1>3, <1>4, RequestsKeep
  <2> QED  BY <1>1, <2>1 DEF GeocodingInv, Clock, Tables
<1>6. rq[c].ask \in Asks
  BY <1>1 DEF GeocodingInv, Requests, RequestGood
<1>7. Memories'
  <2>1. CASE rq[c].ask.op = "normalize" /\ UNCHANGED <<memory, reversed>>
    BY <1>1, <1>2, <1>4, <1>5, <2>1, MemoriesStay DEF GeocodingInv
  <2>2. CASE rq[c].ask.op = "suggest" /\ Learn(rq[c].ask.arg, now, {}) /\ UNCHANGED reversed
    <3>1. rq[c].ask.arg \in Names
      BY <1>6, <2>2, AskShape
    <3>2. /\ now <= now /\ \A k \in {} : RightFor(k, now, table', last')
      BY <1>2
    <3> QED  BY <1>2, <1>4, <2>2, <3>1, <3>2, LearnKeeps DEF GeocodingInv
  <2>3. CASE /\ rq[c].ask.op = "reverse" /\ UNCHANGED memory
             /\ reversed' = [reversed EXCEPT ![rq[c].ask.arg] = [at |-> now, list |-> {}]]
    <3>1. rq[c].ask.arg \in Places
      BY <1>6, <2>3, AskShape
    <3> QED  BY <1>2, <1>4, <2>3, <3>1, ReversedKeeps DEF GeocodingInv
  <2> QED  BY <2>1, <2>2, <2>3 DEF FindNothing
<1> QED  BY <1>5, <1>7 DEF GeocodingInv

\* What was found is about to be stored.
LEMMA StoringIsGood ==
  ASSUME GeocodingInv, NEW c \in Clients, rq[c].pc # "idle", ~ OnMap(c),
         NEW found \in SUBSET KnownType, IsFiniteSet(found), found # {}
  PROVE  RequestGood(Storing(c, found), table, now)
<1>1. PICK r : r = rq[c]
  OBVIOUS
<1>2. /\ RequestGood(r, table, now) /\ r.pc # "idle" /\ r.ask.op # "points"
      /\ DOMAIN r = RequestFields /\ r.ask \in Asks
      /\ r.at \in Nat /\ r.at <= now /\ r.points \subseteq PointType
  BY <1>1 DEF GeocodingInv, Requests, RequestGood, OnMap
<1>3. PICK f : f = [r EXCEPT !.pc = "select", !.todo = SetToSeq(found), !.found = found]
  OBVIOUS
<1>4. /\ DOMAIN f = RequestFields /\ f.ask = r.ask /\ f.at = r.at /\ f.found = found
      /\ f.points = r.points /\ f.pc = "select" /\ f.todo = SetToSeq(found)
  BY <1>2, <1>3 DEF RequestFields
<1>5. SetToSeq(found) \in Seq(KnownType) /\ SetToSeq(found) # <<>>
  <2>1. SetToSeq(found) \in Seq(found) /\ SetToSeq(found) # <<>>
    BY SetToSeqIs
  <2> QED  BY <2>1, SeqMonotonic
<1>6. OfSearch(f)
  BY <1>4, <1>5 DEF OfSearch
<1>7. RequestGood(f, table, now)
  BY <1>2, <1>4, <1>6 DEF RequestGood
<1> QED  BY <1>1, <1>3, <1>7 DEF Storing

LEMMA FindPlaceKeeps ==
  ASSUME GeocodingInv, NEW c \in Clients, FindPlace(c), now' = now
  PROVE  GeocodingInv'
<1>1. /\ rq[c].pc # "idle" /\ ~ OnMap(c) /\ rq[c].ask.arg \in Names
      /\ UNCHANGED <<now, table, memory, reversed>>
  BY StandsAt DEF FindPlace
<1>2. PICK n \in Names, p \in Places :
        /\ Set(c, Storing(c, {Known(rq[c].ask.arg, p), Known(n, p)}))
        /\ Right({Known(rq[c].ask.arg, p), Known(n, p)})
  BY DEF FindPlace
<1>3. PICK found : found = {Known(rq[c].ask.arg, p), Known(n, p)}
  OBVIOUS
<1>4. found \in SUBSET KnownType /\ found # {} /\ IsFiniteSet(found)
  <2>1. found = {Known(rq[c].ask.arg, p)} \cup {Known(n, p)}
    BY <1>3
  <2>2. IsFiniteSet({Known(rq[c].ask.arg, p)})
    BY FS_Singleton
  <2>3. IsFiniteSet(found)
    BY <2>1, <2>2, FS_AddElement
  <2> QED  BY <1>1, <1>3, <2>3 DEF Known, KnownType
<1>5. Tables' /\ GrowsTo(table, last, table', last', now)
  BY <1>1, <1>2, <1>3, <1>4, RightGrows DEF GeocodingInv
<1>6. RequestGood(Storing(c, found), table', now)
  BY <1>1, <1>4, StoringIsGood
<1>7. Requests'
  BY <1>1, <1>2, <1>3, <1>5, <1>6, RequestsKeep
<1>8. Clock' /\ now <= now'
  BY <1>1 DEF GeocodingInv, Clock
<1>9. Memories'
  BY <1>1, <1>5, <1>8, MemoriesStay DEF GeocodingInv
<1> QED  BY <1>5, <1>7, <1>8, <1>9 DEF GeocodingInv

LEMMA FindSuggestionsKeeps ==
  ASSUME GeocodingInv, NEW c \in Clients, FindSuggestions(c), now' = now
  PROVE  GeocodingInv'
<1>1. /\ rq[c].pc # "idle" /\ ~ OnMap(c) /\ rq[c].ask.arg \in Names
      /\ UNCHANGED <<now, table, reversed>>
  BY StandsAt DEF FindSuggestions
<1>2. PICK ns \in (SUBSET Names) \ {{}} : \E ps \in [ns -> Places] :
        IsFiniteSet(ns) /\
        LET found == {Known(n, ps[n]) : n \in ns}
        IN Set(c, Storing(c, found)) /\ Right(found) /\ Learn(rq[c].ask.arg, now, found)
  BY DEF FindSuggestions
<1>3. PICK ps \in [ns -> Places] :
        IsFiniteSet(ns) /\
        LET found == {Known(n, ps[n]) : n \in ns}
        IN Set(c, Storing(c, found)) /\ Right(found) /\ Learn(rq[c].ask.arg, now, found)
  BY <1>2
<1>4. PICK found : found = {Known(n, ps[n]) : n \in ns}
  OBVIOUS
<1>5. /\ IsFiniteSet(ns) /\ Set(c, Storing(c, found)) /\ Right(found)
      /\ Learn(rq[c].ask.arg, now, found)
  BY <1>3, <1>4
<1>6. found \in SUBSET KnownType /\ found # {}
  <2>1. \A n \in ns : n \in Names /\ ps[n] \in Places
    BY <1>2, <1>3
  <2>2. \A n \in ns : Known(n, ps[n]) \in KnownType
    BY <2>1 DEF Known, KnownType
  <2>3. ns # {}
    OBVIOUS
  <2> QED  BY <1>4, <2>2, <2>3
<1>7. IsFiniteSet(found)
  <2> DEFINE f == [n \in ns |-> Known(n, ps[n])]
  <2>1. f \in Surjection(ns, found)
    BY <1>4 DEF Surjection
  <2> HIDE DEF f
  <2> QED  BY <1>5, <2>1, FS_Surjection
<1>8. /\ Tables' /\ GrowsTo(table, last, table', last', now)
      /\ \A k \in found : RightFor(k, now, table', last')
  BY <1>1, <1>5, <1>6, RightGrows DEF GeocodingInv
<1>9. RequestGood(Storing(c, found), table', now)
  BY <1>1, <1>6, <1>7, StoringIsGood
<1>10. Requests'
  BY <1>5, <1>8, <1>9, RequestsKeep
<1>11. Clock' /\ now \in Nat /\ now <= now
  BY DEF GeocodingInv, Clock
<1>12. Memories'
  BY <1>1, <1>5, <1>6, <1>8, <1>11, LearnKeeps DEF GeocodingInv
<1> QED  BY <1>8, <1>10, <1>11, <1>12 DEF GeocodingInv

LEMMA FindNameKeeps ==
  ASSUME GeocodingInv, NEW c \in Clients, FindName(c), now' = now
  PROVE  GeocodingInv'
<1>1. /\ rq[c].pc # "idle" /\ ~ OnMap(c) /\ rq[c].ask.arg \in Places
      /\ UNCHANGED <<now, table, memory>>
  BY StandsAt DEF FindName
<1>2. PICK n \in Names :
        LET found == {Known(n, rq[c].ask.arg)}
        IN /\ Set(c, Answered(c, found)) /\ Right(found)
           /\ reversed' = [reversed EXCEPT ![rq[c].ask.arg] = [at |-> now, list |-> found]]
  BY DEF FindName
<1>3. PICK found : found = {Known(n, rq[c].ask.arg)}
  OBVIOUS
<1>4. found \in SUBSET KnownType
  BY <1>1, <1>3 DEF Known, KnownType
<1>5. Tables' /\ GrowsTo(table, last, table', last', now)
  BY <1>1, <1>2, <1>3, <1>4, RightGrows DEF GeocodingInv
<1>6. RequestGood(Answered(c, found), table', now)
  BY <1>1, <1>4, Moved
<1>7. Requests'
  BY <1>2, <1>3, <1>5, <1>6, RequestsKeep
<1>8. Clock'
  BY DEF GeocodingInv, Clock
<1>9. Memories'
  BY <1>1, <1>2, <1>3, <1>4, <1>5, ReversedKeeps DEF GeocodingInv
<1> QED  BY <1>5, <1>7, <1>8, <1>9 DEF GeocodingInv

-----------------------------------------------------------------------------
(* The points of a map, and what is stored. *)

\* An entity is done with.
LEMMA MapAdvances ==
  ASSUME NEW r, NEW t, NEW time, RequestGood(r, t, time), r.pc # "idle",
         r.ask.op = "points", r.todo # <<>>,
         NEW f, DOMAIN f = RequestFields, f.ask = r.ask, f.at = r.at, f.found = r.found,
         f.pc = "entity", f.todo = Tail(r.todo), r.points \subseteq f.points,
         f.points \subseteq PointType, r.unresolved \subseteq f.unresolved,
         Handled(Head(r.todo), f)
  PROVE  RequestGood(f, t, time)
<1>1. OfMap(r) /\ r.ask \in Asks
  BY DEF RequestGood
<1>2. r.todo \in Seq(EntityType)
  BY <1>1 DEF OfMap
<1>3. ASSUME NEW e, Handled(e, r)  PROVE Handled(e, f)
  BY <1>3 DEF Handled
<1>4. ASSUME NEW e \in Range(r.todo)  PROVE e = Head(r.todo) \/ e \in Range(f.todo)
  <2>1. PICK i \in DOMAIN r.todo : r.todo[i] = e
    BY DEF Range
  <2>2. DOMAIN r.todo = 1 .. Len(r.todo) /\ Len(r.todo) \in Nat /\ Head(r.todo) = r.todo[1]
    BY <1>2
  <2>3. CASE i = 1
    BY <2>1, <2>2, <2>3
  <2>4. CASE i # 1
    <3>1. /\ Len(Tail(r.todo)) = Len(r.todo) - 1 /\ Tail(r.todo) \in Seq(EntityType)
          /\ \A j \in 1 .. Len(Tail(r.todo)) : Tail(r.todo)[j] = r.todo[j + 1]
      BY <1>2, HeadTailProperties
    <3>2. i - 1 \in 1 .. Len(Tail(r.todo)) /\ (i - 1) + 1 = i
      BY <2>2, <2>4, <3>1
    <3>3. i - 1 \in DOMAIN f.todo /\ f.todo[i - 1] = e
      BY <2>1, <3>1, <3>2
    <3> QED  BY <3>3 DEF Range
  <2> QED  BY <2>3, <2>4
<1>5. \A e \in Range(f.ask.arg) : Handled(e, f) \/ e \in Range(f.todo)
  BY <1>1, <1>3, <1>4 DEF OfMap
<1>6. f.todo \in Seq(EntityType)
  BY <1>2
<1>7. OfMap(f)
  BY <1>5, <1>6 DEF OfMap, Upserts
<1> QED  BY <1>1, <1>7 DEF RequestGood

LEMMA MapRequest ==
  ASSUME GeocodingInv, NEW c \in Clients, rq[c].pc # "idle", OnMap(c)
  PROVE  /\ RequestGood(rq[c], table, now) /\ OfMap(rq[c]) /\ DOMAIN rq[c] = RequestFields
         /\ rq[c].ask \in Asks /\ rq[c].ask.op = "points"
         /\ rq[c].todo \in Seq(EntityType) /\ rq[c].points \subseteq PointType
         /\ rq[c].todo # <<>> =>
              /\ Head(rq[c].todo) \in EntityType
              /\ Head(rq[c].todo).label \in Names \cup {None}
              /\ Head(rq[c].todo).place \in Places \cup {None}
<1>1. RequestGood(rq[c], table, now)
  BY DEF GeocodingInv, Requests
<1>2. OfMap(rq[c]) /\ rq[c].ask \in Asks /\ rq[c].ask.op = "points"
  BY <1>1 DEF RequestGood, OnMap
<1>3. rq[c].todo \in Seq(EntityType)
  BY <1>2 DEF OfMap
<1>4. ASSUME rq[c].todo # <<>>  PROVE Head(rq[c].todo) \in EntityType
  BY <1>3, <1>4
<1>5. DOMAIN rq[c] = RequestFields /\ rq[c].points \subseteq PointType
  BY <1>1 DEF RequestGood
<1>6. \A e \in EntityType : e.label \in Names \cup {None} /\ e.place \in Places \cup {None}
  BY DEF EntityType
<1> QED  BY <1>1, <1>2, <1>3, <1>4, <1>5, <1>6

LEMMA PlacedIsGood ==
  ASSUME GeocodingInv, NEW c \in Clients, rq[c].pc # "idle", OnMap(c), rq[c].todo # <<>>,
         NEW p \in Places, Head(rq[c].todo).place \in {None, p}
  PROVE  RequestGood(Placed(c, p), table, now)
<1>1. PICK r : r = rq[c]
  OBVIOUS
<1>2. PICK e \in EntityType : e = Head(r.todo) /\ e.place \in {None, p}
  BY <1>1, MapRequest
<1>3. /\ RequestGood(r, table, now) /\ r.ask.op = "points" /\ r.todo # <<>> /\ r.pc # "idle"
      /\ DOMAIN r = RequestFields /\ r.points \subseteq PointType
  BY <1>1, MapRequest
<1>4. PICK f : f = [r EXCEPT !.pc = "entity", !.todo = Tail(@),
                             !.points = @ \cup {Point(e, p)}]
  OBVIOUS
<1>5. /\ DOMAIN f = RequestFields /\ f.ask = r.ask /\ f.at = r.at /\ f.found = r.found
      /\ f.pc = "entity" /\ f.todo = Tail(r.todo) /\ f.points = r.points \cup {Point(e, p)}
      /\ f.unresolved = r.unresolved
  BY <1>3, <1>4 DEF RequestFields
<1>6. Point(e, p) \in PointType /\ Point(e, p).entity = e
  BY DEF Point, PointType
<1>7. Handled(e, f)
  BY <1>2, <1>5, <1>6 DEF Handled
<1>8. RequestGood(f, table, now)
  <2>1. r.points \subseteq f.points /\ f.points \subseteq PointType
        /\ r.unresolved \subseteq f.unresolved
    BY <1>3, <1>5, <1>6
  <2> QED  BY <1>2, <1>3, <1>5, <1>7, <2>1, MapAdvances
<1> QED  BY <1>1, <1>2, <1>4, <1>8 DEF Placed

LEMMA UnresolvedIsGood ==
  ASSUME GeocodingInv, NEW c \in Clients, rq[c].pc # "idle", OnMap(c), rq[c].todo # <<>>,
         Head(rq[c].todo).place = None
  PROVE  RequestGood(Unresolved(c), table, now)
<1>1. PICK r : r = rq[c]
  OBVIOUS
<1>2. PICK e \in EntityType : e = Head(r.todo) /\ e.place = None
  BY <1>1, MapRequest
<1>3. /\ RequestGood(r, table, now) /\ r.ask.op = "points" /\ r.todo # <<>> /\ r.pc # "idle"
      /\ DOMAIN r = RequestFields /\ r.points \subseteq PointType
  BY <1>1, MapRequest
<1>4. PICK f : f = [r EXCEPT !.pc = "entity", !.todo = Tail(@),
                             !.unresolved = @ \cup {e.label}]
  OBVIOUS
<1>5. /\ DOMAIN f = RequestFields /\ f.ask = r.ask /\ f.at = r.at /\ f.found = r.found
      /\ f.pc = "entity" /\ f.todo = Tail(r.todo) /\ f.points = r.points
      /\ f.unresolved = r.unresolved \cup {e.label}
  BY <1>3, <1>4 DEF RequestFields
<1>6. Handled(e, f)
  BY <1>2, <1>5 DEF Handled
<1>7. RequestGood(f, table, now)
  <2>1. r.points \subseteq f.points /\ f.points \subseteq PointType
        /\ r.unresolved \subseteq f.unresolved
    BY <1>3, <1>5
  <2> QED  BY <1>2, <1>3, <1>5, <1>6, <2>1, MapAdvances
<1> QED  BY <1>1, <1>2, <1>4, <1>7 DEF Unresolved

\* The same entity, at another point of the program.
LEMMA MapMoves ==
  ASSUME NEW r, NEW t, NEW time, RequestGood(r, t, time), r.pc # "idle",
         r.ask.op = "points", r.todo # <<>>,
         NEW f, DOMAIN f = RequestFields, f.ask = r.ask, f.at = r.at,
         f.found \subseteq KnownType, f.todo = r.todo, f.points = r.points,
         f.unresolved = r.unresolved,
         f.pc \in {"waiting"} \cup Upserts, Head(r.todo).label # None,
         f.pc = "waiting" => Head(r.todo).place = None,
         f.pc \in Upserts /\ Head(r.todo).place = None =>
           \E p \in Places : f.found = {Known(Head(r.todo).label, p)},
         f.pc = "update" => t[NameOf(f)] # None
  PROVE  RequestGood(f, t, time)
<1>1. OfMap(r) /\ r.ask \in Asks
  BY DEF RequestGood
<1>2. f.pc # "answered"
  BY DEF Upserts
<1>3. \A e : Handled(e, r) => Handled(e, f)
  BY DEF Handled
<1>4. OfMap(f)
  BY <1>1, <1>2, <1>3 DEF OfMap
<1> QED  BY <1>1, <1>4 DEF RequestGood

LEMMA NextEntityKeeps ==
  ASSUME GeocodingInv, NEW c \in Clients, NextEntity(c), now' = now
  PROVE  GeocodingInv'
<1>1. PICK r : r = rq[c]
  OBVIOUS
<1>2. PICK e : e = Head(r.todo)
  OBVIOUS
<1>3. /\ r.pc = "entity" /\ r.pc # "idle" /\ OnMap(c) /\ r.todo # <<>>
      /\ UNCHANGED <<now, table, memory, reversed, last>>
  BY <1>1 DEF NextEntity, At, OnMap
<1>4. /\ RequestGood(r, table, now) /\ OfMap(r) /\ r.ask.op = "points"
      /\ DOMAIN r = RequestFields /\ r.points \subseteq PointType
      /\ e \in EntityType /\ e.label \in Names \cup {None} /\ e.place \in Places \cup {None}
  BY <1>1, <1>2, <1>3, MapRequest
<1>5. r.found \subseteq KnownType
  BY <1>4 DEF RequestGood
<1>6. CASE e.place # None /\ e.label # None /\ Set(c, [r EXCEPT !.pc = "select"])
  <2>1. PICK f : f = [r EXCEPT !.pc = "select"]
    OBVIOUS
  <2>2. /\ DOMAIN f = RequestFields /\ f.ask = r.ask /\ f.at = r.at /\ f.found = r.found
        /\ f.todo = r.todo /\ f.points = r.points /\ f.unresolved = r.unresolved
        /\ f.pc = "select" /\ f.pc \in Upserts
    BY <1>4, <2>1 DEF RequestFields, Upserts
  <2>3. RequestGood(f, table, now)
    BY <1>2, <1>3, <1>4, <1>5, <1>6, <2>2, MapMoves
  <2> QED  BY <1>3, <1>6, <2>1, <2>3, OnlyRequestKeeps
<1>7. CASE e.place # None /\ e.label = None /\ Set(c, Placed(c, e.place))
  <2>1. RequestGood(Placed(c, e.place), table, now)
    <3>1. e.place \in Places
      BY <1>4, <1>7
    <3> QED  BY <1>1, <1>2, <1>3, <3>1, PlacedIsGood
  <2> QED  BY <1>3, <1>7, <2>1, OnlyRequestKeeps
<1>8. CASE e.place = None /\ e.label = None /\ Set(c, [r EXCEPT !.todo = Tail(@)])
  <2>1. PICK f : f = [r EXCEPT !.todo = Tail(@)]
    OBVIOUS
  <2>2. /\ DOMAIN f = RequestFields /\ f.ask = r.ask /\ f.at = r.at /\ f.found = r.found
        /\ f.todo = Tail(r.todo) /\ f.points = r.points /\ f.unresolved = r.unresolved
        /\ f.pc = "entity"
    BY <1>3, <1>4, <2>1 DEF RequestFields
  <2>3. Handled(e, f)
    BY <1>8 DEF Handled
  <2>4. RequestGood(f, table, now)
    <3>1. r.points \subseteq f.points /\ f.points \subseteq PointType
          /\ r.unresolved \subseteq f.unresolved
      BY <1>4, <2>2
    <3> QED  BY <1>2, <1>3, <1>4, <2>2, <2>3, <3>1, MapAdvances
  <2> QED  BY <1>3, <1>8, <2>1, <2>4, OnlyRequestKeeps
<1>9. CASE /\ e.place = None /\ e.label # None
           /\ table[e.label] # None /\ Set(c, Placed(c, table[e.label]))
  <2>1. table[e.label] \in Places
    BY <1>4, <1>9 DEF GeocodingInv, Tables
  <2>2. RequestGood(Placed(c, table[e.label]), table, now)
    BY <1>1, <1>2, <1>3, <1>9, <2>1, PlacedIsGood
  <2> QED  BY <1>3, <1>9, <2>2, OnlyRequestKeeps
<1>10. CASE e.place = None /\ e.label # None /\ Set(c, Waiting(r))
  <2>1. PICK f : f = [r EXCEPT !.pc = "waiting"]
    OBVIOUS
  <2>2. /\ DOMAIN f = RequestFields /\ f.ask = r.ask /\ f.at = r.at /\ f.found = r.found
        /\ f.todo = r.todo /\ f.points = r.points /\ f.unresolved = r.unresolved
        /\ f.pc = "waiting" /\ f.pc \notin Upserts
    BY <1>4, <2>1 DEF RequestFields, Upserts
  <2>3. f.pc # "update" /\ f.pc \in {"waiting"} \cup Upserts
    BY <2>2
  <2>4. RequestGood(f, table, now)
    BY <1>2, <1>3, <1>4, <1>5, <1>10, <2>2, <2>3, MapMoves
  <2> QED  BY <1>3, <1>10, <2>1, <2>4, OnlyRequestKeeps DEF Waiting
<1>11. CASE e.place = None /\ Set(c, Unresolved(c))
  <2>1. RequestGood(Unresolved(c), table, now)
    BY <1>1, <1>2, <1>3, <1>11, UnresolvedIsGood
  <2> QED  BY <1>3, <1>11, <2>1, OnlyRequestKeeps
<1> QED  BY <1>1, <1>2, <1>6, <1>7, <1>8, <1>9, <1>10, <1>11 DEF NextEntity

\* A step that changes the table, or only what is right, and one request.
LEMMA TableStepKeeps ==
  ASSUME GeocodingInv, NEW c \in Clients, UNCHANGED <<now, memory, reversed>>,
         Tables', GrowsTo(table, last, table', last', now),
         NEW f, Set(c, f), RequestGood(f, table, now)
  PROVE  GeocodingInv'
<1>1. Clock' /\ now \in Nat /\ now <= now /\ now <= now'
  BY DEF GeocodingInv, Clock
<1>2. RequestGood(f, table', now)
  <2>1. \A n \in Names : table[n] # None => table'[n] # None
    BY DEF GrowsTo
  <2>2. RequestGood(f, table, now)
    OBVIOUS
  <2> QED  BY ONLY <1>1, <2>1, <2>2, RequestStays
<1>3. Requests'
  BY <1>2, RequestsKeep
<1>4. Memories'
  BY <1>1, MemoriesStay DEF GeocodingInv
<1> QED  BY <1>1, <1>3, <1>4 DEF GeocodingInv

LEMMA FindPointKeeps ==
  ASSUME GeocodingInv, NEW c \in Clients, FindPoint(c), now' = now
  PROVE  GeocodingInv'
<1>1. PICK r : r = rq[c]
  OBVIOUS
<1>2. /\ r.pc = "waiting" /\ r.pc # "idle" /\ OnMap(c)
      /\ UNCHANGED <<now, table, memory, reversed>>
  BY <1>1 DEF FindPoint, At, OnMap
<1>3. /\ RequestGood(r, table, now) /\ OfMap(r) /\ r.ask.op = "points"
      /\ DOMAIN r = RequestFields
  BY <1>1, <1>2, MapRequest
<1>4. r.todo # <<>> /\ Head(r.todo).place = None /\ Head(r.todo).label # None
  BY <1>2, <1>3 DEF OfMap
<1>5. Head(r.todo).label \in Names
  BY <1>1, <1>2, <1>4, MapRequest
<1>6. CASE Set(c, Unresolved(c)) /\ UNCHANGED last
  <2>1. RequestGood(Unresolved(c), table, now)
    BY <1>1, <1>2, <1>4, UnresolvedIsGood
  <2> QED  BY <1>2, <1>6, <2>1, OnlyRequestKeeps
<1>7. CASE \E p \in Places : LET found == {Known(Head(r.todo).label, p)} IN
             Set(c, [r EXCEPT !.pc = "select", !.found = found]) /\ Right(found)
  <2>1. PICK p \in Places : LET found == {Known(Head(r.todo).label, p)} IN
          Set(c, [r EXCEPT !.pc = "select", !.found = found]) /\ Right(found)
    BY <1>7
  <2>2. PICK found : found = {Known(Head(r.todo).label, p)}
    OBVIOUS
  <2>3. PICK f : f = [r EXCEPT !.pc = "select", !.found = found]
    OBVIOUS
  <2>4. Set(c, f) /\ Right(found)
    BY <2>1, <2>2, <2>3
  <2>5. found \in SUBSET KnownType
    BY <1>5, <2>2 DEF Known, KnownType
  <2>6. /\ DOMAIN f = RequestFields /\ f.ask = r.ask /\ f.at = r.at /\ f.found = found
        /\ f.todo = r.todo /\ f.points = r.points /\ f.unresolved = r.unresolved
        /\ f.pc = "select" /\ f.pc \in Upserts
    BY <1>3, <2>3 DEF RequestFields, Upserts
  <2>7. RequestGood(f, table, now)
    BY <1>2, <1>3, <1>4, <2>2, <2>5, <2>6, MapMoves
  <2>8. Tables' /\ GrowsTo(table, last, table', last', now)
    BY <1>2, <2>4, <2>5, RightGrows DEF GeocodingInv
  <2> QED  BY <1>2, <2>4, <2>7, <2>8, TableStepKeeps
<1> QED  BY <1>1, <1>6, <1>7 DEF FindPoint

LEMMA FinishMapKeeps ==
  ASSUME GeocodingInv, NEW c \in Clients, FinishMap(c), now' = now
  PROVE  GeocodingInv'
<1>1. PICK r : r = rq[c]
  OBVIOUS
<1>2. /\ r.pc = "entity" /\ r.pc # "idle" /\ OnMap(c) /\ r.todo = <<>>
      /\ UNCHANGED <<now, table, memory, reversed, last>>
  BY <1>1 DEF FinishMap, At, OnMap
<1>3. /\ RequestGood(r, table, now) /\ OfMap(r) /\ r.ask.op = "points" /\ r.ask \in Asks
      /\ DOMAIN r = RequestFields
  BY <1>1, <1>2, MapRequest
<1>4. PICK f : f = [r EXCEPT !.pc = "answered"]
  OBVIOUS
<1>5. /\ DOMAIN f = RequestFields /\ f.ask = r.ask /\ f.at = r.at /\ f.found = r.found
      /\ f.todo = r.todo /\ f.points = r.points /\ f.unresolved = r.unresolved
      /\ f.pc = "answered"
  BY <1>3, <1>4 DEF RequestFields
<1>6. \A e : Handled(e, r) => Handled(e, f)
  BY <1>5 DEF Handled
<1>7. OfMap(f)
  BY <1>2, <1>3, <1>5, <1>6 DEF OfMap, Upserts
<1>8. RequestGood(f, table, now)
  BY <1>3, <1>5, <1>7 DEF RequestGood
<1> QED  BY <1>1, <1>2, <1>4, <1>8, OnlyRequestKeeps DEF FinishMap

\* Of an upsert, the row is read or the insertion met another's.
LEMMA UpsertMoves ==
  ASSUME GeocodingInv, NEW c \in Clients, rq[c].pc \in Upserts,
         NEW f, DOMAIN f = RequestFields, f.ask = rq[c].ask, f.at = rq[c].at,
         f.found = rq[c].found, f.todo = rq[c].todo, f.points = rq[c].points,
         f.unresolved = rq[c].unresolved, f.pc \in Upserts,
         f.pc = "update" => table[NameOf(rq[c])] # None
  PROVE  RequestGood(f, table, now)
<1>1. PICK r : r = rq[c]
  OBVIOUS
<1>2. /\ RequestGood(r, table, now) /\ r.pc # "idle" /\ r.pc \in Upserts /\ f.pc # "idle"
      /\ NameOf(f) = NameOf(r)
  BY <1>1 DEF GeocodingInv, Requests, Upserts, NameOf
<1>3. CASE OnMap(c)
  <2>1. OfMap(r) /\ r.found \subseteq KnownType /\ r.ask.op = "points"
    BY <1>1, <1>2, <1>3 DEF RequestGood, OnMap
  <2>2. r.todo # <<>> /\ Head(r.todo).label # None
        /\ (Head(r.todo).place = None =>
              \E p \in Places : r.found = {Known(Head(r.todo).label, p)})
    BY <1>2, <2>1 DEF OfMap
  <2>3. f.pc # "waiting"
    BY DEF Upserts
  <2> QED  BY <1>1, <1>2, <2>1, <2>2, <2>3, MapMoves
<1>4. CASE ~ OnMap(c)
  <2>1. OfSearch(r) /\ r.ask.op # "points"
    BY <1>1, <1>2, <1>4 DEF RequestGood, OnMap
  <2>2. OfSearch(f)
    BY <1>1, <1>2, <2>1 DEF OfSearch
  <2> QED  BY <1>1, <1>2, <2>1, <2>2 DEF RequestGood
<1> QED  BY <1>3, <1>4

LEMMA SelectRowKeeps ==
  ASSUME GeocodingInv, NEW c \in Clients, SelectRow(c), now' = now
  PROVE  GeocodingInv'
<1>1. PICK row : row = table[Current(c).name]
  OBVIOUS
<1>2. PICK f : f = [rq[c] EXCEPT !.pc = IF row = None THEN "insert" ELSE "update", !.saw = row]
  OBVIOUS
<1>3. /\ rq[c].pc \in Upserts /\ Set(c, f) /\ UNCHANGED <<now, table, memory, reversed, last>>
  BY <1>1, <1>2 DEF SelectRow, Upserts
<1>4. DOMAIN rq[c] = RequestFields
  BY DEF GeocodingInv, Requests, RequestGood
<1>5. /\ DOMAIN f = RequestFields /\ f.ask = rq[c].ask /\ f.at = rq[c].at
      /\ f.found = rq[c].found /\ f.todo = rq[c].todo /\ f.points = rq[c].points
      /\ f.unresolved = rq[c].unresolved
      /\ f.pc = IF row = None THEN "insert" ELSE "update"
  BY <1>2, <1>4 DEF RequestFields
<1>6. Current(c).name = NameOf(rq[c])
  BY <1>3, CurrentIsKnown
<1>7. f.pc \in Upserts /\ (f.pc = "update" => table[NameOf(rq[c])] # None)
  BY <1>1, <1>5, <1>6 DEF Upserts
<1>8. RequestGood(f, table, now)
  BY <1>3, <1>5, <1>7, UpsertMoves
<1> QED  BY <1>3, <1>8, OnlyRequestKeeps

\* The name is stored with a row: the request goes on.
LEMMA StoredIsGood ==
  ASSUME GeocodingInv, NEW c \in Clients, rq[c].pc \in Upserts, NEW row \in Places
  PROVE  RequestGood(Stored(c, row), table, now)
<1>1. PICK r : r = rq[c]
  OBVIOUS
<1>2. /\ RequestGood(r, table, now) /\ r.pc # "idle" /\ DOMAIN r = RequestFields
      /\ r.ask \in Asks /\ r.found \subseteq KnownType /\ r.points \subseteq PointType
      /\ r.at \in Nat /\ r.at <= now
  BY <1>1 DEF GeocodingInv, Requests, RequestGood, Upserts
<1>3. CASE OnMap(c)
  <2>1. OfMap(r)
    BY <1>1, <1>2, <1>3, MapRequest
  <2>2. r.todo # <<>>
    BY <1>1, <2>1 DEF OfMap
  <2>3. Head(r.todo).place \in Places \cup {None}
    BY <1>1, <1>2, <1>3, <2>2, MapRequest
  <2>4. PICK p \in Places : p = IF Head(r.todo).place # None THEN Head(r.todo).place ELSE row
    BY <2>3
  <2>5. Head(r.todo).place \in {None, p}
    BY <2>4
  <2>6. RequestGood(Placed(c, p), table, now)
    BY <1>1, <1>2, <1>3, <2>2, <2>5, PlacedIsGood
  <2> QED  BY <1>1, <1>3, <2>4, <2>6 DEF Stored
<1>4. CASE ~ OnMap(c)
  <2>1. r.todo \in Seq(KnownType) /\ r.todo # <<>> /\ r.ask.op # "points"
    BY <1>1, <1>2, <1>4 DEF RequestGood, OfSearch, OnMap
  <2>2. CASE Len(r.todo) > 1
    <3>1. PICK f : f = [r EXCEPT !.pc = "select", !.todo = Tail(@)]
      OBVIOUS
    <3>2. /\ DOMAIN f = RequestFields /\ f.ask = r.ask /\ f.at = r.at /\ f.found = r.found
          /\ f.points = r.points /\ f.pc = "select" /\ f.todo = Tail(r.todo)
      BY <1>2, <3>1 DEF RequestFields
    <3>3. Tail(r.todo) \in Seq(KnownType) /\ Len(Tail(r.todo)) = Len(r.todo) - 1
      BY <2>1, HeadTailProperties
    <3>4. Tail(r.todo) # <<>>
      <4>1. Len(Tail(r.todo)) # 0
        <5>1. PICK n \in Nat : n = Len(r.todo) /\ n > 1
          BY <2>1, <2>2
        <5>2. Len(Tail(r.todo)) = n - 1
          BY <3>3, <5>1
        <5>3. n \in Nat /\ n > 1
          BY <5>1
        <5>4. n - 1 # 0
          BY ONLY <5>3
        <5> QED  BY ONLY <5>2, <5>4
      <4>2. Len(<<>>) = 0
        OBVIOUS
      <4> QED  BY ONLY <4>1, <4>2
    <3>5. OfSearch(f)
      BY <3>2, <3>3, <3>4 DEF OfSearch
    <3>6. RequestGood(f, table, now)
      BY <1>2, <2>1, <3>2, <3>5 DEF RequestGood
    <3> QED  BY <1>1, <1>4, <2>2, <3>1, <3>6 DEF Stored
  <2>3. CASE ~ (Len(r.todo) > 1)
    <3>1. RequestGood([Answered(c, r.found) EXCEPT !.todo = <<>>], table, now)
      BY <1>1, <1>2, <1>4, Moved
    <3> QED  BY <1>1, <1>4, <2>3, <3>1 DEF Stored
  <2> QED  BY <2>2, <2>3
<1> QED  BY <1>3, <1>4

LEMMA UpdateRowKeeps ==
  ASSUME GeocodingInv, NEW c \in Clients, UpdateRow(c), now' = now
  PROVE  GeocodingInv'
<1>1. PICK k : k = Current(c)
  OBVIOUS
<1>2. /\ rq[c].pc = "update" /\ rq[c].pc \in Upserts /\ UNCHANGED <<now, memory, reversed>>
  BY DEF UpdateRow, Upserts
<1>3. k \in KnownType /\ k.name = NameOf(rq[c]) /\ k.name \in Names /\ k.place \in Places
  BY <1>1, <1>2, CurrentIsKnown DEF KnownType
<1>4. CASE Write(k.name, k.place) /\ Set(c, Stored(c, k.place))
  <2>1. RequestGood(Stored(c, k.place), table, now)
    BY <1>2, <1>3, StoredIsGood
  <2>2. Tables' /\ GrowsTo(table, last, table', last', now)
    BY <1>3, <1>4, WriteGrows DEF GeocodingInv
  <2> QED  BY <1>2, <1>4, <2>1, <2>2, TableStepKeeps
<1>5. CASE UNCHANGED <<table, last>> /\ Set(c, Stored(c, table[k.name]))
  <2>1. table[NameOf(rq[c])] # None
    BY <1>2 DEF GeocodingInv, Requests, RequestGood
  <2>2. table[k.name] \in Places
    BY <1>3, <2>1 DEF GeocodingInv, Tables
  <2>3. RequestGood(Stored(c, table[k.name]), table, now)
    BY <1>2, <2>2, StoredIsGood
  <2> QED  BY <1>2, <1>5, <2>3, OnlyRequestKeeps
<1> QED  BY <1>1, <1>4, <1>5 DEF UpdateRow

LEMMA InsertRowKeeps ==
  ASSUME GeocodingInv, NEW c \in Clients, InsertRow(c), now' = now
  PROVE  GeocodingInv'
<1>1. PICK k : k = Current(c)
  OBVIOUS
<1>2. /\ rq[c].pc = "insert" /\ rq[c].pc \in Upserts /\ UNCHANGED <<now, memory, reversed>>
      /\ rq[c].pc # "idle"
  BY DEF InsertRow, Upserts
<1>3. k \in KnownType /\ k.name \in Names /\ k.place \in Places
  BY <1>1, <1>2, CurrentIsKnown DEF KnownType
<1>4. CASE Write(k.name, k.place) /\ Set(c, Stored(c, k.place))
  <2>1. RequestGood(Stored(c, k.place), table, now)
    BY <1>2, <1>3, StoredIsGood
  <2>2. Tables' /\ GrowsTo(table, last, table', last', now)
    BY <1>3, <1>4, WriteGrows DEF GeocodingInv
  <2> QED  BY <1>2, <1>4, <2>1, <2>2, TableStepKeeps
<1>5. CASE Conflict(c) /\ UNCHANGED <<table, last>>
  <2>1. CASE Set(c, [rq[c] EXCEPT !.pc = "select"])
    <3>1. PICK f : f = [rq[c] EXCEPT !.pc = "select"]
      OBVIOUS
    <3>2. DOMAIN rq[c] = RequestFields
      BY DEF GeocodingInv, Requests, RequestGood
    <3>3. /\ DOMAIN f = RequestFields /\ f.ask = rq[c].ask /\ f.at = rq[c].at
          /\ f.found = rq[c].found /\ f.todo = rq[c].todo /\ f.points = rq[c].points
          /\ f.unresolved = rq[c].unresolved /\ f.pc = "select" /\ f.pc \in Upserts
      BY <3>1, <3>2 DEF RequestFields, Upserts
    <3>4. RequestGood(f, table, now)
      BY <1>2, <3>3, UpsertMoves
    <3> QED  BY <1>2, <1>5, <2>1, <3>1, <3>4, OnlyRequestKeeps
  <2>2. CASE ~ OnMap(c) /\ Fails(c)
    <3>1. RequestGood([rq[c] EXCEPT !.pc = "failed"], table, now)
      BY <1>2, <2>2, Moved
    <3> QED  BY <1>2, <1>5, <2>2, <3>1, OnlyRequestKeeps DEF Fails
  <2> QED  BY <1>5, <2>1, <2>2 DEF Conflict
<1> QED  BY <1>1, <1>4, <1>5 DEF InsertRow

LEMMA GeocodingNextKeeps ==
  ASSUME GeocodingInv, GeocodingNext, now' = now
  PROVE  GeocodingInv'
<1>1. PICK c \in Clients : (\E ask \in Asks : Begin(c, ask)) \/ GeocodingStep(c)
  BY DEF GeocodingNext
<1>2. CASE \E ask \in Asks : Begin(c, ask)
  BY <1>2, BeginKeeps
<1>3. CASE LookExact(c) \/ RecallSuggestions(c) \/ LookPrefix(c) \/ RecallPlace(c)
  BY <1>3, LookExactKeeps, RecallSuggestionsKeeps, LookPrefixKeeps, RecallPlaceKeeps
<1>4. CASE Refuse(c) \/ FindNothing(c) \/ FindPlace(c) \/ FindSuggestions(c) \/ FindName(c)
  BY <1>4, RefuseKeeps, FindNothingKeeps, FindPlaceKeeps, FindSuggestionsKeeps, FindNameKeeps
<1>5. CASE NextEntity(c) \/ FindPoint(c) \/ FinishMap(c)
  BY <1>5, NextEntityKeeps, FindPointKeeps, FinishMapKeeps
<1>6. CASE SelectRow(c) \/ UpdateRow(c) \/ InsertRow(c) \/ Leave(c)
  BY <1>6, SelectRowKeeps, UpdateRowKeeps, InsertRowKeeps, LeaveKeeps
<1> QED  BY <1>1, <1>2, <1>3, <1>4, <1>5, <1>6 DEF GeocodingStep

\* Time passes, or others do something.
LEMMA GeocodingWaits ==
  ASSUME GeocodingInv, UNCHANGED geocodingVars, now' \in 0 .. MaxTime, now <= now'
  PROVE  GeocodingInv'
<1>1. UNCHANGED <<table, memory, reversed, rq, last>>
  BY DEF geocodingVars
<1>2. now \in Nat /\ now' \in Nat /\ Clock'
  BY DEF GeocodingInv, Clock
<1>3. GrowsTo(table, last, table', last', now)
  BY <1>1, SameGrows
<1>4. Tables' /\ Memories'
  <2>1. Tables'
    BY <1>1 DEF GeocodingInv, Tables
  <2> QED  BY <1>1, <1>2, <1>3, <2>1, MemoriesStay DEF GeocodingInv
<1>5. Requests'
  <2>1. ASSUME NEW c \in Clients  PROVE RequestGood(rq[c], table, now')
    <3>1. RequestGood(rq[c], table, now) /\ \A n \in Names : table[n] # None => table[n] # None
      BY DEF GeocodingInv, Requests
    <3> QED  BY <1>2, <3>1, RequestStays
  <2> QED  BY <1>1, <2>1 DEF GeocodingInv, Requests
<1> QED  BY <1>2, <1>4, <1>5 DEF GeocodingInv

LEMMA GeocodingInitInv == Init => GeocodingInv
<1> SUFFICES ASSUME Init  PROVE GeocodingInv
  OBVIOUS
<1>1. now = 0 /\ GeocodingInit /\ MaxTime \in Nat
  BY GeocodingAssumption DEF Init
<1>2. Clock /\ Tables
  BY <1>1 DEF GeocodingInit, Clock, Tables
<1>3. Memories
  BY <1>1 DEF GeocodingInit, Memories, Remembered
<1>4. RequestGood(Idle, table, now)
  <2>1. /\ DOMAIN Idle = RequestFields /\ Idle.pc = "idle" /\ Idle.at = 0
        /\ Idle.found = {} /\ Idle.points = {}
    BY DEF Idle, RequestFields
  <2> QED  BY <1>1, <2>1 DEF RequestGood
<1>5. Requests
  <2>1. rq = [c \in Clients |-> Idle]
    BY <1>1 DEF GeocodingInit
  <2> QED  BY <1>4, <2>1 DEF Requests
<1> QED  BY <1>2, <1>3, <1>5 DEF GeocodingInv

LEMMA GeocodingInvMap == GeocodingInv => MapIsAnswered
<1> SUFFICES ASSUME GeocodingInv, NEW c \in Clients,
                    rq[c].pc \in {"answered", "failed"}, OnMap(c)
             PROVE  /\ rq[c].pc = "answered"
                    /\ \A e \in Range(rq[c].ask.arg) :
                         /\ e.place # None => Point(e, e.place) \in rq[c].points
                         /\ e.label # None => \/ \E p \in rq[c].points : p.entity = e
                                              \/ e.label \in rq[c].unresolved
  BY DEF MapIsAnswered
<1>1. OfMap(rq[c])
  BY MapRequest
<1>2. rq[c].pc = "answered"
  BY <1>1 DEF OfMap, Upserts
<1>3. rq[c].todo = <<>>
  BY <1>1, <1>2 DEF OfMap
<1>4. Range(rq[c].todo) = {}
  BY <1>3 DEF Range
<1> QED  BY <1>1, <1>2, <1>4 DEF OfMap, Handled

LEMMA GeocodingInvRecent == GeocodingInv => GeocodingTypeOK /\ SuggestionsAreRecent
<1> SUFFICES ASSUME GeocodingInv  PROVE GeocodingTypeOK /\ SuggestionsAreRecent
  OBVIOUS
<1>1. now \in Nat /\ MemoryTtl \in Nat /\ None \notin Nat
  BY GeocodingAssumption DEF GeocodingInv, Clock
<1>2. \A n \in Names : memory[n] # None =>
        /\ memory[n].at \in Nat /\ memory[n].list \in SUBSET KnownType
        /\ memory[n].at <= now
        /\ \A k \in memory[n].list : RightFor(k, memory[n].at, table, last)
  BY DEF GeocodingInv, Memories, Remembered
<1>3. GeocodingTypeOK
  <2>1. table \in [Names -> Places \cup {None}]
    BY DEF GeocodingInv, Tables
  <2>2. \A n \in Names : memory[n] # None =>
          /\ memory[n].at \in 0 .. now
          /\ memory[n].list \subseteq [name : Names, place : Places]
    BY <1>1, <1>2 DEF KnownType
  <2>3. \A p \in Places : reversed[p] # None => reversed[p].at \in 0 .. now
    BY <1>1 DEF GeocodingInv, Memories
  <2>4. \A c \in Clients : rq[c].points \subseteq [entity : EntityType, place : Places]
    BY DEF GeocodingInv, Requests, RequestGood, PointType
  <2> QED  BY <2>1, <2>2, <2>3, <2>4 DEF GeocodingTypeOK
<1>4. SuggestionsAreRecent
  <2> SUFFICES ASSUME NEW n \in Names, Fresh(memory[n]), NEW k \in memory[n].list,
                      table[k.name] # k.place
               PROVE  /\ last[k.name][k.place] # None
                      /\ now - last[k.name][k.place] < MemoryTtl
    BY DEF SuggestionsAreRecent
  <2>1. /\ memory[n].at \in Nat /\ now - memory[n].at < MemoryTtl
        /\ k \in KnownType /\ RightFor(k, memory[n].at, table, last)
    BY <1>2 DEF Fresh
  <2>2. last[k.name][k.place] # None /\ last[k.name][k.place] >= memory[n].at
    BY <2>1 DEF RightFor
  <2>3. last[k.name][k.place] \in Nat
    BY <2>1, <2>2 DEF GeocodingInv, Tables, KnownType
  <2> QED  BY <1>1, <2>1, <2>2, <2>3
<1> QED  BY <1>3, <1>4

-----------------------------------------------------------------------------
(***************************************************************************)
(* Networks, the weather and popularity.                                   *)
(***************************************************************************)
PresenceType == [facility : Facilities, network : Networks, distance : Nat]

LookupFields == {"pc", "ask", "at", "todo", "presences", "named", "answer", "failed",
                 "origin", "warned"}

\* Presences as a lookup from that spot may tell of them.
Near(spot, rows) ==
  \A r \in rows : r.distance = Distance[spot][r.facility] /\ r.distance <= Radius

OfNearby(l) ==
  /\ Near(l.ask.spot, l.presences)
  /\ l.pc \in {"networks", "ask networks"} =>
       /\ l.todo \in Seq(Facilities) /\ l.todo # <<>>
       /\ \A i \in DOMAIN l.todo : Distance[l.ask.spot][l.todo[i]] <= Radius
  /\ l.pc = "answered" /\ ~ l.failed => Near(l.ask.spot, l.answer)

OfWeather(l) ==
  /\ l.pc \in {"ask weather", "answered"}
  /\ l.pc = "answered" /\ l.failed => l.origin # "cache"

\* v was the popularity at that time or has been since, when it is n now and
\* has changed at the times of list.
RightSince(v, time, n, list) == v \in 0 .. n /\ (v = n \/ list[v + 1] >= time)

OfPopularity(l, n, list) ==
  /\ l.pc \in {"ask page", "answered"}
  /\ l.pc = "ask page" => RightSince(l.answer, l.at, n, list)
  /\ l.pc = "answered" /\ l.origin = "cache" =>
       PopularityTtl >= 1 /\ RightSince(l.answer, (l.at - PopularityTtl) + 1, n, list)

\* A lookup as it may stand.
LookupGood(l, n, list, time) ==
  /\ DOMAIN l = LookupFields
  /\ l.at \in Nat /\ l.at <= time
  /\ l.presences \subseteq PresenceType
  /\ l.warned => l.pc = "answered"
  /\ l.pc # "idle" =>
       /\ l.ask \in NearbyAsks \cup WeatherAsks \cup VoteAsks
       /\ l.ask.op = "nearby" => OfNearby(l)
       /\ l.ask.op = "weather" => OfWeather(l)
       /\ l.ask.op = "popularity" => OfPopularity(l, n, list)

\* Who was refused waits in full.
Cooling ==
  /\ coolUntil \in [Procs -> 0 .. MaxTime + NearbyCooldown]
  /\ coolSince \in [Procs -> Nat \cup {None}]
  /\ \A p \in Procs : coolSince[p] # None => coolUntil[p] >= coolSince[p] + NearbyCooldown

KeptThings ==
  /\ facilityCache \in [Procs -> [until : Nat, value : Listings] \cup {None}]
  /\ netfacCache \in [Procs -> [Facilities ->
                        [until : Nat, value : SUBSET PresenceType] \cup {None}]]
  /\ DOMAIN weatherCache = Hours
  /\ \A h \in Hours : weatherCache[h] # None => weatherCache[h].failed = FALSE

VotesCounted ==
  /\ votes \in Nat /\ votedAt \in Seq(Nat) /\ Len(votedAt) = votes
  /\ popularity.votes # None =>
       /\ popularity.at \in Nat /\ popularity.at <= now
       /\ RightSince(popularity.votes, popularity.at, votes, votedAt)

LookupsGood ==
  /\ DOMAIN lk = Clients
  /\ \A c \in Clients : LookupGood(lk[c], votes, votedAt, now)

LookupsInv == Clock /\ Cooling /\ KeptThings /\ VotesCounted /\ LookupsGood

LEMMA MaxOfTwo ==
  ASSUME NEW a \in Int, NEW b \in Int
  PROVE  Max({a, b}) \in {a, b} /\ Max({a, b}) >= a /\ Max({a, b}) >= b
<1>1. \E x \in {a, b} : \A y \in {a, b} : x >= y
  BY DEF Max
<1> QED  BY <1>1 DEF Max

LEMMA MinOfTwo ==
  ASSUME NEW a \in Int, NEW b \in Int
  PROVE  Min({a, b}) \in {a, b}
<1>1. \E x \in {a, b} : \A y \in {a, b} : x =< y
  OBVIOUS
<1> QED  BY <1>1 DEF Min

LEMMA LookupAskShape ==
  ASSUME NEW ask \in NearbyAsks \cup WeatherAsks \cup VoteAsks
  PROVE  /\ ask.op \in {"nearby", "weather", "popularity"}
         /\ ask.op = "nearby" => ask.proc \in Procs /\ ask.spot \in Spots
BY DEF NearbyAsks, WeatherAsks, VoteAsks

LEMMA LookupTypes ==
  ASSUME LookupsInv
  PROVE  /\ now \in Nat /\ now <= MaxTime /\ MaxTime \in Nat /\ NearbyCooldown \in Nat
         /\ NearbyTtl \in Nat /\ PopularityTtl \in Nat /\ Radius \in Nat
         /\ MaxFacilities \in Nat /\ None \notin Nat
BY GeocodingAssumption, LookupsAssumption DEF LookupsInv, Clock

\* One lookup takes a step.
LEMMA LookupsKeep ==
  ASSUME LookupsInv, NEW c \in Clients, UNCHANGED <<now, votes, votedAt>>,
         NEW f, Put(c, f), LookupGood(f, votes, votedAt, now)
  PROVE  LookupsGood'
<1>1. DOMAIN lk = Clients /\ \A d \in Clients : LookupGood(lk[d], votes, votedAt, now)
  BY DEF LookupsInv, LookupsGood
<1>2. lk' = [lk EXCEPT ![c] = f]
  BY DEF Put
<1>3. ASSUME NEW d \in Clients  PROVE LookupGood(lk'[d], votes, votedAt, now)
  <2>1. CASE d = c
    <3>1. lk'[d] = f
      BY <1>1, <1>2, <2>1
    <3> QED  BY <3>1
  <2>2. CASE d # c
    <3>1. lk'[d] = lk[d]
      BY <1>1, <1>2, <2>2
    <3> QED  BY <1>1, <3>1
  <2> QED  BY <2>1, <2>2
<1>4. DOMAIN lk' = Clients
  BY <1>1, <1>2
<1> QED  BY <1>3, <1>4 DEF LookupsGood

\* A step that changes only where one lookup stands.
LEMMA OnlyLookupKeeps ==
  ASSUME LookupsInv, NEW c \in Clients,
         UNCHANGED <<now, votes, votedAt, nearbyVars, weatherCache, popularity>>,
         NEW f, Put(c, f), LookupGood(f, votes, votedAt, now)
  PROVE  LookupsInv'
<1>1. LookupsGood'
  BY LookupsKeep
<1>2. UNCHANGED <<facilityCache, netfacCache, coolUntil, coolSince>>
  BY DEF nearbyVars
<1>3. Clock' /\ Cooling' /\ KeptThings' /\ VotesCounted'
  BY <1>2 DEF LookupsInv, Clock, Cooling, KeptThings, VotesCounted
<1> QED  BY <1>1, <1>3 DEF LookupsInv

\* A lookup of networks that is under way.
NearbySteps == {"facilities", "ask facilities", "networks", "ask networks", "names", "ask name"}

LEMMA NearbyLookup ==
  ASSUME LookupsInv, NEW c \in Clients, lk[c].pc \in NearbySteps
  PROVE  /\ LookupGood(lk[c], votes, votedAt, now) /\ lk[c].ask.op = "nearby"
         /\ DOMAIN lk[c] = LookupFields /\ OfNearby(lk[c]) /\ Proc(c) \in Procs
         /\ lk[c].ask.proc \in Procs /\ lk[c].ask.spot \in Spots
         /\ ~ lk[c].warned /\ lk[c].presences \subseteq PresenceType
<1>1. LookupGood(lk[c], votes, votedAt, now)
  BY DEF LookupsInv, LookupsGood
<1>2. /\ lk[c].pc # "idle" /\ lk[c].pc # "answered"
      /\ lk[c].pc \notin {"ask weather", "ask page"}
  BY DEF NearbySteps
<1>3. lk[c].ask \in NearbyAsks \cup WeatherAsks \cup VoteAsks
  BY <1>1, <1>2 DEF LookupGood
<1>4. lk[c].ask.op = "nearby"
  BY <1>1, <1>2, <1>3, LookupAskShape DEF LookupGood, OfWeather, OfPopularity
<1>5. lk[c].ask.proc \in Procs /\ lk[c].ask.spot \in Spots
  BY <1>3, <1>4, LookupAskShape
<1>6. OfNearby(lk[c]) /\ DOMAIN lk[c] = LookupFields /\ lk[c].presences \subseteq PresenceType
      /\ ~ lk[c].warned
  BY <1>1, <1>2, <1>4 DEF LookupGood
<1> QED  BY <1>1, <1>4, <1>5, <1>6 DEF Proc

\* What it may become.
LEMMA NearbyMoves ==
  ASSUME LookupsInv, NEW c \in Clients, lk[c].pc \in NearbySteps,
         NEW f, DOMAIN f = LookupFields, f.ask = lk[c].ask, f.at = lk[c].at,
         f.warned = lk[c].warned, f.presences \subseteq PresenceType, OfNearby(f)
  PROVE  LookupGood(f, votes, votedAt, now)
<1>1. PICK l : l = lk[c]
  OBVIOUS
<1>2. LookupGood(l, votes, votedAt, now) /\ l.ask.op = "nearby" /\ ~ l.warned /\ l.pc # "idle"
  BY <1>1, NearbyLookup DEF NearbySteps
<1>3. f.ask \in NearbyAsks \cup WeatherAsks \cup VoteAsks /\ f.at \in Nat /\ f.at <= now
      /\ ~ f.warned /\ f.ask.op = "nearby"
  BY <1>1, <1>2 DEF LookupGood
<1> QED  BY <1>3 DEF LookupGood

LEMMA ToLookIntoIsNear ==
  ASSUME NEW spot \in Spots, NEW fs \in Listings, NEW todo \in ToLookInto(spot, fs)
  PROVE  todo \in Seq(Facilities) /\ \A i \in DOMAIN todo : Distance[spot][todo[i]] <= Radius
<1>1. PICK near : near = {f \in fs : Distance[spot][f] <= Radius}
  OBVIOUS
<1>2. IsFiniteSet(near) /\ near \subseteq Facilities /\ MaxFacilities \in Nat
  <2>1. IsFiniteSet(fs) /\ fs \subseteq Facilities /\ MaxFacilities \in Nat
    BY LookupsAssumption
  <2>2. near \in SUBSET fs
    BY <1>1
  <2> QED  BY <2>1, <2>2, FS_Subset
<1>3. Cardinality(near) \in Nat
  BY <1>2, FS_CardinalityType
<1>4. PICK n \in Nat : n = Min({MaxFacilities, Cardinality(near)})
  <2>1. Min({MaxFacilities, Cardinality(near)}) \in {MaxFacilities, Cardinality(near)}
    BY <1>2, <1>3, MinOfTwo
  <2> QED  BY <1>2, <1>3, <2>1
<1>5. todo \in [1..n -> near]
  BY <1>1, <1>4 DEF ToLookInto
<1>6. DOMAIN todo = 1..n /\ \A i \in 1..n : todo[i] \in near
  BY <1>5
<1>7. todo \in Seq(Facilities)
  <2>1. todo \in [1..n -> Facilities]
    BY <1>2, <1>5
  <2>2. n \in Nat
    OBVIOUS
  <2> QED  BY ONLY <2>1, <2>2
<1>8. \A g \in near : Distance[spot][g] <= Radius
  BY <1>1
<1>9. \A i \in DOMAIN todo : Distance[spot][todo[i]] <= Radius
  BY ONLY <1>6, <1>8
<1> QED  BY <1>7, <1>9

LEMMA LookIntoGood ==
  ASSUME LookupsInv, NEW c \in Clients, lk[c].pc \in NearbySteps, NEW fs \in Listings,
         LookInto(c, fs)
  PROVE  \E f : Put(c, f) /\ LookupGood(f, votes, votedAt, now)
<1>1. PICK l : l = lk[c]
  OBVIOUS
<1>2. /\ OfNearby(l) /\ DOMAIN l = LookupFields /\ l.ask.spot \in Spots
      /\ l.presences \subseteq PresenceType
  BY <1>1, NearbyLookup
<1>3. PICK todo \in ToLookInto(l.ask.spot, fs) :
        Put(c, IF todo = <<>> THEN Reply(c, {}, "upstream")
               ELSE [l EXCEPT !.pc = "networks", !.todo = todo])
  BY <1>1 DEF LookInto
<1>4. /\ todo \in Seq(Facilities)
      /\ \A i \in DOMAIN todo : Distance[l.ask.spot][todo[i]] <= Radius
  BY <1>2, ToLookIntoIsNear
<1>5. CASE todo = <<>>
  <2>1. PICK f : f = [l EXCEPT !.pc = "answered", !.answer = {}, !.origin = "upstream"]
    OBVIOUS
  <2>2. Put(c, f)
    BY <1>1, <1>3, <1>5, <2>1 DEF Reply
  <2>3. /\ DOMAIN f = LookupFields /\ f.ask = l.ask /\ f.at = l.at /\ f.warned = l.warned
        /\ f.presences = l.presences /\ f.pc = "answered" /\ f.answer = {}
    BY <1>2, <2>1 DEF LookupFields
  <2>4. OfNearby(f)
    BY <1>2, <2>3 DEF OfNearby, Near
  <2>5. LookupGood(f, votes, votedAt, now)
    BY <1>1, <1>2, <2>3, <2>4, NearbyMoves
  <2> QED  BY <2>2, <2>5
<1>6. CASE todo # <<>>
  <2>1. PICK f : f = [l EXCEPT !.pc = "networks", !.todo = todo]
    OBVIOUS
  <2>2. Put(c, f)
    BY <1>3, <1>6, <2>1
  <2>3. /\ DOMAIN f = LookupFields /\ f.ask = l.ask /\ f.at = l.at /\ f.warned = l.warned
        /\ f.presences = l.presences /\ f.pc = "networks" /\ f.todo = todo
    BY <1>2, <2>1 DEF LookupFields
  <2>4. OfNearby(f)
    BY <1>2, <1>4, <1>6, <2>3 DEF OfNearby
  <2>5. LookupGood(f, votes, votedAt, now)
    BY <1>1, <1>2, <2>3, <2>4, NearbyMoves
  <2> QED  BY <2>2, <2>5
<1> QED  BY <1>5, <1>6

\* More than half a second does not round to nothing.
LEMMA MoreThanHalfASecond ==
  ASSUME NEW halves \in Int, halves > 1
  PROVE  Rounded(halves) \in Int /\ Rounded(halves) > 0
BY DEF Rounded

\* Some lookup begins, and what its process must not know is forgotten.
LEMMA BeginNearbyKeeps ==
  ASSUME LookupsInv, NEW c \in Clients, NEW ask \in NearbyAsks, BeginNearby(c, ask),
         UNCHANGED <<now, votes, votedAt>>
  PROVE  LookupsInv'
<1>1. PICK p \in Procs : p = ask.proc
  BY DEF NearbyAsks
<1>2. PICK warned : warned =
        (p = "api" /\ coolSince[p] # None /\ now + 1 < coolSince[p] + NearbyCooldown)
  OBVIOUS
<1>3. PICK begun : begun = [NoLookup EXCEPT !.ask = ask, !.at = now, !.warned = warned]
  OBVIOUS
<1>4. ask \in NearbyAsks \cup WeatherAsks \cup VoteAsks /\ ask.op = "nearby"
  BY DEF NearbyAsks
<1>5. /\ now \in Nat /\ now <= MaxTime /\ NearbyCooldown \in Nat /\ MaxTime \in Nat
      /\ None \notin Nat
  BY LookupTypes
<1>6. \E f : Put(c, f) /\ LookupGood(f, votes, votedAt, now)
  <2>1. CASE Put(c, [begun EXCEPT !.pc = "answered", !.failed = TRUE, !.origin = "cool-down"])
    <3>1. PICK f : f = [begun EXCEPT !.pc = "answered", !.failed = TRUE, !.origin = "cool-down"]
      OBVIOUS
    <3>2. /\ DOMAIN f = LookupFields /\ f.ask = ask /\ f.at = now /\ f.presences = {}
          /\ f.pc = "answered" /\ f.failed = TRUE
      BY <1>3, <3>1 DEF NoLookup, LookupFields
    <3>3. OfNearby(f)
      BY <3>2 DEF OfNearby, Near
    <3>4. LookupGood(f, votes, votedAt, now)
      BY <1>4, <1>5, <3>2, <3>3 DEF LookupGood
    <3> QED  BY <2>1, <3>1, <3>4
  <2>2. CASE (p = "api" => CoolingFor(p) = 0) /\ Put(c, [begun EXCEPT !.pc = "facilities"])
    <3>1. PICK f : f = [begun EXCEPT !.pc = "facilities"]
      OBVIOUS
    <3>2. /\ DOMAIN f = LookupFields /\ f.ask = ask /\ f.at = now /\ f.presences = {}
          /\ f.pc = "facilities" /\ f.warned = warned
      BY <1>3, <3>1 DEF NoLookup, LookupFields
    <3>3. ~ warned
      <4> SUFFICES ASSUME p = "api", coolSince[p] # None,
                          now + 1 < coolSince[p] + NearbyCooldown
                   PROVE  FALSE
        BY <1>2
      <4>1. PICK u \in Nat : u = coolUntil[p]
        BY <1>5 DEF LookupsInv, Cooling
      <4>2. PICK since \in Nat : since = coolSince[p]
        BY DEF LookupsInv, Cooling
      <4>3. u >= since + NearbyCooldown
        BY <4>1, <4>2 DEF LookupsInv, Cooling
      <4>8. PICK rest \in Int : rest = u - now /\ rest > 1
        BY <1>5, <4>2, <4>3
      <4>4. PICK m \in Int : m = Rounded(rest) /\ m > 0
        BY <4>8, MoreThanHalfASecond
      <4>5. 0 \in Int /\ m \in Int
        OBVIOUS
      <4>6. Max({0, m}) >= m /\ Max({0, m}) \in {0, m}
        BY ONLY <4>5, MaxOfTwo
      <4>7. Max({0, m}) = 0
        BY <2>2, <4>1, <4>4, <4>8 DEF CoolingFor
      <4> QED  BY <4>4, <4>6, <4>7
    <3>4. OfNearby(f)
      BY <3>2 DEF OfNearby, Near
    <3>5. LookupGood(f, votes, votedAt, now)
      BY <1>4, <1>5, <3>2, <3>3, <3>4 DEF LookupGood
    <3> QED  BY <2>2, <3>1, <3>5
  <2> QED  BY <1>1, <1>2, <1>3, <2>1, <2>2 DEF BeginNearby
<1>7. LookupsGood'
  BY <1>6, LookupsKeep
<1>8. UNCHANGED <<weatherCache, popularity>>
  BY DEF BeginNearby
<1>9. Clock' /\ VotesCounted'
  BY <1>8 DEF LookupsInv, Clock, VotesCounted
<1>10. CASE p = "job"
  <2>1. /\ facilityCache' = [facilityCache EXCEPT ![p] = None]
        /\ netfacCache' = [netfacCache EXCEPT ![p] = [f \in Facilities |-> None]]
        /\ coolUntil' = [coolUntil EXCEPT ![p] = 0] /\ coolSince' = [coolSince EXCEPT ![p] = None]
    BY <1>1, <1>10 DEF BeginNearby
  <2>2. Cooling'
    <3>1. coolUntil \in [Procs -> 0 .. MaxTime + NearbyCooldown]
          /\ coolSince \in [Procs -> Nat \cup {None}]
      BY DEF LookupsInv, Cooling
    <3>2. coolUntil' \in [Procs -> 0 .. MaxTime + NearbyCooldown]
          /\ coolSince' \in [Procs -> Nat \cup {None}]
      BY <1>5, <2>1, <3>1
    <3>3. ASSUME NEW q \in Procs, coolSince'[q] # None
          PROVE  coolUntil'[q] >= coolSince'[q] + NearbyCooldown
      <4>1. q # p
        BY <2>1, <3>1, <3>3
      <4>2. coolUntil'[q] = coolUntil[q] /\ coolSince'[q] = coolSince[q]
        BY <2>1, <3>1, <4>1
      <4> QED  BY <3>3, <4>2 DEF LookupsInv, Cooling
    <3> QED  BY <3>2, <3>3 DEF Cooling
  <2>3. KeptThings'
    BY <1>8, <2>1 DEF LookupsInv, KeptThings
  <2> QED  BY <1>7, <1>9, <2>2, <2>3 DEF LookupsInv
<1>11. CASE p # "job"
  <2>1. UNCHANGED <<facilityCache, netfacCache, coolUntil, coolSince>>
    BY <1>1, <1>11 DEF BeginNearby, nearbyVars
  <2>2. Cooling' /\ KeptThings'
    BY <1>8, <2>1 DEF LookupsInv, Cooling, KeptThings
  <2> QED  BY <1>7, <1>9, <2>2 DEF LookupsInv
<1> QED  BY <1>10, <1>11

LEMMA RecallFacilitiesKeeps ==
  ASSUME LookupsInv, NEW c \in Clients, RecallFacilities(c), UNCHANGED <<now, votes, votedAt>>
  PROVE  LookupsInv'
<1>1. /\ lk[c].pc = "facilities" /\ lk[c].pc \in NearbySteps
      /\ UNCHANGED <<nearbyVars, weatherCache, popularity>>
  BY DEF RecallFacilities, Stands, NearbySteps
<1>2. Proc(c) \in Procs
  BY <1>1, NearbyLookup
<1>3. \E f : Put(c, f) /\ LookupGood(f, votes, votedAt, now)
  <2>1. CASE Kept(facilityCache[Proc(c)]) /\ LookInto(c, facilityCache[Proc(c)].value)
    <3>1. facilityCache[Proc(c)].value \in Listings
      BY <1>2, <2>1 DEF LookupsInv, KeptThings, Kept
    <3> QED  BY <1>1, <2>1, <3>1, LookIntoGood
  <2>2. CASE Put(c, [lk[c] EXCEPT !.pc = "ask facilities"])
    <3>1. PICK l : l = lk[c]
      OBVIOUS
    <3>2. PICK f : f = [l EXCEPT !.pc = "ask facilities"]
      OBVIOUS
    <3>3. DOMAIN l = LookupFields /\ OfNearby(l) /\ l.presences \subseteq PresenceType
      BY <1>1, <3>1, NearbyLookup
    <3>4. /\ DOMAIN f = LookupFields /\ f.ask = l.ask /\ f.at = l.at /\ f.warned = l.warned
          /\ f.presences = l.presences /\ f.pc = "ask facilities"
      BY <3>2, <3>3 DEF LookupFields
    <3>5. OfNearby(f)
      BY <3>3, <3>4 DEF OfNearby
    <3>6. LookupGood(f, votes, votedAt, now)
      BY <1>1, <3>1, <3>3, <3>4, <3>5, NearbyMoves
    <3> QED  BY <2>2, <3>1, <3>2, <3>6
  <2> QED  BY <2>1, <2>2 DEF RecallFacilities
<1> QED  BY <1>1, <1>3, OnlyLookupKeeps

LEMMA GetFacilitiesKeeps ==
  ASSUME LookupsInv, NEW c \in Clients, GetFacilities(c), UNCHANGED <<now, votes, votedAt>>
  PROVE  LookupsInv'
<1>1. /\ lk[c].pc \in NearbySteps
      /\ UNCHANGED <<netfacCache, coolUntil, coolSince, weatherCache, popularity>>
  BY DEF GetFacilities, Stands, NearbySteps
<1>2. Proc(c) \in Procs
  BY <1>1, NearbyLookup
<1>3. PICK fs \in Listings :
        facilityCache' = [facilityCache EXCEPT ![Proc(c)] = Keep(fs)] /\ LookInto(c, fs)
  BY DEF GetFacilities
<1>4. \E f : Put(c, f) /\ LookupGood(f, votes, votedAt, now)
  BY <1>1, <1>3, LookIntoGood
<1>5. LookupsGood'
  BY <1>4, LookupsKeep
<1>6. Clock' /\ VotesCounted' /\ Cooling'
  BY <1>1 DEF LookupsInv, Clock, VotesCounted, Cooling
<1>7. KeptThings'
  <2>1. Keep(fs) \in [until : Nat, value : Listings]
    BY LookupTypes DEF Keep
  <2> QED  BY <1>1, <1>2, <1>3, <2>1 DEF LookupsInv, KeptThings
<1> QED  BY <1>5, <1>6, <1>7 DEF LookupsInv

\* One facility has been looked into.
LEMMA SeenGood ==
  ASSUME LookupsInv, NEW c \in Clients, lk[c].pc \in {"networks", "ask networks"},
         NEW rows \in SUBSET PresenceType, Near(lk[c].ask.spot, rows)
  PROVE  LookupGood(Seen(c, rows), votes, votedAt, now)
<1>1. PICK l : l = lk[c]
  OBVIOUS
<1>2. lk[c].pc \in NearbySteps
  BY DEF NearbySteps
<1>3. /\ DOMAIN l = LookupFields /\ OfNearby(l) /\ l.presences \subseteq PresenceType
  BY <1>1, <1>2, NearbyLookup
<1>4. /\ l.todo \in Seq(Facilities) /\ l.todo # <<>>
      /\ \A i \in DOMAIN l.todo : Distance[l.ask.spot][l.todo[i]] <= Radius
      /\ Near(l.ask.spot, l.presences \cup rows) /\ l.presences \cup rows \subseteq PresenceType
  BY <1>1, <1>3 DEF OfNearby, Near
<1>5. PICK names : names = SubSeq(SetToSortSeq({r.network : r \in lk[c].presences \cup rows}, <), 1,
                             Min({MaxNames, Len(SetToSortSeq({r.network : r \in lk[c].presences \cup rows}, <))}))
  OBVIOUS
<1>6. CASE Len(l.todo) > 1
  <2>1. PICK f : f = [l EXCEPT !.pc = "networks", !.todo = Tail(@), !.presences = l.presences \cup rows]
    OBVIOUS
  <2>2. /\ DOMAIN f = LookupFields /\ f.ask = l.ask /\ f.at = l.at /\ f.warned = l.warned
        /\ f.presences = l.presences \cup rows /\ f.pc = "networks" /\ f.todo = Tail(l.todo)
    BY <1>3, <2>1 DEF LookupFields
  <2>3. /\ Tail(l.todo) \in Seq(Facilities) /\ Len(Tail(l.todo)) = Len(l.todo) - 1
        /\ \A i \in 1 .. Len(Tail(l.todo)) : Tail(l.todo)[i] = l.todo[i + 1]
    BY <1>4, HeadTailProperties
  <2>4. Len(l.todo) \in Nat /\ DOMAIN l.todo = 1 .. Len(l.todo)
    <3>1. l.todo \in Seq(Facilities)
      BY <1>4
    <3> QED  BY ONLY <3>1, LenProperties
  <2>5. PICK n \in Nat : n = Len(l.todo)
    BY ONLY <2>4
  <2>6. DOMAIN Tail(l.todo) = 1 .. n - 1 /\ DOMAIN l.todo = 1 .. n /\ n > 1
        /\ Len(Tail(l.todo)) = n - 1 /\ n \in Nat
    <3>1. Tail(l.todo) \in Seq(Facilities)
      BY <2>3
    <3>2. DOMAIN Tail(l.todo) = 1 .. Len(Tail(l.todo))
      BY ONLY <3>1, LenProperties
    <3>3. Len(Tail(l.todo)) = n - 1
      BY <2>3, <2>5
    <3> QED  BY ONLY <1>6, <2>4, <2>5, <3>2, <3>3, n \in Nat
  <2>7. Tail(l.todo) # <<>>
    <3>1. Len(Tail(l.todo)) = n - 1 /\ n \in Nat /\ n > 1
      BY <2>6
    <3>2. n - 1 # 0
      BY ONLY <3>1
    <3>3. Len(<<>>) = 0
      OBVIOUS
    <3>4. Len(Tail(l.todo)) # 0
      BY ONLY <3>1, <3>2
    <3> QED  BY ONLY <3>3, <3>4
  <2>8. \A i \in DOMAIN Tail(l.todo) : Distance[l.ask.spot][Tail(l.todo)[i]] <= Radius
    <3> SUFFICES ASSUME NEW i \in 1 .. n - 1
                 PROVE  Distance[l.ask.spot][Tail(l.todo)[i]] <= Radius
      BY <2>6
    <3>1. i + 1 \in DOMAIN l.todo /\ i \in 1 .. Len(Tail(l.todo))
      <4>1. i \in 1 .. n - 1
        OBVIOUS
      <4> QED  BY ONLY <2>6, <4>1
    <3>2. Tail(l.todo)[i] = l.todo[i + 1]
      BY <2>3, <3>1
    <3>3. Distance[l.ask.spot][l.todo[i + 1]] <= Radius
      BY <1>4, <3>1
    <3> QED  BY ONLY <3>2, <3>3
  <2>9. OfNearby(f)
    BY <1>4, <2>2, <2>3, <2>7, <2>8 DEF OfNearby
  <2>10. LookupGood(f, votes, votedAt, now)
    BY <1>1, <1>2, <1>4, <2>2, <2>9, NearbyMoves
  <2> QED  BY <1>1, <1>6, <2>1, <2>10 DEF Seen
<1>7. CASE ~ (Len(l.todo) > 1)
  <2>1. PICK f : f = [l EXCEPT !.pc = "names", !.presences = l.presences \cup rows, !.todo = names]
    OBVIOUS
  <2>2. /\ DOMAIN f = LookupFields /\ f.ask = l.ask /\ f.at = l.at /\ f.warned = l.warned
        /\ f.presences = l.presences \cup rows /\ f.pc = "names"
    BY <1>3, <2>1 DEF LookupFields
  <2>3. OfNearby(f)
    BY <1>4, <2>2 DEF OfNearby
  <2>4. LookupGood(f, votes, votedAt, now)
    BY <1>1, <1>2, <1>4, <2>2, <2>3, NearbyMoves
  <2>5. Seen(c, rows) = f
    BY <1>1, <1>5, <1>7, <2>1 DEF Seen
  <2> QED  BY <2>4, <2>5
<1> QED  BY <1>6, <1>7

\* A facility that is looked into is near.
LEMMA HeadIsNear ==
  ASSUME LookupsInv, NEW c \in Clients, lk[c].pc \in {"networks", "ask networks"}
  PROVE  /\ Head(lk[c].todo) \in Facilities /\ lk[c].ask.spot \in Spots
         /\ Distance[lk[c].ask.spot][Head(lk[c].todo)] \in Nat
         /\ Distance[lk[c].ask.spot][Head(lk[c].todo)] <= Radius
<1>1. PICK l : l = lk[c]
  OBVIOUS
<1>2. OfNearby(l) /\ l.ask.spot \in Spots
  BY <1>1, NearbyLookup DEF NearbySteps
<1>3. /\ l.todo \in Seq(Facilities) /\ l.todo # <<>>
      /\ \A i \in DOMAIN l.todo : Distance[l.ask.spot][l.todo[i]] <= Radius
  BY <1>1, <1>2 DEF OfNearby
<1>4. 1 \in DOMAIN l.todo /\ Head(l.todo) = l.todo[1] /\ Head(l.todo) \in Facilities
  <2>1. l.todo \in Seq(Facilities) /\ l.todo # <<>>
    BY <1>3
  <2> QED  BY ONLY <2>1, EmptySeq, LenProperties, HeadTailProperties
<1>5. Distance[l.ask.spot][Head(l.todo)] <= Radius
  BY <1>3, <1>4
<1> QED  BY <1>1, <1>2, <1>4, <1>5, LookupsAssumption

LEMMA RecallNetworksKeeps ==
  ASSUME LookupsInv, NEW c \in Clients, RecallNetworks(c), UNCHANGED <<now, votes, votedAt>>
  PROVE  LookupsInv'
<1>1. /\ lk[c].pc = "networks" /\ lk[c].pc \in NearbySteps
      /\ UNCHANGED <<nearbyVars, weatherCache, popularity>>
  BY DEF RecallNetworks, Stands, NearbySteps
<1>2. PICK p \in Procs : p = Proc(c)
  BY <1>1, NearbyLookup
<1>3. PICK g \in Facilities : g = Head(lk[c].todo)
  BY <1>1, HeadIsNear
<1>4. PICK spot \in Spots : spot = lk[c].ask.spot
  BY <1>1, HeadIsNear
<1>5. Distance[spot][g] \in Nat /\ Distance[spot][g] <= Radius
  BY <1>1, <1>3, <1>4, HeadIsNear
<1>6. \E f : Put(c, f) /\ LookupGood(f, votes, votedAt, now)
  <2>1. CASE /\ Kept(netfacCache[p][g])
             /\ Put(c, Seen(c, Recalled(c, g, netfacCache[p][g].value)))
    <3>1. netfacCache[p][g].value \in SUBSET PresenceType
      BY <2>1 DEF LookupsInv, KeptThings, Kept
    <3>2. PICK rows : rows = Recalled(c, g, netfacCache[p][g].value)
      OBVIOUS
    <3>3. rows = {Presence(g, r.network, Distance[spot][g]) : r \in netfacCache[p][g].value}
      BY <1>4, <3>2 DEF Recalled
    <3>4. rows \in SUBSET PresenceType /\ Near(spot, rows)
      BY <1>5, <3>1, <3>3 DEF Presence, PresenceType, Near
    <3>5. LookupGood(Seen(c, rows), votes, votedAt, now)
      BY <1>1, <1>4, <3>4, SeenGood
    <3> QED  BY <2>1, <3>2, <3>5
  <2>2. CASE Put(c, [lk[c] EXCEPT !.pc = "ask networks"])
    <3>1. PICK l : l = lk[c]
      OBVIOUS
    <3>2. PICK f : f = [l EXCEPT !.pc = "ask networks"]
      OBVIOUS
    <3>3. DOMAIN l = LookupFields /\ OfNearby(l) /\ l.presences \subseteq PresenceType
      BY <1>1, <3>1, NearbyLookup
    <3>4. /\ DOMAIN f = LookupFields /\ f.ask = l.ask /\ f.at = l.at /\ f.warned = l.warned
          /\ f.presences = l.presences /\ f.pc = "ask networks" /\ f.todo = l.todo
      BY <3>2, <3>3 DEF LookupFields
    <3>5. OfNearby(f)
      BY <1>1, <3>1, <3>3, <3>4 DEF OfNearby
    <3>6. LookupGood(f, votes, votedAt, now)
      BY <1>1, <3>1, <3>3, <3>4, <3>5, NearbyMoves
    <3> QED  BY <2>2, <3>1, <3>2, <3>6
  <2> QED  BY <1>2, <1>3, <2>1, <2>2 DEF RecallNetworks
<1> QED  BY <1>1, <1>6, OnlyLookupKeeps

LEMMA GetNetworksKeeps ==
  ASSUME LookupsInv, NEW c \in Clients, GetNetworks(c), UNCHANGED <<now, votes, votedAt>>
  PROVE  LookupsInv'
<1>1. /\ lk[c].pc = "ask networks" /\ lk[c].pc \in NearbySteps
      /\ UNCHANGED <<facilityCache, coolUntil, coolSince, weatherCache, popularity>>
  BY DEF GetNetworks, Stands, NearbySteps
<1>2. PICK p \in Procs : p = Proc(c)
  BY <1>1, NearbyLookup
<1>3. PICK g \in Facilities : g = Head(lk[c].todo)
  BY <1>1, HeadIsNear
<1>4. PICK spot \in Spots : spot = lk[c].ask.spot
  BY <1>1, HeadIsNear
<1>5. Distance[spot][g] \in Nat /\ Distance[spot][g] <= Radius
  BY <1>1, <1>3, <1>4, HeadIsNear
<1>6. PICK nets \in SUBSET Networks :
        /\ netfacCache' = [netfacCache EXCEPT ![p][g] = Keep({Presence(g, a, 0) : a \in nets})]
        /\ Put(c, Seen(c, {Presence(g, a, Distance[spot][g]) : a \in nets}))
  <2>1. PICK nets \in SUBSET Networks :
          LET h == Head(lk[c].todo) IN
          /\ netfacCache' = [netfacCache EXCEPT ![Proc(c)][h] = Keep({Presence(h, a, 0) : a \in nets})]
          /\ Put(c, Seen(c, {Presence(h, a, Distance[lk[c].ask.spot][h]) : a \in nets}))
    BY DEF GetNetworks
  <2> QED  BY <1>2, <1>3, <1>4, <2>1
<1>7. PICK rows : rows = {Presence(g, a, Distance[spot][g]) : a \in nets}
  OBVIOUS
<1>8. rows \in SUBSET PresenceType /\ Near(spot, rows)
  BY <1>5, <1>7 DEF Presence, PresenceType, Near
<1>9. LookupGood(Seen(c, rows), votes, votedAt, now)
  BY <1>1, <1>4, <1>8, SeenGood
<1>10. LookupsGood'
  BY <1>6, <1>7, <1>9, LookupsKeep
<1>11. Clock' /\ VotesCounted' /\ Cooling'
  BY <1>1 DEF LookupsInv, Clock, VotesCounted, Cooling
<1>12. KeptThings'
  <2>1. PICK kept : kept = Keep({Presence(g, a, 0) : a \in nets})
    OBVIOUS
  <2>2. {Presence(g, a, 0) : a \in nets} \in SUBSET PresenceType
    BY DEF Presence, PresenceType
  <2>3. now + NearbyTtl \in Nat
    BY LookupTypes
  <2>4. kept \in [until : Nat, value : SUBSET PresenceType]
    BY <2>1, <2>2, <2>3 DEF Keep
  <2>5. netfacCache' = [netfacCache EXCEPT ![p][g] = kept]
    BY <1>6, <2>1
  <2>6. netfacCache' \in [Procs -> [Facilities ->
          [until : Nat, value : SUBSET PresenceType] \cup {None}]]
    BY <2>4, <2>5 DEF LookupsInv, KeptThings
  <2> QED  BY <1>1, <2>6 DEF LookupsInv, KeptThings
<1> QED  BY <1>10, <1>11, <1>12 DEF LookupsInv

\* The names of networks change nothing that is told of them.
LEMMA NamesMove ==
  ASSUME LookupsInv, NEW c \in Clients, lk[c].pc \in NearbySteps,
         NEW pc \in {"names", "ask name"}, NEW todo, NEW named
  PROVE  LookupGood([lk[c] EXCEPT !.pc = pc, !.todo = todo, !.named = named],
                    votes, votedAt, now)
<1>1. PICK l : l = lk[c]
  OBVIOUS
<1>2. PICK f : f = [l EXCEPT !.pc = pc, !.todo = todo, !.named = named]
  OBVIOUS
<1>3. DOMAIN l = LookupFields /\ OfNearby(l) /\ l.presences \subseteq PresenceType
  BY <1>1, NearbyLookup
<1>4. /\ DOMAIN f = LookupFields /\ f.ask = l.ask /\ f.at = l.at /\ f.warned = l.warned
      /\ f.presences = l.presences /\ f.pc = pc
  BY <1>2, <1>3 DEF LookupFields
<1>5. OfNearby(f)
  BY <1>3, <1>4 DEF OfNearby
<1>6. LookupGood(f, votes, votedAt, now)
  BY <1>1, <1>3, <1>4, <1>5, NearbyMoves
<1> QED  BY <1>1, <1>2, <1>6

LEMMA NamesKeep ==
  ASSUME LookupsInv, NEW c \in Clients, RecallName(c) \/ GetName(c),
         UNCHANGED <<now, votes, votedAt>>
  PROVE  LookupsInv'
<1>1. /\ lk[c].pc \in NearbySteps
      /\ UNCHANGED <<facilityCache, netfacCache, coolUntil, coolSince, weatherCache, popularity>>
  BY DEF RecallName, GetName, Stands, NearbySteps, nearbyVars
<1>2. DOMAIN lk[c] = LookupFields
  BY <1>1, NearbyLookup
<1>3. \E f : Put(c, f) /\ LookupGood(f, votes, votedAt, now)
  <2>1. ASSUME NEW names, Put(c, Named(c, names))
        PROVE  \E f : Put(c, f) /\ LookupGood(f, votes, votedAt, now)
    <3>1. PICK todo, named : todo = Tail(lk[c].todo) /\ named = lk[c].named \cup names
      OBVIOUS
    <3>2. PICK f : f = [lk[c] EXCEPT !.pc = "names", !.todo = todo, !.named = named]
      OBVIOUS
    <3>3. LookupGood([lk[c] EXCEPT !.pc = "names", !.todo = todo, !.named = named],
                     votes, votedAt, now)
      BY <1>1, NamesMove
    <3>4. Named(c, names) = f
      BY <1>2, <3>1, <3>2 DEF Named, LookupFields
    <3> QED  BY <2>1, <3>2, <3>3, <3>4
  <2>2. ASSUME Put(c, [lk[c] EXCEPT !.pc = "ask name"])
        PROVE  \E f : Put(c, f) /\ LookupGood(f, votes, votedAt, now)
    <3>1. PICK f : f = [lk[c] EXCEPT !.pc = "ask name"]
      OBVIOUS
    <3>2. [lk[c] EXCEPT !.pc = "ask name", !.todo = lk[c].todo, !.named = lk[c].named] = f
      BY <1>2, <3>1 DEF LookupFields
    <3>3. LookupGood([lk[c] EXCEPT !.pc = "ask name", !.todo = lk[c].todo,
                                   !.named = lk[c].named], votes, votedAt, now)
      BY <1>1, NamesMove
    <3> QED  BY <2>2, <3>1, <3>2, <3>3
  <2> QED  BY <2>1, <2>2 DEF RecallName, GetName
<1>4. LookupsGood'
  BY <1>3, LookupsKeep
<1>5. Clock' /\ VotesCounted' /\ Cooling' /\ KeptThings'
  BY <1>1 DEF LookupsInv, Clock, VotesCounted, Cooling, KeptThings
<1> QED  BY <1>4, <1>5 DEF LookupsInv

\* A lookup of networks that ends with an answer, or without.
LEMMA NearbyEnds ==
  ASSUME LookupsInv, NEW c \in Clients, lk[c].pc \in NearbySteps, NEW origin
  PROVE  /\ LookupGood(Failure(c, origin), votes, votedAt, now)
         /\ LookupGood(Reply(c, lk[c].presences, origin), votes, votedAt, now)
<1>1. PICK l : l = lk[c]
  OBVIOUS
<1>2. DOMAIN l = LookupFields /\ OfNearby(l) /\ l.presences \subseteq PresenceType
  BY <1>1, NearbyLookup
<1>3. PICK f : f = [l EXCEPT !.pc = "answered", !.failed = TRUE, !.origin = origin]
  OBVIOUS
<1>4. LookupGood(f, votes, votedAt, now)
  <2>1. /\ DOMAIN f = LookupFields /\ f.ask = l.ask /\ f.at = l.at /\ f.warned = l.warned
        /\ f.presences = l.presences /\ f.pc = "answered" /\ f.failed = TRUE
    BY <1>2, <1>3 DEF LookupFields
  <2>2. OfNearby(f)
    BY <1>2, <2>1 DEF OfNearby
  <2> QED  BY <1>1, <1>2, <2>1, <2>2, NearbyMoves
<1>5. PICK g : g = [l EXCEPT !.pc = "answered", !.answer = l.presences, !.origin = origin]
  OBVIOUS
<1>6. LookupGood(g, votes, votedAt, now)
  <2>1. /\ DOMAIN g = LookupFields /\ g.ask = l.ask /\ g.at = l.at /\ g.warned = l.warned
        /\ g.presences = l.presences /\ g.pc = "answered" /\ g.answer = l.presences
    BY <1>2, <1>5 DEF LookupFields
  <2>2. OfNearby(g)
    BY <1>2, <2>1 DEF OfNearby
  <2> QED  BY <1>1, <1>2, <2>1, <2>2, NearbyMoves
<1> QED  BY <1>1, <1>3, <1>4, <1>5, <1>6 DEF Failure, Reply

LEMMA EndsKeep ==
  ASSUME LookupsInv, NEW c \in Clients, FinishNearby(c) \/ FailNearby(c),
         UNCHANGED <<now, votes, votedAt>>
  PROVE  LookupsInv'
<1>1. lk[c].pc \in NearbySteps /\ UNCHANGED <<nearbyVars, weatherCache, popularity>>
  BY DEF FinishNearby, FailNearby, Stands, Asking, NearbySteps
<1>2. Put(c, Reply(c, lk[c].presences, "upstream")) \/ Put(c, Failure(c, "upstream"))
  BY DEF FinishNearby, FailNearby
<1> QED  BY <1>1, <1>2, NearbyEnds, OnlyLookupKeeps

\* A refusal: the process waits in full from now on.
LEMMA RefuseNearbyKeeps ==
  ASSUME LookupsInv, NEW c \in Clients, RefuseNearby(c), UNCHANGED <<now, votes, votedAt>>
  PROVE  LookupsInv'
<1>1. /\ lk[c].pc \in NearbySteps
      /\ UNCHANGED <<facilityCache, netfacCache, weatherCache, popularity>>
  BY DEF RefuseNearby, Asking, NearbySteps
<1>2. DOMAIN lk[c] = LookupFields
  BY <1>1, NearbyLookup
<1>3. PICK p \in Procs : p = Proc(c)
  BY <1>1, NearbyLookup
<1>4. \E f : Put(c, f) /\ LookupGood(f, votes, votedAt, now)
  <2>1. CASE Put(c, Failure(c, "upstream"))
    BY <1>1, <2>1, NearbyEnds
  <2>2. CASE Put(c, [lk[c] EXCEPT !.pc = "names", !.todo = <<>>])
    <3>1. PICK f : f = [lk[c] EXCEPT !.pc = "names", !.todo = <<>>]
      OBVIOUS
    <3>2. [lk[c] EXCEPT !.pc = "names", !.todo = <<>>, !.named = lk[c].named] = f
      BY <1>2, <3>1 DEF LookupFields
    <3>3. LookupGood([lk[c] EXCEPT !.pc = "names", !.todo = <<>>, !.named = lk[c].named],
                     votes, votedAt, now)
      BY <1>1, NamesMove
    <3> QED  BY <2>2, <3>1, <3>2, <3>3
  <2> QED  BY <2>1, <2>2 DEF RefuseNearby, Refused
<1>5. LookupsGood'
  BY <1>4, LookupsKeep
<1>6. Clock' /\ VotesCounted' /\ KeptThings'
  BY <1>1 DEF LookupsInv, Clock, VotesCounted, KeptThings
<1>7. Cooling'
  <2>1. /\ now \in Nat /\ now <= MaxTime /\ NearbyCooldown \in Nat /\ MaxTime \in Nat
        /\ None \notin Nat
    BY LookupTypes
  <2>2. PICK u \in 0 .. MaxTime + NearbyCooldown : u = coolUntil[p]
    BY DEF LookupsInv, Cooling
  <2>3. PICK m \in Int : m = now + NearbyCooldown /\ m \in 0 .. MaxTime + NearbyCooldown
    BY <2>1
  <2>4. u \in Int /\ m \in Int
    BY <2>1
  <2>5. Max({u, m}) \in {u, m} /\ Max({u, m}) >= u /\ Max({u, m}) >= m
    BY ONLY <2>4, MaxOfTwo
  <2>6. PICK w \in 0 .. MaxTime + NearbyCooldown : w = Max({u, m}) /\ w >= m
    BY <2>3, <2>5
  <2>7. coolUntil' = [coolUntil EXCEPT ![p] = w]
    BY <1>3, <2>2, <2>3, <2>6 DEF RefuseNearby, StartCooldown
  <2>8. coolSince' = [coolSince EXCEPT ![p] = now]
    BY <1>3 DEF RefuseNearby
  <2>9. coolUntil \in [Procs -> 0 .. MaxTime + NearbyCooldown]
        /\ coolSince \in [Procs -> Nat \cup {None}]
    BY DEF LookupsInv, Cooling
  <2>10. coolUntil' \in [Procs -> 0 .. MaxTime + NearbyCooldown]
         /\ coolSince' \in [Procs -> Nat \cup {None}]
    BY <2>1, <2>7, <2>8, <2>9
  <2>11. ASSUME NEW q \in Procs, coolSince'[q] # None
         PROVE  coolUntil'[q] >= coolSince'[q] + NearbyCooldown
    <3>1. CASE q = p
      <4>1. coolUntil'[q] = w /\ coolSince'[q] = now
        BY <2>7, <2>8, <2>9, <3>1
      <4> QED  BY <2>3, <2>6, <4>1
    <3>2. CASE q # p
      <4>1. coolUntil'[q] = coolUntil[q] /\ coolSince'[q] = coolSince[q]
        BY <2>7, <2>8, <2>9, <3>2
      <4> QED  BY <2>11, <4>1 DEF LookupsInv, Cooling
    <3> QED  BY <3>1, <3>2
  <2> QED  BY <2>10, <2>11 DEF Cooling
<1> QED  BY <1>5, <1>6, <1>7 DEF LookupsInv

-----------------------------------------------------------------------------
(* The weather and popularity. *)

LEMMA BeginWeatherKeeps ==
  ASSUME LookupsInv, NEW c \in Clients, NEW ask \in WeatherAsks, BeginWeather(c, ask),
         UNCHANGED <<now, votes, votedAt>>
  PROVE  LookupsInv'
<1>1. PICK h : h = Hour(ask, now)
  OBVIOUS
<1>2. h \in Hours /\ h \in Nat /\ h <= now
  <2>1. now \in Nat /\ now <= MaxTime /\ MaxTime \in Nat
    BY LookupTypes
  <2>2. h \in {0, now}
    BY <1>1 DEF Hour, WeatherAsks
  <2> QED  BY <2>1, <2>2 DEF Hours
<1>3. ask \in NearbyAsks \cup WeatherAsks \cup VoteAsks /\ ask.op = "weather"
  BY DEF WeatherAsks
<1>4. PICK begun : begun = [NoLookup EXCEPT !.ask = ask, !.at = h]
  OBVIOUS
<1>5. PICK f :
        /\ Put(c, f)
        /\ \/ /\ weatherCache[h] # None
              /\ f = [begun EXCEPT !.pc = "answered", !.failed = weatherCache[h].failed,
                                   !.origin = "cache"]
           \/ f = [begun EXCEPT !.pc = "answered", !.failed = TRUE, !.origin = "no key"]
           \/ f = [begun EXCEPT !.pc = "ask weather"]
  BY <1>1, <1>4 DEF BeginWeather
<1>6. /\ DOMAIN f = LookupFields /\ f.ask = ask /\ f.at = h /\ f.presences = {}
      /\ f.warned = FALSE /\ f.pc \in {"answered", "ask weather"}
      /\ f.pc = "answered" /\ f.failed => f.origin # "cache"
  <2>1. weatherCache[h] # None => weatherCache[h].failed = FALSE
    BY <1>2 DEF LookupsInv, KeptThings
  <2>2. /\ DOMAIN begun = LookupFields /\ begun.ask = ask /\ begun.at = h
        /\ begun.presences = {} /\ begun.warned = FALSE
    BY <1>4 DEF NoLookup, LookupFields
  <2>3. CASE /\ weatherCache[h] # None
             /\ f = [begun EXCEPT !.pc = "answered", !.failed = weatherCache[h].failed,
                                  !.origin = "cache"]
    BY <2>1, <2>2, <2>3 DEF LookupFields
  <2>4. CASE f = [begun EXCEPT !.pc = "answered", !.failed = TRUE, !.origin = "no key"]
    BY <2>2, <2>4 DEF LookupFields
  <2>5. CASE f = [begun EXCEPT !.pc = "ask weather"]
    BY <2>2, <2>5 DEF LookupFields
  <2> QED  BY <1>5, <2>3, <2>4, <2>5
<1>7. OfWeather(f)
  BY <1>6 DEF OfWeather
<1>8. LookupGood(f, votes, votedAt, now)
  BY <1>2, <1>3, <1>6, <1>7 DEF LookupGood
<1>9. UNCHANGED <<nearbyVars, weatherCache, popularity>>
  BY DEF BeginWeather
<1> QED  BY <1>5, <1>8, <1>9, OnlyLookupKeeps

LEMMA GetWeatherKeeps ==
  ASSUME LookupsInv, NEW c \in Clients, GetWeather(c), UNCHANGED <<now, votes, votedAt>>
  PROVE  LookupsInv'
<1>1. PICK l : l = lk[c]
  OBVIOUS
<1>2. PICK failed \in BOOLEAN :
        /\ Put(c, [Reply(c, None, "upstream") EXCEPT !.failed = failed])
        /\ weatherCache' = IF Keeps(failed) THEN [weatherCache EXCEPT ![lk[c].at] = [failed |-> failed]]
                           ELSE weatherCache
  BY DEF GetWeather
<1>3. /\ l.pc = "ask weather" /\ l.ask.op = "weather" /\ UNCHANGED <<nearbyVars, popularity>>
  BY <1>1 DEF GetWeather, Stands
<1>4. LookupGood(l, votes, votedAt, now) /\ DOMAIN l = LookupFields
  BY <1>1 DEF LookupsInv, LookupsGood, LookupGood
<1>5. PICK f : f = [[l EXCEPT !.pc = "answered", !.answer = None, !.origin = "upstream"]
                      EXCEPT !.failed = failed]
  OBVIOUS
<1>6. Put(c, f)
  BY <1>1, <1>2, <1>5 DEF Reply
<1>7. /\ DOMAIN f = LookupFields /\ f.ask = l.ask /\ f.at = l.at /\ f.presences = l.presences
      /\ f.pc = "answered" /\ f.origin = "upstream"
  BY <1>4, <1>5 DEF LookupFields
<1>8. OfWeather(f)
  BY <1>7 DEF OfWeather
<1>9. LookupGood(f, votes, votedAt, now)
  BY <1>3, <1>4, <1>7, <1>8 DEF LookupGood
<1>10. LookupsGood'
  BY <1>6, <1>9, LookupsKeep
<1>11. KeptThings'
  <2>1. DOMAIN weatherCache = Hours
        /\ \A h \in Hours : weatherCache[h] # None => weatherCache[h].failed = FALSE
    BY DEF LookupsInv, KeptThings
  <2>2. DOMAIN weatherCache' = Hours
        /\ \A h \in Hours : weatherCache'[h] # None => weatherCache'[h].failed = FALSE
    <3>1. CASE failed
      BY <1>2, <2>1, <3>1 DEF Keeps
    <3>2. CASE ~ failed
      <4>1. weatherCache' = [weatherCache EXCEPT ![lk[c].at] = [failed |-> FALSE]]
        BY <1>2, <3>2 DEF Keeps
      <4> QED  BY <2>1, <4>1
    <3> QED  BY <3>1, <3>2
  <2>3. UNCHANGED <<facilityCache, netfacCache>>
    BY <1>3 DEF nearbyVars
  <2> QED  BY <2>2, <2>3 DEF LookupsInv, KeptThings
<1>12. Clock' /\ Cooling' /\ VotesCounted'
  BY <1>3 DEF nearbyVars, LookupsInv, Clock, Cooling, VotesCounted
<1> QED  BY <1>10, <1>11, <1>12 DEF LookupsInv

LEMMA BeginPopularityKeeps ==
  ASSUME LookupsInv, NEW c \in Clients, NEW ask \in VoteAsks, BeginPopularity(c, ask),
         UNCHANGED <<now, votes, votedAt>>
  PROVE  LookupsInv'
<1>1. ask \in NearbyAsks \cup WeatherAsks \cup VoteAsks /\ ask.op = "popularity"
  BY DEF VoteAsks
<1>2. PICK begun : begun = [NoLookup EXCEPT !.ask = ask, !.at = now]
  OBVIOUS
<1>3. now \in Nat /\ PopularityTtl \in Nat /\ votes \in Nat
  BY LookupTypes DEF LookupsInv, VotesCounted
<1>4. /\ DOMAIN begun = LookupFields /\ begun.ask = ask /\ begun.at = now
      /\ begun.presences = {} /\ begun.warned = FALSE
  BY <1>2 DEF NoLookup, LookupFields
<1>5. \E f : Put(c, f) /\ LookupGood(f, votes, votedAt, now)
  <2>1. CASE /\ popularity.votes # None /\ now - popularity.at < PopularityTtl
             /\ Put(c, [begun EXCEPT !.pc = "answered", !.answer = popularity.votes,
                                     !.origin = "cache"])
    <3>1. PICK f : f = [begun EXCEPT !.pc = "answered", !.answer = popularity.votes,
                                     !.origin = "cache"]
      OBVIOUS
    <3>2. /\ DOMAIN f = LookupFields /\ f.ask = ask /\ f.at = now /\ f.presences = {}
          /\ f.warned = FALSE /\ f.pc = "answered" /\ f.answer = popularity.votes
      BY <1>4, <3>1 DEF LookupFields
    <3>3. PICK at \in Nat : at = popularity.at /\ at <= now /\ now - at < PopularityTtl
                            /\ RightSince(popularity.votes, at, votes, votedAt)
      BY <2>1 DEF LookupsInv, VotesCounted
    <3>4. PopularityTtl >= 1 /\ (now - PopularityTtl) + 1 <= at
      BY <1>3, <3>3
    <3>5. RightSince(popularity.votes, (now - PopularityTtl) + 1, votes, votedAt)
      <4>1. PICK v \in 0 .. votes : v = popularity.votes /\ (v = votes \/ votedAt[v + 1] >= at)
        BY <3>3 DEF RightSince
      <4>2. CASE v = votes
        BY <4>1, <4>2 DEF RightSince
      <4>3. CASE v # votes
        <5>1. v + 1 \in DOMAIN votedAt /\ votedAt[v + 1] \in Nat
          BY <1>3, <4>3 DEF LookupsInv, VotesCounted
        <5> QED  BY <1>3, <3>4, <4>1, <4>3, <5>1 DEF RightSince
      <4> QED  BY <4>2, <4>3
    <3>6. OfPopularity(f, votes, votedAt)
      BY <3>2, <3>4, <3>5 DEF OfPopularity
    <3>7. LookupGood(f, votes, votedAt, now)
      BY <1>1, <1>3, <3>2, <3>6 DEF LookupGood
    <3> QED  BY <2>1, <3>1, <3>7
  <2>2. CASE Put(c, [begun EXCEPT !.pc = "ask page", !.answer = votes])
    <3>1. PICK f : f = [begun EXCEPT !.pc = "ask page", !.answer = votes]
      OBVIOUS
    <3>2. /\ DOMAIN f = LookupFields /\ f.ask = ask /\ f.at = now /\ f.presences = {}
          /\ f.warned = FALSE /\ f.pc = "ask page" /\ f.answer = votes
      BY <1>4, <3>1 DEF LookupFields
    <3>3. RightSince(f.answer, f.at, votes, votedAt)
      <4>1. votes \in 0 .. votes
        BY <1>3
      <4>2. RightSince(votes, f.at, votes, votedAt)
        BY <4>1 DEF RightSince
      <4>3. f.answer = votes
        BY <3>2
      <4> QED  BY <4>2, <4>3
    <3>4. f.pc # "answered" /\ f.pc # "idle"
      BY <3>2
    <3>5. OfPopularity(f, votes, votedAt)
      BY <3>2, <3>3, <3>4 DEF OfPopularity
    <3>6. f.ask.op = "popularity" /\ f.ask.op # "nearby" /\ f.ask.op # "weather"
      BY <1>1, <3>2
    <3>7. f.ask \in NearbyAsks \cup WeatherAsks \cup VoteAsks
      BY <1>1, <3>2
    <3>8. f.at \in Nat /\ f.at <= now
      <4>1. f.at = now
        BY <3>2
      <4>2. now \in Nat /\ now <= now
        BY <1>3
      <4> QED  BY <4>1, <4>2
    <3>9. f.presences \subseteq PresenceType
      BY <3>2
    <3>10. DOMAIN f = LookupFields /\ ~ f.warned
      BY <3>2
    <3>11. LookupGood(f, votes, votedAt, now)
      BY <3>5, <3>6, <3>7, <3>8, <3>9, <3>10 DEF LookupGood
    <3> QED  BY <2>2, <3>1, <3>11
  <2> QED  BY <1>2, <2>1, <2>2 DEF BeginPopularity
<1>6. UNCHANGED <<nearbyVars, weatherCache, popularity>>
  BY DEF BeginPopularity
<1> QED  BY <1>5, <1>6, OnlyLookupKeeps

LEMMA PopularityKeeps ==
  ASSUME LookupsInv, NEW c \in Clients, GetPopularity(c) \/ FailPopularity(c),
         UNCHANGED <<now, votes, votedAt>>
  PROVE  LookupsInv'
<1>1. PICK l : l = lk[c]
  OBVIOUS
<1>2. /\ l.pc = "ask page" /\ l.ask.op = "popularity" /\ UNCHANGED <<nearbyVars, weatherCache>>
  BY <1>1 DEF GetPopularity, FailPopularity, Stands
<1>3. LookupGood(l, votes, votedAt, now) /\ DOMAIN l = LookupFields /\ l.pc # "idle"
  BY <1>1, <1>2 DEF LookupsInv, LookupsGood, LookupGood
<1>4. OfPopularity(l, votes, votedAt) /\ l.at \in Nat /\ l.at <= now
  BY <1>2, <1>3 DEF LookupGood
<1>5. ASSUME NEW answer, NEW origin, origin # "cache"
      PROVE  LookupGood(Reply(c, answer, origin), votes, votedAt, now)
  <2>1. PICK f : f = [l EXCEPT !.pc = "answered", !.answer = answer, !.origin = origin]
    OBVIOUS
  <2>2. /\ DOMAIN f = LookupFields /\ f.ask = l.ask /\ f.at = l.at /\ f.presences = l.presences
        /\ f.warned = l.warned /\ f.pc = "answered" /\ f.origin = origin
    BY <1>3, <2>1 DEF LookupFields
  <2>3. OfPopularity(f, votes, votedAt)
    BY <1>5, <2>2 DEF OfPopularity
  <2>4. LookupGood(f, votes, votedAt, now)
    BY <1>2, <1>3, <2>2, <2>3 DEF LookupGood
  <2> QED  BY <1>1, <2>1, <2>4 DEF Reply
<1>6. \E f : Put(c, f) /\ LookupGood(f, votes, votedAt, now)
  <2>1. CASE GetPopularity(c)
    <3>1. Put(c, Reply(c, l.answer, "upstream"))
      BY <1>1, <2>1 DEF GetPopularity
    <3> QED  BY <1>5, <3>1
  <2>2. CASE FailPopularity(c)
    <3>1. Put(c, Reply(c, popularity.votes, "old"))
      BY <2>2 DEF FailPopularity
    <3> QED  BY <1>5, <3>1
  <2> QED  BY <2>1, <2>2
<1>7. LookupsGood'
  BY <1>6, LookupsKeep
<1>8. VotesCounted'
  <2>1. CASE GetPopularity(c)
    <3>1. popularity' = [votes |-> l.answer, at |-> l.at]
      BY <1>1, <2>1 DEF GetPopularity, AskedAt
    <3>2. RightSince(l.answer, l.at, votes, votedAt)
      BY <1>2, <1>4 DEF OfPopularity
    <3> QED  BY <1>4, <3>1, <3>2 DEF LookupsInv, VotesCounted
  <2>2. CASE popularity' = popularity
    BY <2>2 DEF LookupsInv, VotesCounted
  <2> QED  BY <2>1, <2>2 DEF FailPopularity
<1>9. Clock' /\ Cooling' /\ KeptThings'
  BY <1>2 DEF nearbyVars, LookupsInv, Clock, Cooling, KeptThings
<1> QED  BY <1>7, <1>8, <1>9 DEF LookupsInv

-----------------------------------------------------------------------------
(* The steps of lookups, changes of the popularity, and time. *)

LEMMA LookupStepKeeps ==
  ASSUME LookupsInv, NEW c \in Clients, LookupStep(c), UNCHANGED <<now, votes, votedAt>>
  PROVE  LookupsInv'
<1>1. CASE BeginLookup(c)
  BY <1>1, BeginNearbyKeeps, BeginWeatherKeeps, BeginPopularityKeeps DEF BeginLookup
<1>2. CASE LeaveLookup(c)
  <2>1. /\ DOMAIN NoLookup = LookupFields /\ NoLookup.pc = "idle" /\ NoLookup.at = 0
        /\ NoLookup.presences = {} /\ NoLookup.warned = FALSE
    BY DEF NoLookup, LookupFields
  <2>2. LookupGood(NoLookup, votes, votedAt, now)
    BY <2>1, LookupTypes DEF LookupGood
  <2>3. Put(c, NoLookup) /\ UNCHANGED <<nearbyVars, weatherCache, popularity>>
    BY <1>2 DEF LeaveLookup
  <2> QED  BY <2>2, <2>3, OnlyLookupKeeps
<1>3. CASE RecallFacilities(c) \/ GetFacilities(c) \/ RecallNetworks(c) \/ GetNetworks(c)
  BY <1>3, RecallFacilitiesKeeps, GetFacilitiesKeeps, RecallNetworksKeeps, GetNetworksKeeps
<1>4. CASE RecallName(c) \/ GetName(c) \/ FinishNearby(c) \/ RefuseNearby(c) \/ FailNearby(c)
  BY <1>4, NamesKeep, EndsKeep, RefuseNearbyKeeps
<1>5. CASE GetWeather(c) \/ GetPopularity(c) \/ FailPopularity(c)
  BY <1>5, GetWeatherKeeps, PopularityKeeps
<1> QED  BY <1>1, <1>2, <1>3, <1>4, <1>5 DEF LookupStep

\* What was right at a time or since stays so when the popularity changes.
LEMMA RightStays ==
  ASSUME NEW v, NEW n \in Nat, NEW list \in Seq(Nat), Len(list) = n, NEW t \in Nat,
         NEW time \in Int, time <= t, RightSince(v, time, n, list)
  PROVE  RightSince(v, time, n + 1, Append(list, t))
<1>1. v \in 0 .. n /\ v \in Nat
  BY DEF RightSince
<1>2. PICK longer : longer = Append(list, t)
  OBVIOUS
<1>3. longer[n + 1] = t /\ \A i \in 1 .. n : longer[i] = list[i]
  <2>1. list \in Seq(Nat) /\ t \in Nat
    OBVIOUS
  <2>2. longer = Append(list, t) /\ Len(list) = n
    BY <1>2
  <2> QED  BY ONLY <2>1, <2>2, AppendProperties
<1>4. CASE v = n
  BY <1>1, <1>2, <1>3, <1>4 DEF RightSince
<1>5. CASE v # n
  <2>1. v + 1 \in 1 .. n /\ list[v + 1] >= time
    BY <1>1, <1>5 DEF RightSince
  <2>2. longer[v + 1] >= time
    BY <1>3, <2>1
  <2> QED  BY <1>1, <1>2, <2>2 DEF RightSince
<1> QED  BY <1>4, <1>5

\* A lookup stays as it may stand while the popularity changes.
LEMMA LookupStays ==
  ASSUME LookupsInv, NEW l, LookupGood(l, votes, votedAt, now)
  PROVE  LookupGood(l, votes + 1, Append(votedAt, now), now)
<1>1. PICK n \in Nat : n = votes
  BY DEF LookupsInv, VotesCounted
<1>2. PICK list \in Seq(Nat) : list = votedAt /\ Len(list) = n
  BY <1>1 DEF LookupsInv, VotesCounted
<1>3. PICK t \in Nat : t = now
  BY LookupTypes
<1>4. LookupGood(l, n, list, t)
  BY <1>1, <1>2, <1>3
<1>5. ASSUME OfPopularity(l, n, list)
      PROVE  OfPopularity(l, n + 1, Append(list, t))
  <2>1. l.at \in Nat /\ l.at <= t /\ PopularityTtl \in Nat
    BY <1>4, LookupTypes DEF LookupGood
  <2>2. ASSUME l.pc = "ask page"
        PROVE  RightSince(l.answer, l.at, n + 1, Append(list, t))
    <3>1. PICK time \in Int : time = l.at /\ time <= t
      BY <2>1
    <3>2. RightSince(l.answer, l.at, n, list)
      BY <1>5, <2>2 DEF OfPopularity
    <3>3. RightSince(l.answer, time, n, list)
      BY <3>1, <3>2
    <3>4. RightSince(l.answer, time, n + 1, Append(list, t))
      BY <1>2, <3>1, <3>3, RightStays
    <3> QED  BY <3>1, <3>4
  <2>3. ASSUME l.pc = "answered", l.origin = "cache"
        PROVE  /\ PopularityTtl >= 1
               /\ RightSince(l.answer, (l.at - PopularityTtl) + 1, n + 1, Append(list, t))
    <3>1. PopularityTtl >= 1 /\ RightSince(l.answer, (l.at - PopularityTtl) + 1, n, list)
      BY <1>5, <2>3 DEF OfPopularity
    <3>2. PICK time \in Int : time = (l.at - PopularityTtl) + 1 /\ time <= t
      BY <2>1, <3>1
    <3>3. RightSince(l.answer, time, n, list)
      BY <3>1, <3>2
    <3>4. RightSince(l.answer, time, n + 1, Append(list, t))
      BY <1>2, <3>2, <3>3, RightStays
    <3> QED  BY <3>1, <3>2, <3>4
  <2> QED  BY <1>5, <2>2, <2>3 DEF OfPopularity
<1>6. LookupGood(l, n + 1, Append(list, t), t)
  BY <1>4, <1>5 DEF LookupGood
<1> QED  BY <1>1, <1>2, <1>3, <1>6

LEMMA VoteKeeps ==
  ASSUME LookupsInv, Vote, UNCHANGED now
  PROVE  LookupsInv'
<1>1. /\ votes' = votes + 1 /\ votedAt' = Append(votedAt, now)
      /\ UNCHANGED <<facilityCache, netfacCache, coolUntil, coolSince, weatherCache, popularity, lk>>
  BY DEF Vote, nearbyVars
<1>2. PICK n \in Nat : n = votes
  BY DEF LookupsInv, VotesCounted
<1>3. PICK list \in Seq(Nat) : list = votedAt /\ Len(list) = n
  BY <1>2 DEF LookupsInv, VotesCounted
<1>4. PICK t \in Nat : t = now
  BY LookupTypes
<1>5. VotesCounted'
  <2>1. PICK longer : longer = Append(list, t)
    OBVIOUS
  <2>2. longer \in Seq(Nat) /\ Len(longer) = n + 1
    <3>1. list \in Seq(Nat) /\ t \in Nat /\ Len(list) = n
      BY <1>3
    <3> QED  BY ONLY <2>1, <3>1, AppendProperties
  <2>3. votes' = n + 1 /\ votedAt' = longer
    BY <1>1, <1>2, <1>3, <1>4, <2>1
  <2>4. ASSUME popularity.votes # None
        PROVE  /\ popularity.at \in Nat /\ popularity.at <= t
               /\ RightSince(popularity.votes, popularity.at, n + 1, longer)
    <3>1. PICK at \in Nat : at = popularity.at /\ at <= t
      BY <1>4, <2>4 DEF LookupsInv, VotesCounted
    <3>2. RightSince(popularity.votes, at, n, list) /\ at \in Int
      BY <1>2, <1>3, <2>4, <3>1 DEF LookupsInv, VotesCounted
    <3>3. RightSince(popularity.votes, at, n + 1, Append(list, t))
      BY <1>3, <3>1, <3>2, RightStays
    <3> QED  BY <2>1, <3>1, <3>3
  <2>5. n + 1 \in Nat
    OBVIOUS
  <2>6. now' = t /\ popularity' = popularity
    BY <1>1, <1>4
  <2> QED  BY <2>2, <2>3, <2>4, <2>5, <2>6 DEF VotesCounted
<1>6. LookupsGood'
  <2>1. DOMAIN lk = Clients /\ \A d \in Clients : LookupGood(lk[d], votes, votedAt, now)
    BY DEF LookupsInv, LookupsGood
  <2>2. \A d \in Clients : LookupGood(lk[d], votes', votedAt', now)
    BY <1>1, <2>1, LookupStays
  <2> QED  BY <1>1, <2>1, <2>2 DEF LookupsGood
<1>7. Clock' /\ Cooling' /\ KeptThings'
  BY <1>1 DEF LookupsInv, Clock, Cooling, KeptThings
<1> QED  BY <1>5, <1>6, <1>7 DEF LookupsInv

\* Time passes, or others do something.
LEMMA LookupsWait ==
  ASSUME LookupsInv, UNCHANGED lookupVars, now' \in 0 .. MaxTime, now <= now'
  PROVE  LookupsInv'
<1>1. UNCHANGED <<facilityCache, netfacCache, coolUntil, coolSince, lk, weatherCache, popularity,
                  votes, votedAt>>
  BY DEF lookupVars
<1>2. now \in Nat /\ now' \in Nat /\ now <= now'
  BY LookupTypes
<1>3. VotesCounted'
  BY <1>1, <1>2 DEF LookupsInv, VotesCounted
<1>4. LookupsGood'
  <2>1. DOMAIN lk = Clients /\ \A d \in Clients : LookupGood(lk[d], votes, votedAt, now)
    BY DEF LookupsInv, LookupsGood
  <2>2. \A d \in Clients : LookupGood(lk[d], votes, votedAt, now')
    BY <1>2, <2>1 DEF LookupGood
  <2> QED  BY <1>1, <2>1, <2>2 DEF LookupsGood
<1>5. Clock' /\ Cooling' /\ KeptThings'
  BY <1>1 DEF LookupsInv, Clock, Cooling, KeptThings
<1> QED  BY <1>3, <1>4, <1>5 DEF LookupsInv

LEMMA LookupsInitInv == Init => LookupsInv
<1> SUFFICES ASSUME Init  PROVE LookupsInv
  OBVIOUS
<1>1. now = 0 /\ LookupsInit /\ MaxTime \in Nat /\ NearbyCooldown \in Nat
  BY GeocodingAssumption, LookupsAssumption DEF Init
<1>2. Clock /\ Cooling /\ KeptThings
  BY <1>1 DEF LookupsInit, Clock, Cooling, KeptThings
<1>3. VotesCounted
  <2>1. votes = 0 /\ votedAt = <<>> /\ popularity.votes = None
    BY <1>1 DEF LookupsInit
  <2> QED  BY <2>1 DEF VotesCounted
<1>4. LookupGood(NoLookup, votes, votedAt, now)
  <2>1. /\ DOMAIN NoLookup = LookupFields /\ NoLookup.pc = "idle" /\ NoLookup.at = 0
        /\ NoLookup.presences = {} /\ NoLookup.warned = FALSE
    BY DEF NoLookup, LookupFields
  <2> QED  BY <1>1, <2>1 DEF LookupGood
<1>5. LookupsGood
  <2>1. lk = [c \in Clients |-> NoLookup]
    BY <1>1 DEF LookupsInit
  <2> QED  BY <1>4, <2>1 DEF LookupsGood
<1> QED  BY <1>2, <1>3, <1>5 DEF LookupsInv

\* Places and the other things are looked up at the same time, which the
\* bounds of Next leave out.
Meanwhile ==
  \/ GeocodingNext /\ UNCHANGED <<now, lookupVars>>
  \/ (\E c \in Clients : LookupStep(c)) /\ UNCHANGED <<now, votes, votedAt, geocodingVars>>
  \/ Vote /\ UNCHANGED <<now, geocodingVars>>
  \/ Tick

\* Every step keeps both invariants.
LEMMA MeanwhileInv ==
  GeocodingInv /\ LookupsInv /\ [Meanwhile]_vars => (GeocodingInv /\ LookupsInv)'
<1> SUFFICES ASSUME GeocodingInv, LookupsInv, [Meanwhile]_vars
             PROVE  GeocodingInv' /\ LookupsInv'
  OBVIOUS
<1>1. now \in Nat /\ now <= MaxTime /\ MaxTime \in Nat /\ now \in 0 .. MaxTime
  BY LookupTypes DEF LookupsInv, Clock
<1>2. CASE GeocodingNext /\ UNCHANGED <<now, lookupVars>>
  <2>1. GeocodingInv'
    BY <1>2, GeocodingNextKeeps
  <2>2. UNCHANGED lookupVars /\ now' \in 0 .. MaxTime /\ now <= now'
    BY <1>1, <1>2
  <2> QED  BY <2>1, <2>2, LookupsWait
<1>3. CASE (\E c \in Clients : LookupStep(c)) /\ UNCHANGED <<now, votes, votedAt, geocodingVars>>
  <2>1. LookupsInv'
    BY <1>3, LookupStepKeeps
  <2>2. UNCHANGED geocodingVars /\ now' \in 0 .. MaxTime /\ now <= now'
    BY <1>1, <1>3
  <2> QED  BY <2>1, <2>2, GeocodingWaits
<1>4. CASE Vote /\ UNCHANGED <<now, geocodingVars>>
  <2>1. LookupsInv'
    BY <1>4, VoteKeeps
  <2>2. UNCHANGED geocodingVars /\ now' \in 0 .. MaxTime /\ now <= now'
    BY <1>1, <1>4
  <2> QED  BY <2>1, <2>2, GeocodingWaits
<1>5. CASE Tick \/ UNCHANGED vars
  <2>1. UNCHANGED <<geocodingVars, lookupVars>> /\ now' \in 0 .. MaxTime /\ now <= now'
    BY <1>1, <1>5 DEF Tick, vars
  <2> QED  BY <2>1, GeocodingWaits, LookupsWait
<1> QED  BY <1>2, <1>3, <1>4, <1>5 DEF Meanwhile

LEMMA NextIsMeanwhile == Next => Meanwhile
BY DEF Next, Meanwhile

LEMMA LookupsInvCaches == GeocodingInv /\ LookupsInv => CachesAreTrue
<1> SUFFICES ASSUME GeocodingInv, LookupsInv  PROVE CachesAreTrue
  OBVIOUS
<1>1. \A c \in Clients : LookupGood(lk[c], votes, votedAt, now)
  BY DEF LookupsInv, LookupsGood
<1>2. TypeOK
  <2>1. \A c \in Clients : lk[c].presences \subseteq [facility : Facilities, network : Networks, distance : Nat]
    BY <1>1 DEF LookupGood, PresenceType
  <2>2. \A p \in Procs : coolUntil[p] \in 0 .. (MaxTime + NearbyCooldown)
    BY DEF LookupsInv, Cooling
  <2> QED  BY <2>1, <2>2, GeocodingInvRecent DEF TypeOK
<1>3. CoolingProcessAsksNothing
  BY <1>1 DEF LookupGood, CoolingProcessAsksNothing, Asking
<1>4. NearbyIsAsAsked
  <2> SUFFICES ASSUME NEW c \in Clients, Stands(c, "nearby", "answered"), ~ lk[c].failed
               PROVE  Near(lk[c].ask.spot, lk[c].answer)
    BY DEF NearbyIsAsAsked, Near
  <2>1. lk[c].pc = "answered" /\ lk[c].ask.op = "nearby"
    BY DEF Stands
  <2>2. OfNearby(lk[c])
    BY <1>1, <2>1 DEF LookupGood
  <2> QED  BY <2>1, <2>2 DEF OfNearby
<1>5. FailuresAreNotKept
  <2> SUFFICES ASSUME NEW c \in Clients, Stands(c, "weather", "answered"), lk[c].failed
               PROVE  lk[c].origin # "cache"
    BY DEF FailuresAreNotKept
  <2>1. lk[c].pc = "answered" /\ lk[c].ask.op = "weather"
    BY DEF Stands
  <2>2. OfWeather(lk[c])
    BY <1>1, <2>1 DEF LookupGood
  <2> QED  BY <2>1, <2>2 DEF OfWeather
<1>6. PopularityIsRecent
  <2> SUFFICES ASSUME NEW c \in Clients, Stands(c, "popularity", "answered"),
                      lk[c].origin = "cache", lk[c].answer # votes
               PROVE  votedAt[lk[c].answer + 1] > lk[c].at - PopularityTtl
    BY DEF PopularityIsRecent
  <2>1. lk[c].pc = "answered" /\ lk[c].ask.op = "popularity"
    BY DEF Stands
  <2>2. OfPopularity(lk[c], votes, votedAt) /\ lk[c].at \in Nat
    BY <1>1, <2>1 DEF LookupGood
  <2>3. PICK v \in 0 .. votes : /\ v = lk[c].answer /\ v # votes
                                /\ votedAt[v + 1] >= (lk[c].at - PopularityTtl) + 1
    BY <2>1, <2>2 DEF OfPopularity, RightSince
  <2>4. votedAt[v + 1] \in Nat
    <3>1. votes \in Nat /\ votedAt \in Seq(Nat) /\ Len(votedAt) = votes
      BY DEF LookupsInv, VotesCounted
    <3> QED  BY <2>3, <3>1
  <2>5. PopularityTtl \in Nat
    BY LookupTypes
  <2> QED  BY <2>2, <2>3, <2>4, <2>5
<1> QED  BY <1>2, <1>3, <1>4, <1>5, <1>6, GeocodingInvRecent DEF CachesAreTrue

\* What caches and cool-downs answer in place of a question is what it would
\* have brought not long ago: suggestions and popularity were right within the
\* time they are kept, presences are at the distance from the spot asked for
\* and near it, a failure is not an answer to the next, and a process that was
\* refused asks nothing while it cools down (location_search_store.py,
\* nearby_network_store.py, weather_store.py, cli/registry.py).
THEOREM CachesStayTrue == Spec => []CachesAreTrue
<1>1. Init => GeocodingInv /\ LookupsInv
  BY GeocodingInitInv, LookupsInitInv
<1>2. GeocodingInv /\ LookupsInv /\ [Next]_vars => (GeocodingInv /\ LookupsInv)'
  BY NextIsMeanwhile, MeanwhileInv
<1>3. GeocodingInv /\ LookupsInv => CachesAreTrue
  BY LookupsInvCaches
<1> QED  BY <1>1, <1>2, <1>3, PTL DEF Spec

\* A request for the points of a map is answered, and every entity of it that
\* has a place is a point of the answer, every other one with a label is a
\* point or named as unresolved, whatever lookups fail and whoever stores the
\* same name meanwhile (map_store.py, location_search_store.py).
THEOREM MapsAreAnswered == Spec => []MapIsAnswered
<1>1. Init => GeocodingInv /\ LookupsInv
  BY GeocodingInitInv, LookupsInitInv
<1>2. GeocodingInv /\ LookupsInv /\ [Next]_vars => (GeocodingInv /\ LookupsInv)'
  BY NextIsMeanwhile, MeanwhileInv
<1>3. GeocodingInv => MapIsAnswered
  BY GeocodingInvMap
<1> QED  BY <1>1, <1>2, <1>3, PTL DEF Spec

\* Both hold as well while places are looked up at the same time as networks,
\* the weather and popularity: the stores share nothing but the clock.
THEOREM TrueMeanwhile == Init /\ [][Meanwhile]_vars => [](CachesAreTrue /\ MapIsAnswered)
<1>1. Init => GeocodingInv /\ LookupsInv
  BY GeocodingInitInv, LookupsInitInv
<1>2. GeocodingInv /\ LookupsInv /\ [Meanwhile]_vars => (GeocodingInv /\ LookupsInv)'
  BY MeanwhileInv
<1>3. GeocodingInv /\ LookupsInv => CachesAreTrue /\ MapIsAnswered
  BY LookupsInvCaches, GeocodingInvMap
<1> QED  BY <1>1, <1>2, <1>3, PTL
=============================================================================
