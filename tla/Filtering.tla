------------------------------ MODULE Filtering ------------------------------
(***************************************************************************)
(* What is left of a list when only some of its places are kept, in their  *)
(* order: what SelectSeq does by a test on elements, stated by places, so  *)
(* that it can be proved about.                                            *)
(***************************************************************************)
EXTENDS Sequences, FiniteSets, Integers

\* How many of the places in P come no later than i.
Rank(i, P) == Cardinality({j \in P : j <= i})

\* The elements of s at the places in P.
AtPlaces(s, P) ==
  [k \in 1 .. Cardinality(P) |-> s[CHOOSE i \in P : Rank(i, P) = k]]

\* The elements of s that are in S.
Only(s, S) == AtPlaces(s, {i \in DOMAIN s : s[i] \in S})

\* The elements of s, each where it comes first.
Distinct(s) == AtPlaces(s, {i \in DOMAIN s : \A j \in 1 .. i - 1 : s[j] # s[i]})
=============================================================================
