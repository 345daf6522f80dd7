--------------------------- MODULE MCTransformJobs ---------------------------
(***************************************************************************)
(* Small instances of TransformJobs; identities of one kind are            *)
(* interchangeable.                                                        *)
(***************************************************************************)
EXTENDS TransformJobs, TLC

CONSTANTS j1, j2, w1, w2, a1, u1, u2

OneJob     == {j1}
TwoJobs    == {j1, j2}
NoWorker   == {}
OneWorker  == {w1}
TwoWorkers == {w1, w2}
NoAgent    == {}
OneAgent   == {a1}
OneUser    == {u1}
TwoUsers   == {u1, u2}

Symmetry == Permutations(Jobs) \cup Permutations(Workers) \cup Permutations(Users)
=============================================================================
