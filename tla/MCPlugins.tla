----------------------------- MODULE MCPlugins -----------------------------
(***************************************************************************)
(* A small instance of Plugins: x has a checksum and a second version that *)
(* defines other names, one of them built in; y has no checksum, shares a  *)
(* name with x and is of a tier only the CLI installs.                     *)
(***************************************************************************)
EXTENDS Plugins, TLC

CONSTANTS x, y, t1, t2, c

TwoSlugs   == {x, y}
XOnly      == {x}
YOnly      == {y}
TwoTasks   == {t1, t2}
OneCli     == {c}

MCVersion == (x :> <<1, 2>>) @@ (y :> <<1, 1>>)

ByVersion(one, two) == [v \in 0 .. 2 |-> IF v = 1 THEN one ELSE IF v = 2 THEN two ELSE {}]

MCDefines == (x :> ByVersion({"a", "b"}, {"a", "dns"})) @@ (y :> ByVersion({"b"}, {}))
MCNeeds   == (x :> ByVersion({}, {"p"})) @@ (y :> ByVersion({"q"}, {}))

Symmetry == Permutations(TwoTasks)
=============================================================================
