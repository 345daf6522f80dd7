------------------------- MODULE MCInvestigatorLoop -------------------------
(***************************************************************************)
(* Small instances of InvestigatorLoop: three entities, of which a         *)
(* selected scope holds the first, and one transform family.               *)
(***************************************************************************)
EXTENDS InvestigatorLoop, TLC

CONSTANTS r1, r2

TwoRuns == {r1, r2}
OneRun  == {r1}

ThreeEntities == 1 .. 3
TwoLinks      == 1 .. 2
Types         == <<"domain", "person", "person">>

Call(tool, entity, link) ==
  [tool |-> tool, entity |-> entity, link |-> link, family |-> "dns"]

SecondEntity == Call("get_entity", 2, None)
CreateSecond == Call("create_entity", 2, 1)
RunOn(e)     == Call("run_transform", e, None)

ReadOld      == Call("get_transform_result", None, None)

ListAll      == Call("list_entities", None, None)

FewCalls == {ListAll, SecondEntity, CreateSecond, RunOn(1), RunOn(3), ReadOld}

FirstSelected == {[mode |-> "selected", ids |-> {1}]}

PoorOrRich == {<<{}, {}>>, <<{2, 3}, {1, 2}>>}

Symmetry == Permutations(Runs)
=============================================================================
