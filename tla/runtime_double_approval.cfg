SPECIFICATION Spec
CONSTANTS
  w1 = w1
  w2 = w2
  u1 = u1
  u2 = u2
  r1 = r1
  r2 = r2
  None = None
  Runs <- OneRun
  Workers <- TwoWorkers
  Users <- TwoUsers
  Tools = {"list_entities", "run_transform"}
  ReadOnlyTools = {"list_entities"}
  GatedTools = {"run_transform"}
  Transforms = {"run_transform"}
  MaxSteps = 2
  MaxTransforms = 1
  ActiveIndex = TRUE
  Untimely = FALSE
  MaxRows = 5
  MaxCrashes = 0
SYMMETRY Symmetry
INVARIANTS
  ExecutedOnce
CHECK_DEADLOCK FALSE
