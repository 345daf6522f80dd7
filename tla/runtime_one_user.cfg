SPECIFICATION FairSpec
CONSTANTS
  w1 = w1
  w2 = w2
  u1 = u1
  u2 = u2
  r1 = r1
  r2 = r2
  None = None
  Runs <- OneRun
  Workers <- TwoWorkers
  Users <- OneUser
  Tools = {"list_entities", "run_transform"}
  ReadOnlyTools = {"list_entities"}
  GatedTools = {"run_transform"}
  Transforms = {"run_transform"}
  MaxSteps = 3
  MaxTransforms = 1
  ActiveIndex = TRUE
  Untimely = FALSE
  MaxRows = 8
  MaxCrashes = 1
INVARIANTS
  TypeOK
  OneAtATime
  BudgetKept
  StatusesAreBacked
  NoTransformTwice
PROPERTIES
  CallsAreGated
  RunsEndOrWait
CHECK_DEADLOCK FALSE
