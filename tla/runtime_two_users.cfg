SPECIFICATION CrewSpec
CONSTANTS
  w1 = w1
  w2 = w2
  u1 = u1
  u2 = u2
  r1 = r1
  r2 = r2
  None = None
  Runs <- TwoRuns
  Workers <- TwoWorkers
  Users <- TwoUsers
  Tools = {"list_entities", "run_transform"}
  ReadOnlyTools = {"list_entities"}
  GatedTools = {"run_transform"}
  Transforms = {"run_transform"}
  MaxSteps = 2
  MaxTransforms = 1
  ActiveIndex = TRUE
  Untimely = TRUE
  MaxRows = 5
  MaxCrashes = 0
SYMMETRY Symmetry
CONSTRAINT CrewWorks
INVARIANTS
  GatedCallsWereApproved
  OneActiveRun
PROPERTIES
  CancelSticksOnceQuiet
CHECK_DEADLOCK FALSE
