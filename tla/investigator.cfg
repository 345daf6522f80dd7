SPECIFICATION Spec
CONSTANTS
  r1 = r1
  r2 = r2
  None = None
  Runs <- TwoRuns
  Entities <- ThreeEntities
  Links <- TwoLinks
  TypeOf <- Types
  Drawn = {1, 2}
  Scopes <- FirstSelected
  Calls <- FewCalls
  Results <- PoorOrRich
  Provider = "gemini"
  MaxSteps = 6
  MaxTransforms = 2
  RetryAttempts = 2
  DuplicateReadReplanLimit = 2
  ToolValidationReplanLimit = 3
  KnownGraphItemLimit = 2
  TransformMemoryLimit = 2
  FamilyMinRuns = 1
  LowYieldThreshold = 1
  MaxExhaustedPaths = 2
  MaxRecentRuns = 2
  MaxAsked = 3
  MaxMeddling = 1
SYMMETRY Symmetry
INVARIANTS
  LimitsKept
  ScopeKept
  ComplaintsAreHeard
  MemoryTellsHowRunsEnded
CHECK_DEADLOCK FALSE
