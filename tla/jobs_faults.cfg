SPECIFICATION Spec
CONSTANTS
  j1 = j1
  j2 = j2
  w1 = w1
  w2 = w2
  a1 = a1
  u1 = u1
  u2 = u2
  NoJob = NoJob
  Jobs <- TwoJobs
  Workers <- OneWorker
  Agents <- OneAgent
  Users <- OneUser
  Prompt = FALSE
  Faults = {"restart", "drop", "death", "redis", "database", "escape"}
  MaxFaults = 1
  MaxCancels = 1
  MaxRecent = 1
SYMMETRY Symmetry
INVARIANTS
  TypeOK
  CompletedJobsHaveResults
PROPERTIES
  SettledJobsRest
CHECK_DEADLOCK FALSE
