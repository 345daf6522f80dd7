SPECIFICATION FairSpec
CONSTANTS
  j1 = j1
  j2 = j2
  w1 = w1
  w2 = w2
  a1 = a1
  u1 = u1
  u2 = u2
  NoJob = NoJob
  Jobs <- OneJob
  Workers <- OneWorker
  Agents <- OneAgent
  Users <- TwoUsers
  Prompt = TRUE
  Faults = {"restart", "drop", "death", "redis", "database", "escape"}
  MaxFaults = 2
  MaxCancels = 2
  MaxRecent = 1
INVARIANTS
  ScreenAgrees
PROPERTIES
  ScreenSettles
  
CHECK_DEADLOCK FALSE
