SPECIFICATION Spec
CONSTANTS
  a = a
  b = b
  ab = ab
  ba = ba
  r1 = r1
  r2 = r2
  r3 = r3
  Entities = {a, b}
  Edges = {ab, ba}
  Source <- Forwards
  Target <- Backwards
  Requests = {r1, r2, r3}
  MaxStrays = 1
SYMMETRY Symmetry
INVARIANTS
  TypeOK
  EngineConsistent
  EntitiesComplete
  OperatorsAreRight
PROPERTIES
  RefreshRepairs
CHECK_DEADLOCK FALSE
