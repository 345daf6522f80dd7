SPECIFICATION Spec
CONSTANTS
  x = x
  y = y
  t1 = t1
  t2 = t2
  c = c
  Server = Server
  None = None
  Slugs <- TwoSlugs
  Names = {"a", "b", "dns"}
  BuiltIns = {"dns"}
  Tasks <- TwoTasks
  Clis <- OneCli
  MaxRevision = 2
  MaxOperations = 2
  MaxRestarts = 1
  Version <- MCVersion
  Defines <- MCDefines
  Needs <- MCNeeds
  Checksummed <- XOnly
  Bundled = {}
  RefusedTiers <- YOnly
SYMMETRY Symmetry
INVARIANTS
  FilesFollowLock
  NotModifiedIsCurrent
  ServerFollowsLock
PROPERTIES
  NoDowngrade
