SPECIFICATION ProcessSpec
CONSTANTS
  par = par
  paris = paris
  here = here
  there = there
  f1 = f1
  f2 = f2
  x = x
  y = y
  None = None
  Clients = {c1, c2}
  Names = {par, paris}
  Places = {here, there}
  Under <- Beginnings
  Projects <- Maps
  Facilities = {f1, f2}
  Listings <- AllOrNone
  Networks = {1}
  Spots = {x, y}
  Distance <- Distances
  Radius = 5
  MaxFacilities = 2
  MaxNames = 1
  MemoryTtl = 2
  Cooldown = 2
  NearbyTtl = 2
  NearbyCooldown = 2
  PopularityTtl = 2
  MaxTime = 2
  MaxRequests = 2
  MaxVotes = 2
  MaxLookups = 3
  Nobody = Nobody
  Sockets = {s1, s2, s3}
  MaxEvents = 2
  MaxLosses = 1
SYMMETRY Symmetry
CONSTRAINTS TwoAtMost
INVARIANT CooldownKept
CHECK_DEADLOCK FALSE
