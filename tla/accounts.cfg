SPECIFICATION Spec
CONSTANTS
  Owner = owner
  Guest = guest
  None = None
  Hooks = {h1, h2}
  Gates = {c1, c2}
  Subs = {s1, s2}
  Secrets = {k1, k2}
  Roles = {"editor", "viewer"}
  RowIds = {1, 2, 3, 4}
  Period = 2
  FreeCooldown = 2
  PaidCooldown = 0
  MaxTime = 3
  MaxVersion = 2
  MaxFailures = 1
  MaxRequests = 3
  MaxMixed = 2
SYMMETRY Symmetry
CONSTRAINTS FewEvents Related
INVARIANTS
  RequestsSettle
  CooldownKept
  PaidMeansPaidFor
  SubscriptionSettles
CHECK_DEADLOCK FALSE
