CONSTANTS
  a1 = a1
  a2 = a2
  Attempts = {a1, a2}
  AttemptTimeout = 2
  Policies <- SomePolicies
  MaxRevisions = 2
  k1 = k1
  b1 = b1
  d1 = d1
  None = None
SPECIFICATION MCSpec
INVARIANTS HoldsAccounted
PROPERTIES ReleasesStand HoldsDrain DeliveriesSettle
