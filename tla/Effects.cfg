CONSTANTS
  None = None
  w1 = w1
  w2 = w2
  c1 = c1
  c2 = c2
  outX = outX
  outY = outY
  obs1 = obs1
  obs2 = obs2
  res1 = res1
  res2 = res2
  r1 = r1
  r2 = r2
  k1 = k1
  k2 = k2
  WorkerOf <- TwoWorkers
  Versions = {1, 2}
  ClaimIds = {c1, c2}
  Lookups = {"l"}
  Outputs = {"x", "y", outX, outY}
  ObservationIds = {obs1, obs2}
  ResolutionIds = {res1, res2}
  Actors = {"a"}
  WaitKeys = {"k"}
  MaxActivation = 3
  MaxEntries = 3
  MaxCalls = 2
  Protected = TRUE
  Origins = {"fresh", "fence", "attempt", "confirmed"}
SPECIFICATION MCSpec
CHECK_DEADLOCK FALSE
SYMMETRY Symmetry
INVARIANTS EffectSound OperationSound
PROPERTIES JournalStands WakeTellsNews
