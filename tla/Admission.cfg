CONSTANTS
  retried = retried
  run = run
  rival = rival
  w1 = w1
  w2 = w2
  Tasks = {t1, t2}
  MaxGeneration = 1
  Policies <- RatedPolicies
  MaxRevisions = 1
  Lease = 1
  AttemptTimeout = 2
  Backoff = 1
  Budgeted = {t1, t2}
SPECIFICATION MCSpec
CHECK_DEADLOCK FALSE
INVARIANTS BooksAgree
PROPERTIES OccupancyGrows
SYMMETRY Symmetry
