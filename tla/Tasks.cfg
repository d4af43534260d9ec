CONSTANTS
  LeaseDuration = 2
  CleanupGrace = 1
  SessionValidity = 3
  AttemptTimeout = 2
  RetryDelay = 1
  MaxAttempts = 2
  MaxGeneration = 2
  Tasks = {t1}
  Sessions = {s1}
  Consumers = {c1}
  None = None
  MaxTime = 6
  ClaimHorizon = 2
  MaxRenewals = 2
  MaxSequence = 2
SPECIFICATION MCSpec
INVARIANTS StoreSound
PROPERTIES HistorySound ImplementsFairContract ReservationReturned
CHECK_DEADLOCK FALSE
