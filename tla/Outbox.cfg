CONSTANTS
  None = None
  Tasks = {t1}
  Publishers = {p1}
  Slots = {c1}
  MaxAttempts = 2
  RetryDelay = 1
  PublicationLease = 2
  PublicationRetry = 1
  PublicationRepair = 2
  BatchBudget = 1
  CapacityDelay = 1
  BatchLimit = 1
  Tokens = {k1, k2}
  MaxLate = 1
SPECIFICATION MCSpec
INVARIANTS OutboxSound
PROPERTIES QueuedIsClaimed ProcessEnds
