CONSTANTS
  LeaseDuration = 3
  CleanupGrace = 1
  SessionValidity = 20
  AttemptTimeout = 6
  RetryDelay = 0
  MaxAttempts = 2
  MaxGeneration = 2
  Tasks = {t1}
  Sessions = {s1}
  Consumers = {c1, c2}
  None = None
  MaxTime = 5
  ClaimHorizon = 3
  MaxRenewals = 1
  MaxSequence = 1
  SafetyMargin = 2
  RequestTimeout = 2
  ConfirmTimeout = 2
  ExtendInterval = 2
  MaxLag = 1
SPECIFICATION WSpec
INVARIANTS WorkIsPermitted ReportsAgree
PROPERTIES  NoRevival
CHECK_DEADLOCK FALSE
SYMMETRY Symmetry
VIEW LongSessions
