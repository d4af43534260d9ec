CONSTANTS
  Tasks = {t1, t2}
  MaxGeneration = 1
  Policies <- OneSlot
  MaxRevisions = 0
  Lease = 1
  AttemptTimeout = 1
  Backoff = 1
  Budgeted = {}
  Queues = {"a", "b", "c"}
  Sharings <- SomeSharings
  MaxRows = 3
  MaxEdits = 1
SPECIFICATION MCSpec
CHECK_DEADLOCK FALSE
INVARIANTS SharingSound AdmissionSound
PROPERTIES WaitingIsServed
