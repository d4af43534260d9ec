CONSTANTS
  None = None
  c1 = c1
  c2 = c2
  k1 = k1
  k2 = k2
  Members = {"r", "w", "t", "u"}
  RootRun = "r"
  DelegatorOf <- MCDelegator
  Calls = {"e", "p", "o"}
  OwnerOf <- MCOwner
  Kind <- MCKind
  Commands = {c1, c2}
  Forks = {k1}
  MaxCalls = 2
  MaxDelegations = 2
  HasDeadline = TRUE
SPECIFICATION MCSpec
CHECK_DEADLOCK FALSE
INVARIANTS RunsSound WaitsSound BudgetSound SubscriptionsSound
PROPERTIES StopIsFinal LedgerStands
