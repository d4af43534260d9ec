CONSTANTS
  c1 = c1
  c2 = c2
  Calls <- Pair
  Key <- TwoKeys
  QueueOf <- OneQueue
  MaxProbes = 1
  MaxWaiters = 2
  MaxSubscribers = 2
  MaxTasks = 1
  MaxArrivals = 1
  MaxExchanges = 2
  MayStop = TRUE
  None = None
  HintQueues = {"a", "b"}
  MaxHints = 1
  MaxChannel = 2
SPECIFICATION MCSpec
CHECK_DEADLOCK FALSE
INVARIANTS TurnsSound NothingSlipsThrough
PROPERTIES TaskIsFound
