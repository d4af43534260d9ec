CONSTANTS
  None = None
  c1 = c1
  k1 = k1
  d1 = d1
  d2 = d2
  r1 = r1
SPECIFICATION MCSpec
CHECK_DEADLOCK FALSE
PROPERTIES WorkflowsEnd OperationsEnd
