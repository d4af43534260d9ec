CONSTANTS
  i1 = i1 i2 = i2 i3 = i3 r1 = r1 a1 = a1 a2 = a2 a3 = a3 d1 = d1 sx = sx sy = sy
  None = None
  MaxInvocations = 2
  Admitted = {2}
  MaxRequests = 1
SPECIFICATION MCSpec
INVARIANTS ProcessesSound SessionSound
PROPERTIES RuntimeEnds
CHECK_DEADLOCK FALSE
