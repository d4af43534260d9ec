CONSTANTS
  None = None
  u1 = u1
  u2 = u2
  Requests = {"a", "u", "c"}
  Kind <- MCKind
  Routes = {"r1"}
  Starts <- MCStarts
  MaxLives = 2
  MaxSignals = 2
SPECIFICATION MCSpec
SYMMETRY Permits
CHECK_DEADLOCK FALSE
INVARIANTS ProcessSound ProgramsSound AccessSound
