SPECIFICATION Spec
CONSTANTS
  Keys = {k1, k2}
  Calls = {c1, c2, c3, c4, c5}
  MaxRequests = 2
  Window = 3
  MaxDelay = 1
  MaxTime = 4
CHECK_DEADLOCK FALSE
SYMMETRY Symmetry
INVARIANTS
  WindowBound
  RefusalsJustified
