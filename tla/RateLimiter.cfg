SPECIFICATION Spec
CONSTANTS
  Clients = {c1, c2}
  MaxRequests = 2
  Second = 2
  Window = 5
  MaxClock = 10
SYMMETRY ClientSymmetry
INVARIANTS
  WindowBound
PROPERTIES
  RefusedAtLimitOnly
  RetryWithinASecond
CHECK_DEADLOCK FALSE
