SPECIFICATION Spec
CONSTANTS
  r1 = r1
  r2 = r2
  o1 = o1
  o2 = o2
  None = None
  Requests = {r1, r2}
  Operators = {}
  LookupAttempts = 2
  Patient = TRUE
  Faults = {}
  MaxFaults = 0
INVARIANTS NothingLost
CHECK_DEADLOCK FALSE
