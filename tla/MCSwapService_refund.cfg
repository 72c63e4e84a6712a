SPECIFICATION Spec
CONSTANTS
  r1 = r1
  r2 = r2
  o1 = o1
  o2 = o2
  None = None
  Requests = {r1}
  Operators = {o1}
  LookupAttempts = 2
  Patient = FALSE
  Faults = {}
  MaxFaults = 0
INVARIANTS NobodyGetsBoth
CHECK_DEADLOCK FALSE
