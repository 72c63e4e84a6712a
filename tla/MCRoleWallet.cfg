SPECIFICATION Spec
CONSTANTS
  c1 = c1
  c2 = c2
  c3 = c3
  Asked = Asked
  None = None
  Callers = {c1, c2, c3}
  MaxNonce = 4
  MaxCounts = 5
SYMMETRY Symmetry
INVARIANTS SequentialCallsNeverClash KeyRecovers
CHECK_DEADLOCK FALSE
