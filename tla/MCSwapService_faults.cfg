SPECIFICATION FairSpec
CONSTANTS
  r1 = r1
  r2 = r2
  o1 = o1
  o2 = o2
  None = None
  Requests = {r1}
  Operators = {o1, o2}
  LookupAttempts = 2
  Patient = TRUE
  Faults = {"crash", "rpc", "garbled"}
  MaxFaults = 2
INVARIANTS TypeOK RecordsTellTheTruth SettledIsInWallet
PROPERTIES KeepsThePromise LostOnlyBeforeItsRecord  
CHECK_DEADLOCK FALSE
