SPECIFICATION FairSpec
CONSTANTS
  d1 = d1
  None = None
  Devices = {d1}
  Calls = {1, 2}
  Addresses = {"library"}
  AddressOf <- HomeAddress
  Codes = {"paper"}
  Wrong = "typo"
  Limit = 2
  Window = 2
  MaxKeys = 1
  MaxGen = 2
  MaxRestarts = 1
INVARIANTS TypeOK 
PROPERTIES EveryCallIsAnswered
CHECK_DEADLOCK FALSE
