SPECIFICATION Spec
CONSTANTS
  d1 = d1
  None = None
  Devices = {d1}
  Calls = {1}
  Addresses = {"library", "home", "phone"}
  AddressOf <- HomeAddress
  Codes = {"paper"}
  Wrong = "typo"
  Limit = 2
  Window = 2
  MaxKeys = 2
  MaxGen = 1
  MaxRestarts = 1
INVARIANTS GuessesBounded
PROPERTIES ForgetsTheColdest
CHECK_DEADLOCK FALSE
