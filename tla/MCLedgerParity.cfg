SPECIFICATION Spec
CONSTANTS
  l1 = l1
  l2 = l2
  Learners = {l1}
  Missions = {"ordering"}
  Items = {"coffee"}
  admin = "admin"
  verifier = "verifier"
  redeemer = "redeemer"
  fulfiller = "fulfiller"
  Actors = {"admin", "verifier", "redeemer", "fulfiller"}
  MAX_MISSION_REWARD = 2
  LIFETIME_CAP = 3
  CREDIT_TTL = 2
  REFUND_GRACE_PERIOD = 1
  MaxStock = 4
  Rewards = {2}
  Versions = {1, 2}
  Costs = {1, 2}
  Stocks = {1}
  RoleChanges <- Rotation
  MaxSwaps = 2
  MaxTime = 3
INVARIANTS SameToTheReader MirrorSweepsFirst
PROPERTIES MirrorImplementsContract 
CHECK_DEADLOCK FALSE
