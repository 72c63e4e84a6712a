SPECIFICATION Spec
CONSTANTS
  l1 = l1
  l2 = l2
  Learners = {l1, l2}
  Missions = {"ordering"}
  Items = {"coffee"}
  admin = "admin"
  verifier = "verifier"
  redeemer = "redeemer"
  fulfiller = "fulfiller"
  Actors = {"admin", "verifier", "redeemer", "fulfiller"}
  MAX_MISSION_REWARD = 2
  LIFETIME_CAP = 4
  CREDIT_TTL = 2
  REFUND_GRACE_PERIOD = 1
  MaxStock = 4
  Rewards = {2}
  Versions = {1, 2}
  Costs = {1}
  Stocks = {2}
  RoleChanges <- Rotation
  MaxSwaps = 2
  MaxTime = 3
SYMMETRY Symmetry
INVARIANTS TypeOK Conservation Solvency ExtractionBounded RefundNeverWaits
PROPERTIES SwapsDecidedOnce RefundIsUsable OnlyExpiredCreditsExpire DeadlineNeverShortened StockAccounted AwardOncePerVersion
CHECK_DEADLOCK FALSE
