SPECIFICATION Spec
CONSTANTS
  s1 = s1
  s2 = s2
  d1 = d1
  d2 = d2
  Reviews = {s1, s2}
  Learners = {"l1"}
  Missions = {"ordering"}
  Desks = {d1, d2}
  Environments <- Anywhere
  ReviewTtl = 2
  Submissions <- Sent
  Terms <- Configured
  FirstTerms <- First
  MaxTime = 3
SYMMETRY Symmetry
INVARIANTS ApprovedMeansPaid ToldIsCredited DecidedHasNoText
PROPERTIES DecidedOnceOverMirror OnlyAnAwardOverrides
CHECK_DEADLOCK FALSE
