SPECIFICATION Spec
CONSTANTS
  Costs = {100, 120}
  FirstCost = 100
  FirstStock = 2
INVARIANTS NothingListedBeyondFunded
