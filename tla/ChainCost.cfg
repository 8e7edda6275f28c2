\* One slot or two, samples below, between and above the clamps.
SPECIFICATION FairSpec
CONSTANTS
  Boxes <- QuarterCPUs
  SlotsEnv = {0, 1, 9}
  MaxRun = 2
  Costs = {0, 11, 22}
  Steady = 2
  MinCost = 1
  MaxCost = 15
  Allowance = 18
  Floor = 8
  MaxLanes = 2
INVARIANTS TypeOK CostBounded
PROPERTIES NeverWorse Recovers
