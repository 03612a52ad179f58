SPECIFICATION PlanSpec
CONSTANTS
  Processes = {p1, p2, p3}
  MaxDeaths = 1
  NumOperations = 0
  MaxRuns = 1
  MaxFaults = 0
INVARIANT MutualExclusion
CHECK_DEADLOCK FALSE
