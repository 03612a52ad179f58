SPECIFICATION PlanSpec
CONSTANTS
  Processes = {p1, p2}
  MaxDeaths = 1
  NumOperations = 2
  MaxRuns = 3
  MaxFaults = 2
SYMMETRY Symmetry
INVARIANTS ExclusiveAmongTheLiving ResumableButForFour SummaryIsTrue
CHECK_DEADLOCK FALSE
