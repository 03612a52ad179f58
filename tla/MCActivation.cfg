SPECIFICATION RunSpec
CONSTANTS
  None = None
  doc = doc  void = void  judged = judged  routed = routed
  s1 = s1  s2 = s2
  Inventories <- MCInventories
  Strategies <- MCStrategies
  Selected <- MCSelected
  Manual <- MCManual
  MaxApprovals = 2
  MaxRuns = 2
  MaxProofs = 1
  MaxFaults = 1
SYMMETRY Symmetry
INVARIANTS
  StateIsDurable
  ProofIsOfItsPlan
  AnswersAreCurrent
PROPERTY ConfirmsOnEvidence
CHECK_DEADLOCK FALSE
