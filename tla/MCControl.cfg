SPECIFICATION Spec
CONSTANTS
  None = None
  Processes = {p1, p2}
  RunIds = {r1, r2}
  Drafts = {d1}
  MaxSaves = 2
  MaxWork = 2
  MaxMoves = 1
  MaxFaults = 1
SYMMETRY Symmetry
INVARIANTS
  DocumentsAreKept
  RunsAreWhole
  StaleIsOneCommit
PROPERTIES
  LeaseIsTheHolders
CHECK_DEADLOCK FALSE
CONSTRAINT FewSaves
