SPECIFICATION Spec
CONSTANTS
  None = None
  Empty = Empty
  Versions = {v1, v2, v3}
  Configs = {c1, c2}
  MaxFaults = 2
SYMMETRY Alike
INVARIANTS
  InstallationsAreWhole
  WayOut
PROPERTIES
  RefusedChangesNothing
CHECK_DEADLOCK FALSE
