SPECIFICATION Spec
CONSTANTS
  None = None
  Runs = {r1, r2}
  Channels = {c1, c2}
  Requests = {q1, q2}
  MaxCalls = 3
  MaxItems = 1
  MaxRetries = 1
  PageItems = 1
  Pages = 1
  MaxSessions = 2
  MaxSwitches = 3
  MaxFaults = 0
SYMMETRY Symmetry
INVARIANTS
  ReconnectsKeepTheWindow
  TypeOK
CHECK_DEADLOCK FALSE
