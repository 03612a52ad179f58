SPECIFICATION Spec
CONSTANTS
  None = None
  Runs = {r1, r2}
  Channels = {c1, c2}
  Requests = {q1, q2}
  MaxCalls = 2
  MaxItems = 1
  MaxRetries = 1
  PageItems = 1
  Pages = 1
  MaxSessions = 2
  MaxSwitches = 2
  MaxFaults = 2
SYMMETRY Symmetry
INVARIANTS
  LedgerCoversTheWire
  NoLeaseIsLeft
  WindowIsOfTheSource
PROPERTIES
  ProgressUntilAdoption
CHECK_DEADLOCK FALSE
