SPECIFICATION Spec
CONSTANTS
  Null = Null
  Missing = Missing
  Corrupt = Corrupt
  s1 = s1
  l1 = l1
  a1 = a1
  Scopes = {s1}
  Lenses = {l1}
  Actors = {a1}
  ScopeOf <- OneScope
  Runs = {r1}
  Keys = {k1, k2, k3}
  LegacyKeys = {j1, j2}
  Digests = {h1}
  Verdicts <- AgentDismissed
  MaxJudgments = 3
  MaxFaults = 2
SYMMETRY KeysAlike
INVARIANTS ToldIsKept ResolveIsDurable RefusalsAreKnown NoForeignLog
CHECK_DEADLOCK FALSE
