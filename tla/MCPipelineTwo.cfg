SPECIFICATION Spec
CONSTANTS
  Resources <- TwoResources
  MaxResources = 1
  MaxRequests = 2
  MaxAttempts = 1
  MaxRedirects = 1
  MaxBytes = 1
  MaxWall = 1
  MaxUsage = 1
  MaxGeneration = 1
  FetchReasons = {"unreachable"}
  Commands = {"run", "continue", "unreachable", "recover"}
  Changes = {"discover", "supersede"}
INVARIANTS FetchIsFunded
