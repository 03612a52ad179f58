SPECIFICATION FairSpec
CONSTANTS
  Resources <- OneResource
  MaxResources = 1
  MaxRequests = 2
  MaxAttempts = 2
  MaxRedirects = 1
  MaxBytes = 1
  MaxWall = 1
  MaxUsage = 1
  MaxGeneration = 2
  FetchReasons = {"unreachable"}
  Commands = {"run", "continue", "unreachable", "reconcile", "recover", "delete"}
  Changes = {"discover", "promote", "supersede", "curate"}
INVARIANTS CanonicalFirst
PROPERTIES QueueContract CommandsEnd
