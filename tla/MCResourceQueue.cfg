SPECIFICATION Spec
CONSTANTS
  Resources <- MCResources
  MaxResources = 1
  MaxRequests = 3
  MaxAttempts = 2
  MaxRedirects = 1
  MaxBytes = 1
  MaxWall = 1
  MaxUsage = 1
  MaxGeneration = 2
INVARIANTS WithinBudget ReservationBalanced
PROPERTIES NoRefund
