SPECIFICATION Spec
CONSTANTS
  Operations <- Two
  Ends <- EntryAndRelation
  MaxAttempts = 2
  MaxInvocations = 3
INVARIANTS RecordsAgree DeliveredInOrder SendIsAuthorisedOrReplays
PROPERTIES AuthorityImplemented
CHECK_DEADLOCK FALSE
