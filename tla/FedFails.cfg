SPECIFICATION Spec
CONSTANTS
  NEVER <- MCNever
  FOREVER = 9
  UINT_MAX = 5
  Federates <- MCFederates
  MaxUnread = 1
  Programs <- FailingPrograms
INVARIANTS
  NoneFails
CHECK_DEADLOCK FALSE
