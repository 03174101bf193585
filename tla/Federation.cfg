SPECIFICATION FairSpec
CONSTANTS
  NEVER <- MCNever
  FOREVER = 9
  UINT_MAX = 5
  Federates <- MCFederates
  MaxUnread = 1
  Programs <- MCPrograms
INVARIANTS
  GrantsHold
  MessagesOnTime
  StopTogether
PROPERTIES
  AllResign
CHECK_DEADLOCK FALSE
