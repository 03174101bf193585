SPECIFICATION FairSpec
CONSTANTS
  RangeLimit = 1
  DELAY_START = 1
  Scenarios <- MCScenarios
  Attempts = 2
  Exchanges = 1
  MaxRounds = 2
INVARIANTS
  StartAgreed
  
  StartComesFirst
  
PROPERTIES
  EveryoneStarts
CHECK_DEADLOCK FALSE
