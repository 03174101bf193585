SPECIFICATION Spec
CONSTANTS
  RangeLimit = 1
  DELAY_START = 1
  Scenarios <- StoppingScenarios
  Attempts = 2
  Exchanges = 1
  MaxRounds = 2
INVARIANTS
  StartComesFirst
CHECK_DEADLOCK FALSE
