\* An action with a minimum spacing and the default policy.
CONSTANTS
    NEVER <- MCNever
    FOREVER <- MCForever
    UINT_MAX = 100
    Programs <- MCDeferring
SPECIFICATION Spec
INVARIANTS
  SpacingKept
CHECK_DEADLOCK FALSE
