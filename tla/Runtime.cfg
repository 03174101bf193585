\* Nine programs.  A program ends, and no thread is left.
CONSTANTS
    NEVER <- MCNever
    FOREVER <- MCForever
    UINT_MAX = 100
    Programs <- MCPrograms
SPECIFICATION FairSpec
INVARIANTS
  AgendaKept
  NoDangling
  EventsApart
  ModeFlagsAgree
  LocalTime
  RightOrder
PROPERTIES
  Termination
CHECK_DEADLOCK FALSE
