\* Three workers.
SPECIFICATION MCFairSpec
CONSTANTS
  Workers = {0, 1, 2}
  Reactions = {"a", "b", "c", "d", "e"}
  MaxLevel = 2
  Level <- DiamondLevel
  Effects <- DiamondEffects
  Stoppers = {"c"}
  TriggeredAtStart = {"a", "b"}
  Pops <- DiamondPops
  Shutdown = {"e"}
  Timeouts = {0, 2}
  None = None
INVARIANTS
  NumbersDiffer
  SlotIsFree
  NotifyCountsReactions
  LevelIsCurrent
  LastIsAlone
PROPERTIES
  ImplementsTagExecution
  Termination
