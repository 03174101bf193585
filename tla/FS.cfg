\* Ten programs; tags, laps and the clock count units of 5 ms.
SPECIFICATION LibrarySpec
CONSTANTS
  Workers = {0, 1}
  Reactions = {0, 1, 2, 3, 4}
  Reactors = {0, 1, 2, 3}
  Counters = {0, 1}
  Schedule <- Library
  Effects <- TestEffects
  TriggeredAtStart = {0, 1, 2}
  Scanned = {1, 2, 3}
  StopTime = 4
  TagCap = 6
  MaxIteration = 3
  MaxNow = 6
  NoWorker = NoWorker
  NoReaction = NoReaction
INVARIANTS
  CountersAccurate
  TriggeredInOrder
  NotBeforeTag
PROPERTIES
  WUEnds
  ClearedTogether
  MutualBarrier
  
