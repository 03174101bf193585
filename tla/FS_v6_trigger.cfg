SPECIFICATION MCSpec
CONSTANTS
  Workers = {0, 1}
  Reactions = {0, 1, 2, 3, 4}
  Reactors = {0, 1, 2, 3}
  Counters = {0}
  Schedule <- V6
  Effects <- TestEffects
  TriggeredAtStart = {0, 1, 2}
  Scanned = {1, 2, 3}
  StopTime = 1
  TagCap = 1
  MaxIteration = 0
  MaxNow = 0
  NoWorker = NoWorker
  NoReaction = NoReaction
INVARIANTS
  TriggeredWhenReached
