\* Three workers.
SPECIFICATION FairSpec
CONSTANTS
  Workers = {0, 1, 2}
  Reactions = {"a", "b", "c", "d", "e"}
  MaxLevel = 2
  Level <- MCLevel
  Effects <- MCEffects
  TriggeredAtStart = {"a", "b"}
  Pops <- MCPops
  Shutdown = {"c"}
  Timeouts = {0, 1}
  None = None
  Deadline <- MCDeadline
  Index <- MCIndex
  Chains <- MCChains
  Hash <- MCHash
  Spurious = FALSE
  Chosen = {"GEDF_NP", "GEDF_NP_CI", "ADAPTIVE"}
INVARIANTS
  NothingLost
  
PROPERTIES
  ImplementsTagExecution
  Termination
