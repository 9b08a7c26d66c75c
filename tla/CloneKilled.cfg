\* A container killed while git clones.
SPECIFICATION Spec
CHECK_DEADLOCK FALSE
CONSTANTS
  SourceLists <- MCSiblings
  KillsMidClone = TRUE
  MaxFaults = 1
INVARIANTS AgentSeesSources
