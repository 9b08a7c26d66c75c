\* Failed clones and containers killed between clones, sources nested or not.
SPECIFICATION FairSpec
CHECK_DEADLOCK FALSE
CONSTANTS
  SourceLists <- MCAll
  KillsMidClone = FALSE
  MaxFaults = 4
INVARIANTS TypeOK AgentSeesSources
PROPERTIES Starts
