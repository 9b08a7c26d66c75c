SPECIFICATION Spec
CONSTANTS
  None = None
  WorkspaceRoot <- MCRoot
  NoteMax = 8
  Families <- MCFamilies
  Letter <- MCLetter
  Digit <- MCDigit
  Connections <- MCConnections
  Pods <- MCPods
  Neighbours <- MCNeighbours
INVARIANTS
  SourcesAreContained FirstProblemWins ReadyResolves OneSwitchAuthorizes
  TypedPolicyWins DaemonTokenIsTheOperators EgressIsDeclared
  IngressIsAsWritten AgentWindowIsOpen StorageIsComplete NamesFit PodIsAcceptable
  PolicySelectsItsPod NoteFits
CHECK_DEADLOCK FALSE
