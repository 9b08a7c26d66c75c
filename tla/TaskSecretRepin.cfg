\* A token Secret that goes away and comes back; current caches, no faults.
SPECIFICATION Spec
CHECK_DEADLOCK FALSE
CONSTANTS
  None = None
  WorkspaceRoot <- MCRoot
  TaskSpecs <- MCTaskRemote
  WorkspaceSpecs <- MCWorkspaceSpecsOpen
  SecretContents <- MCSecret
  SecretNames = {"s"}
  FreshCache = TRUE
  MaxEdits = 5
  MaxFaults = 0
PROPERTIES RunningNotRepinned
