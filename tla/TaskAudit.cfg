\* A pinned task edited to unattended; current caches, no faults.
SPECIFICATION Spec
CHECK_DEADLOCK FALSE
CONSTANTS
  None = None
  WorkspaceRoot <- MCRoot
  TaskSpecs <- MCTaskSpecsPlain
  WorkspaceSpecs <- MCWorkspaceSpecsOpen
  SecretContents <- MCNoSecret
  SecretNames = {"s"}
  FreshCache = TRUE
  MaxEdits = 3
  MaxFaults = 0
INVARIANTS UnattendedIsAudited
