\* A Workspace edited after it was found Ready; current caches, no faults.
SPECIFICATION Spec
CHECK_DEADLOCK FALSE
CONSTANTS
  None = None
  WorkspaceRoot <- MCRoot
  TaskSpecs <- MCTaskSpecsPlain
  WorkspaceSpecs <- MCWorkspaceSpecsDuplicate
  SecretContents <- MCNoSecret
  SecretNames = {"s"}
  FreshCache = TRUE
  MaxEdits = 3
  MaxFaults = 0
PROPERTIES PinsOnlyValidated
