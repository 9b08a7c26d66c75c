\* A Workspace that becomes Ready after it had failed.
SPECIFICATION FairSpec
CONSTANTS
  None = None
  WorkspaceRoot <- MCRoot
  WorkspaceSpecs <- MCWorkspaceSpecs
  SecretNames = {"s", "t"}
  Keys = {"k", "l"}
  MaxEdits = 2
  MaxFaults = 0
PROPERTIES StopsPatching
