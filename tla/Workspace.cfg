\* Edits and Secrets changing while a reconcile fetches and patches.
SPECIFICATION FairSpec
CONSTANTS
  None = None
  WorkspaceRoot <- MCRoot
  WorkspaceSpecs <- MCWorkspaceSpecs
  SecretNames = {"s", "t"}
  Keys = {"k", "l"}
  MaxEdits = 3
  MaxFaults = 1
INVARIANTS TypeOK VerdictIsOfItsGeneration
PROPERTIES StatusConverges
