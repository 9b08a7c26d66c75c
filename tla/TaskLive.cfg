\* Convergence over postures, policies, storage, Secrets and a change of leader.
SPECIFICATION HandoverSpec
CHECK_DEADLOCK FALSE
CONSTANTS
  None = None
  WorkspaceRoot <- MCRoot
  TaskSpecs <- MCTaskSpecsLive
  WorkspaceSpecs <- MCWorkspaceSpecsLive
  SecretContents <- MCSecretLive
  SecretNames = {"s"}
  FreshCache = FALSE
  MaxEdits = 2
  MaxFaults = 1
INVARIANTS Authority
PROPERTIES Converges StopsWriting
