\* Postures, agent policies, stale caches and a token Secret.
SPECIFICATION Spec
CHECK_DEADLOCK FALSE
CONSTANTS
  None = None
  WorkspaceRoot <- MCRoot
  TaskSpecs <- MCTaskSpecs
  WorkspaceSpecs <- MCWorkspaceSpecs
  SecretContents <- MCSecretLive
  SecretNames = {"s"}
  FreshCache = FALSE
  MaxEdits = 3
  MaxFaults = 2
INVARIANTS TypeOK UnattendedAuthorized PinIsVisible IsolatedFirst NeverAbandoned QuiescentStatus
PROPERTIES KeepsPromise ProsperoConditionKept PinLostOnlyByFailing PinStable SandboxRunsThePin
