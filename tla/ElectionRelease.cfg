\* A clean shutdown of the leader.
SPECIFICATION Spec
CONSTANTS
  None = None
  Replica <- MCReplica
  Deployments <- Solo
  MaxFaults = 1
PROPERTIES ReleasedOnShutdown
