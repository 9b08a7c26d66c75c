\* Three replicas, two faults.
SPECIFICATION FairSpec
CONSTANTS
  None = None
  Replica <- MCReplica
  Deployments <- MCDeployments
  MaxFaults = 2
INVARIANTS TypeOK OneLeader RunningHolds
PROPERTIES Led
