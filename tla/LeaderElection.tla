--------------------------- MODULE LeaderElection ---------------------------
(***************************************************************************)
(* The operator's process (src/bin/caliban-operator.rs): the replicas of   *)
(* one Deployment read their settings, contend for the leader lease and    *)
(* run the controllers while they hold it.                                 *)
(*                                                                         *)
(* kube_lease_manager is external: it claims the lease when it is free,    *)
(* expired or its own, renews it when Grace is left of it, and reports on  *)
(* a channel whether it holds it.  Time passes in ticks.  A replica that   *)
(* is up does within the tick what its lease calls for; a renewal may fail *)
(* instead, which spends a fault.  Replicas are killed, told to terminate  *)
(* and started again with the environment they had.                        *)
(***************************************************************************)
EXTENDS Settings

CONSTANTS
  Replica,
  Deployments,   \* [env, podName, hostname, namespaceFile], the middle two per replica
  MaxFaults      \* bound on lost requests, signals and kills

VARIABLES
  deployment,
  lease,     \* [holder, left]: ticks until it expires, -1 once it has
  known,     \* what a holder knows to be left of the lease it last claimed
  channel,   \* the value the watch channel holds
  proc,      \* what the process is doing
  handler,   \* has the process replaced the default action of SIGTERM
  faults
vars == <<deployment, lease, known, channel, proc, handler, faults>>

settings == FromEnv(deployment.env)
Duration == settings.leaseDuration
Grace == settings.leaseGrace
Identity(r) == LeaderIdentity(deployment.podName[r], deployment.hostname[r])
Holders == {None} \cup { Identity(r) : r \in Replica }

\* The replicas are told apart by the names they are given.
ToldApart(d) ==
  \/ \A r, s \in Replica :
       /\ Trimmed(d.podName[r]) # None
       /\ r # s => d.podName[r] # d.podName[s]
  \/ \A r, s \in Replica :
       /\ Trimmed(d.podName[r]) = None
       /\ d.hostname[r] \notin {None, ""}
       /\ r # s => d.hostname[r] # d.hostname[s]

ASSUME DeploymentAssumption ==
  \A d \in Deployments :
    /\ ToldApart(d)
    /\ FromEnv(d.env).leaseDuration \in Nat
    /\ FromEnv(d.env).leaseGrace \in Nat
ASSUME FaultAssumption == MaxFaults \in Nat

Procs == {"down", "standby", "leading", "draining", "exited"}
Up(r) == proc[r] \in {"standby", "leading", "draining"}
Runs(r) == proc[r] \in {"leading", "draining"}
Elects == settings.leaderElection

Init ==
  /\ deployment \in Deployments
  /\ lease = [holder |-> None, left |-> -1]
  /\ known = [r \in Replica |-> 0]
  /\ channel = [r \in Replica |-> FALSE]
  /\ proc = [r \in Replica |-> "down"]
  /\ handler = [r \in Replica |-> FALSE]
  /\ faults = 0

Spend == faults < MaxFaults /\ faults' = faults + 1

-----------------------------------------------------------------------------
(* The process. *)

\* Mutant: only the pod's own namespace is looked at.
LeaseNamespaceOfPod(s, file) == Trimmed(file)

\* None: it cannot be determined.
LeaseNamespace(s, file) ==
  IF s.leaseNamespace # None THEN s.leaseNamespace ELSE Trimmed(file)

Accepted ==
  /\ Validate(settings) = None
  /\ Elects => LeaseNamespace(settings, deployment.namespaceFile) # None

\* main: a refused environment exits, and kubelet's next start meets the same.
Start(r) ==
  /\ proc[r] \in {"down", "exited"}
  /\ Accepted
  /\ proc' = [proc EXCEPT ![r] = IF Elects THEN "standby" ELSE "leading"]
  /\ handler' = [handler EXCEPT ![r] = ~Elects]
  /\ \E held \in BOOLEAN :
       /\ held => Elects /\ lease.holder = Identity(r) /\ lease.left > 0
       /\ channel' = [channel EXCEPT ![r] = held]
       /\ known' = [known EXCEPT ![r] = IF held THEN lease.left ELSE 0]
  /\ UNCHANGED <<deployment, lease, faults>>

\* Mutant: any value that arrives will do.
AwaitAnyValue(r, wanted) == TRUE

\* The receiver keeps only the latest value, and it is read before waiting.
AwaitLeadership(r, wanted) == channel[r] = wanted

Lead(r) ==
  /\ proc[r] = "standby"
  /\ AwaitLeadership(r, TRUE)
  /\ proc' = [proc EXCEPT ![r] = "leading"]
  /\ handler' = [handler EXCEPT ![r] = TRUE]
  /\ UNCHANGED <<deployment, lease, known, channel, faults>>

\* The controllers' futures are dropped, those that are draining too.
StandBy(r) ==
  /\ Runs(r) /\ Elects
  /\ AwaitLeadership(r, FALSE)
  /\ proc' = [proc EXCEPT ![r] = "standby"]
  /\ UNCHANGED <<deployment, lease, known, channel, handler, faults>>

\* The process is gone, its lease manager with it.
Gone(r) ==
  /\ proc' = [proc EXCEPT ![r] = "exited"]
  /\ channel' = [channel EXCEPT ![r] = FALSE]
  /\ known' = [known EXCEPT ![r] = 0]
  /\ handler' = [handler EXCEPT ![r] = FALSE]

\* SIGTERM.  Running controllers drain; a replica that never led is ended by
\* the default action; one that stands by after having led ignores it, and
\* nothing changes.
Terminate(r) ==
  /\ Spend
  /\ \/ /\ proc[r] = "leading"
        /\ proc' = [proc EXCEPT ![r] = "draining"]
        /\ UNCHANGED <<known, channel, handler>>
     \/ proc[r] = "standby" /\ ~handler[r] /\ Gone(r)
  /\ UNCHANGED <<deployment, lease>>

\* run_controllers returns and the receiver is dropped, which tells the lease
\* manager's task to release the lease; main returns without awaiting it.
Drained(r) ==
  /\ proc[r] = "draining"
  /\ Gone(r)
  /\ \/ UNCHANGED lease
     \/ /\ lease.holder = Identity(r)
        /\ lease' = [holder |-> None, left |-> -1]
  /\ UNCHANGED <<deployment, faults>>

\* The manager's task ends: the process waiting on the channel exits with an
\* error, its controllers dropped.
WatchStops(r) ==
  /\ Up(r) /\ Elects
  /\ Spend
  /\ Gone(r)
  /\ UNCHANGED <<deployment, lease>>

Kill(r) ==
  /\ Up(r)
  /\ Spend
  /\ Gone(r)
  /\ UNCHANGED <<deployment, lease>>

-----------------------------------------------------------------------------
(* The lease manager of a replica, and time. *)

\* Mutant: the grace is added to the duration.
ClaimWithGrace(r) == lease' = [holder |-> Identity(r), left |-> Duration + Grace]

Claim(r) == lease' = [holder |-> Identity(r), left |-> Duration]
Learn(r) ==
  /\ known' = [known EXCEPT ![r] = Duration]
  /\ channel' = [channel EXCEPT ![r] = TRUE]

Claimable(r) == lease.holder \in {None, Identity(r)} \/ lease.left = -1

\* A claim, the reply of which may be lost.
Acquire(r) ==
  /\ Elects /\ Up(r) /\ ~channel[r]
  /\ Claimable(r)
  /\ Claim(r)
  /\ \/ Learn(r) /\ UNCHANGED faults
     \/ Spend /\ UNCHANGED <<known, channel>>
  /\ UNCHANGED <<deployment, proc, handler>>

RenewalDue(r) == channel[r] /\ known[r] \in 1 .. Grace

Renew(r) ==
  /\ RenewalDue(r)
  /\ lease.holder = Identity(r)
  /\ Claim(r)
  /\ \/ Learn(r) /\ UNCHANGED faults
     \/ Spend /\ UNCHANGED <<known, channel>>
  /\ UNCHANGED <<deployment, proc, handler>>

Expire(r) ==
  /\ channel[r] /\ known[r] = 0
  /\ channel' = [channel EXCEPT ![r] = FALSE]
  /\ UNCHANGED <<deployment, lease, known, proc, handler, faults>>

\* What a replica does within the tick.
Prompt(r) ==
  /\ channel[r] => known[r] > 0
  /\ proc[r] = "standby" => ~channel[r]
  /\ Runs(r) /\ Elects => channel[r]

Tick ==
  /\ \A r \in Replica : Prompt(r)
  /\ lease' = [holder |-> lease.holder,
               left |-> IF lease.left = -1 THEN -1 ELSE lease.left - 1]
  /\ known' = [r \in Replica |-> IF known[r] = 0 THEN 0 ELSE known[r] - 1]
  /\ IF \E r \in Replica : RenewalDue(r) THEN Spend ELSE UNCHANGED faults
  /\ UNCHANGED <<deployment, channel, proc, handler>>

-----------------------------------------------------------------------------
Step(r) ==
  \/ Start(r) \/ Lead(r) \/ StandBy(r) \/ Drained(r)
  \/ Acquire(r) \/ Renew(r) \/ Expire(r)

Next ==
  \/ \E r \in Replica : Step(r) \/ Terminate(r) \/ WatchStops(r) \/ Kill(r)
  \/ Tick

Spec == Init /\ [][Next]_vars

\* A process that is down is started, one that is up is scheduled and its
\* requests return, and time passes.
Fairness ==
  /\ \A r \in Replica :
       /\ WF_vars(Start(r)) /\ WF_vars(Lead(r)) /\ WF_vars(StandBy(r))
       /\ WF_vars(Drained(r)) /\ WF_vars(Acquire(r)) /\ WF_vars(Renew(r))
       /\ WF_vars(Expire(r))
  /\ WF_vars(Tick)

FairSpec == Spec /\ Fairness

-----------------------------------------------------------------------------
\* The shape of the state.
TypeOK ==
  /\ deployment \in Deployments
  /\ lease \in [holder : Holders, left : -1 .. Duration]
  /\ known \in [Replica -> 0 .. Duration]
  /\ channel \in [Replica -> BOOLEAN]
  /\ proc \in [Replica -> Procs]
  /\ handler \in [Replica -> BOOLEAN]
  /\ faults \in 0 .. MaxFaults

\* Two replicas run the controllers at once, draining ones included, only if
\* the switch was set to off in so many words: not by default, not through a
\* misspelled value, and not because a blank POD_NAME made two replicas one
\* holder (config.rs:163-174, :354-381, deploying.md:229-239).
OneLeader ==
  \A r, s \in Replica :
    r # s /\ Runs(r) /\ Runs(s) =>
      deployment.env.leaderElection \in {"0", "false", "no", "off"}

\* A replica that runs holds the lease that the API server has, for at least
\* as long as it knows of: what OneLeader rests on.
RunningHolds ==
  Elects =>
    \A r \in Replica :
      /\ Runs(r) \/ channel[r] => lease.holder = Identity(r) /\ lease.left >= 0
      /\ channel[r] => Up(r) /\ known[r] <= lease.left

\* Once faults stop, some replica runs the controllers for good, whether it
\* took over, led before or had stood by, if the environment can be accepted:
\* a lease namespace is configured or readable, and the grace is below the
\* duration (bin/caliban-operator.rs:53-95).
Led ==
  LET e == deployment.env
      acceptable ==
        /\ Validate(settings) = None
        /\ \/ Trimmed(e.leaseNamespace) # None
           \/ Trimmed(deployment.namespaceFile) # None
           \/ e.leaderElection \in {"0", "false", "no", "off"}
  IN  acceptable => \E r \in Replica : <>[](proc[r] = "leading")

\* A replica that was shut down cleanly does not leave the lease behind
\* (bin/caliban-operator.rs:76-78, deploying.md:252-253).
ReleasedOnShutdown ==
  [][\A r \in Replica : proc[r] = "draining" /\ proc'[r] = "exited" /\ faults' = faults
       => lease'.holder # Identity(r)]_vars
=============================================================================
