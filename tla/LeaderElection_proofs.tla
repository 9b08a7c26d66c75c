----------------------- MODULE LeaderElection_proofs -----------------------
(***************************************************************************)
(* Proofs about LeaderElection, for every set of replicas, every bound on  *)
(* faults and every set of deployments whose replicas are told apart.      *)
(*                                                                         *)
(* OneLeader rests on two things: the identities of the replicas differ    *)
(* (IdentitiesDiffer), and a replica that runs or believes to hold the     *)
(* lease has not let it expire (RunningHolds, which is inductive).         *)
(***************************************************************************)
EXTENDS LeaderElection, TLAPS

USE DEF Procs

\* The name by which a replica claims the lease is its own, and is no None:
\* what leader_identity is for.
LEMMA IdentitiesDiffer ==
  ASSUME deployment \in Deployments, NEW r \in Replica, NEW s \in Replica
  PROVE  /\ Identity(r) # None
         /\ r # s => Identity(r) # Identity(s)
<1>1. ToldApart(deployment)
  BY DeploymentAssumption
<1>2. CASE \A p, q \in Replica :
             /\ Trimmed(deployment.podName[p]) # None
             /\ p # q => deployment.podName[p] # deployment.podName[q]
  BY <1>2 DEF Identity, LeaderIdentity, Trimmed
<1>3. CASE \A p, q \in Replica :
             /\ Trimmed(deployment.podName[p]) = None
             /\ deployment.hostname[p] \notin {None, ""}
             /\ p # q => deployment.hostname[p] # deployment.hostname[q]
  BY <1>3 DEF Identity, LeaderIdentity
<1> QED
  BY <1>1, <1>2, <1>3 DEF ToldApart

\* The durations are numbers.
LEMMA Durations ==
  ASSUME deployment \in Deployments
  PROVE  Duration \in Nat /\ Grace \in Nat
BY DeploymentAssumption DEF Duration, Grace, settings

\* What is read from the environment stays as it is.
LEMMA Fixed ==
  ASSUME deployment' = deployment
  PROVE  /\ Duration' = Duration /\ Elects' = Elects
         /\ \A r \in Replica : Identity(r)' = Identity(r)
         /\ Holders' = Holders
BY DEF Duration, Elects, settings, Identity, Holders

LEMMA DeploymentIsChosenOnce == [Next]_vars => deployment' = deployment
BY DEF Next, Step, Start, Lead, StandBy, Drained, Acquire, Renew, Expire, Terminate,
       WatchStops, Kill, Tick, vars

\* The process of a replica that is gone.
LEMMA GoneLeaves ==
  ASSUME NEW r \in Replica, Gone(r),
         proc \in [Replica -> Procs], handler \in [Replica -> BOOLEAN],
         channel \in [Replica -> BOOLEAN], known \in [Replica -> 0 .. Duration],
         Duration \in Nat
  PROVE  /\ proc' \in [Replica -> Procs] /\ handler' \in [Replica -> BOOLEAN]
         /\ channel' \in [Replica -> BOOLEAN] /\ known' \in [Replica -> 0 .. Duration]
         /\ ~channel'[r] /\ ~Runs(r)'
         /\ \A q \in Replica \ {r} : /\ channel'[q] = channel[q] /\ known'[q] = known[q]
                                     /\ proc'[q] = proc[q]
BY DEF Gone, Runs

-----------------------------------------------------------------------------
\* The shape of the state, through every start, signal, kill, lost request and
\* passing of time.
THEOREM TypeCorrect == Spec => []TypeOK
<1>1. Init => TypeOK
  <2> SUFFICES ASSUME Init PROVE TypeOK
    OBVIOUS
  <2>1. Duration \in Nat
    BY Durations DEF Init
  <2>2. lease \in [holder : Holders, left : -1 .. Duration]
    <3>1. None \in Holders
      BY DEF Holders
    <3>2. -1 \in -1 .. Duration
      BY <2>1
    <3> QED
      BY <3>1, <3>2 DEF Init
  <2>3. known \in [Replica -> 0 .. Duration] /\ faults \in 0 .. MaxFaults
    BY <2>1, FaultAssumption DEF Init
  <2> QED
    BY <2>2, <2>3 DEF Init, TypeOK
<1>2. TypeOK /\ [Next]_vars => TypeOK'
  <2> SUFFICES ASSUME TypeOK, [Next]_vars PROVE TypeOK'
    OBVIOUS
  <2>1. deployment' = deployment
    BY DeploymentIsChosenOnce
  <2>2. /\ Duration' = Duration
        /\ Holders' = Holders
    BY <2>1, Fixed
  <2>3. Duration \in Nat /\ MaxFaults \in Nat
    BY Durations, FaultAssumption DEF TypeOK
  <2>14. None \in Holders /\ \A r \in Replica : Identity(r) \in Holders
    BY DEF Holders
  <2>4. ASSUME NEW r \in Replica, Start(r) PROVE TypeOK'
    <3>1. proc' \in [Replica -> Procs]
      BY <2>4 DEF TypeOK, Start
    <3>2. handler' \in [Replica -> BOOLEAN]
      BY <2>4 DEF TypeOK, Start, Elects
    <3>3. PICK held \in BOOLEAN :
            /\ held => lease.left > 0
            /\ channel' = [channel EXCEPT ![r] = held]
            /\ known' = [known EXCEPT ![r] = IF held THEN lease.left ELSE 0]
      BY <2>4 DEF Start
    <3>4. (held => lease.left \in 0 .. Duration) /\ 0 \in 0 .. Duration
      BY <2>3, <3>3 DEF TypeOK
    <3>5. channel' \in [Replica -> BOOLEAN] /\ known' \in [Replica -> 0 .. Duration]
      BY <3>3, <3>4 DEF TypeOK
    <3> QED
      BY <2>1, <2>2, <2>4, <3>1, <3>2, <3>5 DEF TypeOK, Start
  <2>5. ASSUME NEW r \in Replica, Lead(r) PROVE TypeOK'
    BY <2>1, <2>2, <2>3, <2>5 DEF TypeOK, Lead
  <2>6. ASSUME NEW r \in Replica, StandBy(r) PROVE TypeOK'
    BY <2>1, <2>2, <2>3, <2>6 DEF TypeOK, StandBy
  <2>7. ASSUME NEW r \in Replica, Drained(r) PROVE TypeOK'
    <3>1. lease' \in [holder : Holders, left : -1 .. Duration]
      BY <2>3, <2>7, <2>14 DEF TypeOK, Drained
    <3> QED
      BY <2>1, <2>2, <2>3, <2>7, <3>1, GoneLeaves DEF TypeOK, Drained
  <2>8. ASSUME NEW r \in Replica, Acquire(r) \/ Renew(r) PROVE TypeOK'
    <3>1. /\ lease' = [holder |-> Identity(r), left |-> Duration]
          /\ \/ Learn(r) /\ UNCHANGED faults
             \/ Spend /\ UNCHANGED <<known, channel>>
          /\ UNCHANGED <<proc, handler>>
      BY <2>8 DEF Acquire, Renew, Claim
    <3>2. Identity(r) \in Holders /\ Duration \in -1 .. Duration /\ Duration \in 0 .. Duration
      BY <2>3, <2>14
    <3>3. lease' \in [holder : Holders, left : -1 .. Duration]
      BY <3>1, <3>2
    <3>4. known' \in [Replica -> 0 .. Duration] /\ channel' \in [Replica -> BOOLEAN]
      BY <3>1, <3>2 DEF TypeOK, Learn
    <3>5. faults' \in 0 .. MaxFaults
      BY <2>3, <3>1 DEF TypeOK, Spend
    <3> QED
      BY <2>1, <2>2, <3>1, <3>3, <3>4, <3>5 DEF TypeOK
  <2>9. ASSUME NEW r \in Replica, Expire(r) PROVE TypeOK'
    BY <2>1, <2>2, <2>3, <2>9 DEF TypeOK, Expire
  <2>10. ASSUME NEW r \in Replica, Terminate(r) PROVE TypeOK'
    <3>3. faults' \in 0 .. MaxFaults /\ UNCHANGED lease
      BY <2>3, <2>10 DEF TypeOK, Terminate, Spend
    <3>1. CASE proc[r] = "leading" /\ proc' = [proc EXCEPT ![r] = "draining"]
                 /\ UNCHANGED <<known, channel, handler>>
      BY <2>1, <2>2, <3>3, <3>1 DEF TypeOK
    <3>2. CASE Gone(r)
      BY <2>1, <2>2, <2>3, <3>3, <3>2, GoneLeaves DEF TypeOK
    <3> QED
      BY <2>10, <3>1, <3>2 DEF Terminate
  <2>11. ASSUME NEW r \in Replica, WatchStops(r) \/ Kill(r) PROVE TypeOK'
    <3>1. Gone(r) /\ Spend /\ UNCHANGED lease
      BY <2>11 DEF WatchStops, Kill
    <3> QED
      BY <2>1, <2>2, <2>3, <3>1, GoneLeaves DEF TypeOK, Spend
  <2>12. CASE Tick
    <3>1. lease' \in [holder : Holders, left : -1 .. Duration]
      BY <2>3, <2>12 DEF TypeOK, Tick
    <3>2. known' \in [Replica -> 0 .. Duration]
      BY <2>3, <2>12 DEF TypeOK, Tick
    <3>3. faults' \in 0 .. MaxFaults
      BY <2>3, <2>12 DEF TypeOK, Tick, Spend
    <3> QED
      BY <2>1, <2>2, <2>12, <3>1, <3>2, <3>3 DEF TypeOK, Tick
  <2>13. CASE UNCHANGED vars
    BY <2>1, <2>2, <2>13 DEF TypeOK, vars
  <2> QED
    BY <2>4, <2>5, <2>6, <2>7, <2>8, <2>9, <2>10, <2>11, <2>12, <2>13 DEF Next, Step
<1> QED
  BY <1>1, <1>2, PTL DEF Spec
-----------------------------------------------------------------------------
\* A replica that runs, or believes to hold the lease, holds the one that the
\* API server has: no step of another replica, no restart and no lost reply
\* takes it from it before it has stopped (bin/caliban-operator.rs:79-93).
THEOREM Holding == Spec => []RunningHolds
<1>1. Init => RunningHolds
  BY DEF Init, RunningHolds, Runs
<1>2. TypeOK /\ RunningHolds /\ [Next]_vars => RunningHolds'
  <2> SUFFICES ASSUME TypeOK, RunningHolds, [Next]_vars, Elects',
                      NEW q \in Replica
               PROVE  /\ Runs(q)' \/ channel'[q] =>
                           lease'.holder = Identity(q)' /\ lease'.left >= 0
                      /\ channel'[q] => Up(q)' /\ known'[q] <= lease'.left
    BY DEF RunningHolds
  <2>1. deployment' = deployment
    BY DeploymentIsChosenOnce
  <2>2. /\ Elects /\ Duration' = Duration
        /\ Identity(q)' = Identity(q)
    BY <2>1, Fixed
  <2>3. /\ Runs(q) \/ channel[q] => lease.holder = Identity(q) /\ lease.left >= 0
        /\ channel[q] => Up(q) /\ known[q] <= lease.left
    BY <2>2 DEF RunningHolds
  <2>4. Duration \in Nat /\ lease.left \in -1 .. Duration
    BY Durations DEF TypeOK
  <2> DEFINE Kept == /\ Runs(q)' \/ channel'[q] =>
                           lease'.holder = Identity(q) /\ lease'.left >= 0
                     /\ channel'[q] => Up(q)' /\ known'[q] <= lease'.left
  <2>5. ASSUME NEW r \in Replica, Start(r) PROVE Kept
    <3>1. CASE r = q
      BY <2>2, <2>4, <2>5, <3>1 DEF TypeOK, Start, Runs, Up
    <3>2. CASE r # q
      BY <2>3, <2>5, <3>2 DEF TypeOK, Start, Runs, Up
    <3> QED
      BY <3>1, <3>2
  <2>6. ASSUME NEW r \in Replica, Lead(r) \/ StandBy(r) PROVE Kept
    <3>1. CASE r = q
      BY <2>3, <2>6, <3>1 DEF TypeOK, Lead, StandBy, AwaitLeadership, Runs, Up
    <3>2. CASE r # q
      BY <2>3, <2>6, <3>2 DEF TypeOK, Lead, StandBy, Runs, Up
    <3> QED
      BY <3>1, <3>2
  <2>7. ASSUME NEW r \in Replica, Gone(r), UNCHANGED lease \/ lease.holder = Identity(r)
        PROVE  Kept
    <3>1. /\ ~channel'[r] /\ ~Runs(r)'
          /\ \A p \in Replica \ {r} : /\ channel'[p] = channel[p] /\ known'[p] = known[p]
                                      /\ proc'[p] = proc[p]
      BY <2>4, <2>7, GoneLeaves DEF TypeOK
    <3>2. CASE r = q
      BY <3>1, <3>2
    <3>3. CASE r # q /\ UNCHANGED lease
      BY <2>3, <3>1, <3>3 DEF Runs, Up
    <3>4. CASE r # q /\ lease.holder = Identity(r)
      BY <2>3, <3>1, <3>4, IdentitiesDiffer DEF TypeOK, Runs, Up
    <3> QED
      BY <2>7, <3>2, <3>3, <3>4
  <2>8. ASSUME NEW r \in Replica, Acquire(r) \/ Renew(r) PROVE Kept
    <3>1. /\ lease' = [holder |-> Identity(r), left |-> Duration]
          /\ Learn(r) \/ UNCHANGED <<known, channel>>
          /\ proc' = proc
      BY <2>8 DEF Acquire, Renew, Claim
    <3>2. CASE r = q /\ Learn(r)
      <4>1. known'[q] = Duration /\ channel'[q]
        BY <3>2 DEF TypeOK, Learn
      <4>2. Up(q)'
        BY <2>3, <2>8, <3>1, <3>2 DEF Acquire, Renew, RenewalDue, Up
      <4> QED
        BY <2>4, <3>1, <3>2, <4>1, <4>2
    <3>3. CASE r = q /\ UNCHANGED <<known, channel>>
      <4>1. channel[q] => known[q] <= Duration
        BY <2>3, <2>4 DEF TypeOK
      <4> QED
        BY <2>3, <2>4, <3>1, <3>3, <4>1 DEF Runs, Up
    <3>4. CASE r # q
      <4>1. Claimable(r)
        BY <2>8 DEF Acquire, Renew, Claimable
      <4>2. ~(Runs(q) \/ channel[q])
        BY <2>3, <2>4, <3>4, <4>1, IdentitiesDiffer DEF Claimable, TypeOK
      <4>3. channel'[q] = channel[q] /\ proc'[q] = proc[q]
        BY <3>1, <3>4 DEF TypeOK, Learn
      <4> QED
        BY <4>2, <4>3 DEF Runs
    <3> QED
      BY <3>1, <3>2, <3>3, <3>4
  <2>9. ASSUME NEW r \in Replica, Expire(r) PROVE Kept
    <3>1. CASE r = q
      BY <2>3, <2>9, <3>1 DEF TypeOK, Expire, Runs, Up
    <3>2. CASE r # q
      BY <2>3, <2>9, <3>2 DEF TypeOK, Expire, Runs, Up
    <3> QED
      BY <3>1, <3>2
  <2>10. ASSUME NEW r \in Replica, Terminate(r) PROVE Kept
    <3>1. CASE Gone(r)
      BY <2>7, <2>10, <3>1 DEF Terminate
    <3>2. CASE proc[r] = "leading" /\ proc' = [proc EXCEPT ![r] = "draining"]
               /\ UNCHANGED <<known, channel, lease>>
      <4>1. (Runs(q)' => Runs(q)) /\ (Up(q) => Up(q)')
        BY <3>2 DEF TypeOK, Runs, Up
      <4> QED
        BY <2>3, <3>2, <4>1
    <3> QED
      BY <2>10, <3>1, <3>2 DEF Terminate
  <2>11. ASSUME Tick PROVE Kept
    <3>1. Runs(q) \/ channel[q] => channel[q] /\ known[q] > 0
      BY <2>2, <2>11 DEF Tick, Prompt
    <3>2. /\ known[q] \in 0 .. Duration /\ known'[q] = (IF known[q] = 0 THEN 0 ELSE known[q] - 1)
          /\ lease'.holder = lease.holder
          /\ lease'.left = IF lease.left = -1 THEN -1 ELSE lease.left - 1
          /\ channel' = channel /\ proc' = proc
      BY <2>11 DEF Tick, TypeOK
    <3> QED
      BY <2>3, <2>4, <3>1, <3>2 DEF Runs, Up
  <2>12. ASSUME UNCHANGED vars PROVE Kept
    BY <2>3, <2>12 DEF vars, Runs, Up
  <2>13. Kept
    <3>1. ASSUME NEW r \in Replica, Drained(r) PROVE Kept
      BY <2>7, <3>1 DEF Drained
    <3>2. ASSUME NEW r \in Replica, WatchStops(r) \/ Kill(r) PROVE Kept
      BY <2>7, <3>2 DEF WatchStops, Kill
    <3> QED
      BY <2>5, <2>6, <2>8, <2>9, <2>10, <2>11, <2>12, <3>1, <3>2 DEF Next, Step
  <2> QED
    BY <2>2, <2>13
<1> QED
  BY <1>1, <1>2, TypeCorrect, PTL DEF Spec

\* Without a switch that says off, two replicas never run the controllers at
\* once (config.rs:64-69).
THEOREM AtMostOneLeader == Spec => []OneLeader
<1>1. TypeOK /\ RunningHolds => OneLeader
  <2> SUFFICES ASSUME TypeOK, RunningHolds,
                      NEW r \in Replica, NEW s \in Replica,
                      r # s, Runs(r), Runs(s)
               PROVE  deployment.env.leaderElection \in {"0", "false", "no", "off"}
    BY DEF OneLeader
  <2>1. ~Elects
    BY IdentitiesDiffer DEF TypeOK, RunningHolds
  <2>2. settings.leaderElection =
          IF Election(deployment.env) = None THEN TRUE ELSE Election(deployment.env)
    BY DEF settings, FromEnv, DefaultSettings
  <2>3. Election(deployment.env) # TRUE /\ Election(deployment.env) # None
    BY <2>1, <2>2 DEF Elects
  <2> QED
    BY <2>3 DEF Election, ParseBoolFlag
<1> QED
  BY <1>1, TypeCorrect, Holding, PTL
=============================================================================
