--------------------------- MODULE Handover_proofs ---------------------------
(* Proofs about Handover, for every value of its constants: the guarantees  *)
(* of one leader survive the writes of the one before it.                    *)
EXTENDS Handover, TaskReconcile_proofs

\* The write under way carries no more authority than its sender had.
LateOK ==
  \/ late = None
  \/ /\ late.object = "status"
     /\ IsStatus(late.value) /\ StatusAuthorized(late.value)
  \/ /\ late.object = "child"
     /\ late.value \in Children
  \/ /\ late.object = "sandbox"
     /\ late.value \in Sandboxes /\ PolicyAuthorized(late.value.pin)

HandoverInv == IInv /\ LateOK

-----------------------------------------------------------------------------
(* What a reconcile can have sent. *)

LEMMA SentOK ==
  ASSUME IInv, pc \in Writing, late' = Sent
  PROVE  LateOK'
<1> USE DEF IInv
<1>1. CASE pc = "pin"
  <2> DEFINE pinned == PinStatus(resolved, Posture(obj))
  <2>1. late'.object = "status" /\ late'.value = pinned
    BY <1>1 DEF Sent, Write
  <2>2. /\ IsTask(obj) /\ resolved \in Pins /\ PolicyAuthorized(resolved)
        /\ Posture(obj) = "unattended" => AllowsUnattended(resolved)
    BY <1>1 DEF RunOK, Admitted
  <2>3. IsStatus(pinned) /\ pinned.posture = Posture(obj) /\ pinned.pin = resolved
    BY <2>2, PostureKnown, PinShape
  <2>4. resolved # None
    BY <2>2, DataAssumption DEF DataAssumption
  <2> HIDE DEF pinned
  <2>5. StatusAuthorized(pinned)
    BY <2>2, <2>3, <2>4 DEF StatusAuthorized
  <2> QED BY <2>1, <2>3, <2>5 DEF LateOK
<1>2. CASE pc = "status"
  <2>1. late'.object = "status" /\ late'.value = body
    BY <1>2 DEF Sent, Write
  <2>2. IsStatus(body) /\ StatusAuthorized(body)
    BY <1>2, DataAssumption DEF DataAssumption, RunOK, Admitted, StatusAuthorized
  <2> QED BY <2>1, <2>2 DEF LateOK
<1>3. CASE pc = "fail"
  <2>1. late'.object = "status" /\ late'.value = body
    BY <1>3 DEF Sent, Write
  <2>2. IsStatus(body) /\ body.posture = None /\ body.pin = None
    BY <1>3, FailedShape DEF RunOK
  <2>3. StatusAuthorized(body)
    BY <2>2, DataAssumption DEF DataAssumption, StatusAuthorized
  <2> QED BY <2>1, <2>2, <2>3 DEF LateOK
<1>4. CASE pc \in {"serviceAccount", "networkPolicy"}
  BY <1>4 DEF Sent, Write, LateOK, Children
<1>5. CASE pc = "sandbox"
  <2>1. late'.object = "sandbox" /\ late'.value = BuildSandbox(None)
    BY <1>5 DEF Sent, Write
  <2>2. IsTask(obj) /\ resolved \in Pins /\ PolicyAuthorized(resolved)
    BY <1>5 DEF RunOK, Admitted
  <2>3. BuildSandbox(None) \in Sandboxes /\ BuildSandbox(None).pin = resolved
    BY <2>2 DEF BuildSandbox, Sandboxes, IsTask
  <2> QED BY <2>1, <2>2, <2>3 DEF LateOK
<1> QED BY <1>1, <1>2, <1>3, <1>4, <1>5 DEF Writing

-----------------------------------------------------------------------------
(* Its arrival. *)

LEMMA LandKeepsShared ==
  ASSUME IInv, LateOK, Land
  PROVE  SharedOK' /\ queued' \in BOOLEAN
<1> USE DEF IInv
<1>1. CASE LandStatus
  <2>1. IsStatus(late.value) /\ StatusAuthorized(late.value)
    BY <1>1 DEF Land, LandStatus, LateOK
  <2>2. task' = [task EXCEPT !.status = Apply(@, late.value)]
    BY <1>1 DEF LandStatus
  <2>3. IsTask(task') /\ StatusAuthorized(task'.status)
    BY <2>1, <2>2, WriteKeeps DEF SharedOK
  <2> QED BY <1>1, <2>3 DEF LandStatus, users, cluster, SharedOK, ControllerOK
<1>2. CASE LandChild
  <2>1. late.value \in Children
    BY <1>2 DEF Land, LandChild, LateOK
  <2> QED BY <1>2, <2>1 DEF LandChild, users, SharedOK, ControllerOK, Children
<1>3. CASE LandSandbox
  <2>1. late.value \in Sandboxes /\ PolicyAuthorized(late.value.pin)
    BY <1>3 DEF Land, LandSandbox, LateOK
  <2>2. sandbox' \in Sandboxes /\ sandbox'.pin = late.value.pin
    <3>1. CASE sandbox = None
      BY <1>3, <2>1, <3>1 DEF LandSandbox
    <3>2. CASE sandbox # None
      BY <1>3, <2>1, <3>2 DEF LandSandbox, SharedOK, Sandboxes
    <3> QED BY <3>1, <3>2
  <2>3. queued' \in BOOLEAN
    BY <1>3 DEF LandSandbox, ControllerOK
  <2> QED BY <1>3, <2>1, <2>2, <2>3 DEF LandSandbox, users, SharedOK
<1> QED BY <1>1, <1>2, <1>3 DEF Land

LEMMA HandoverStep == HandoverInv /\ [HandoverNext]_handoverVars => HandoverInv'
<1> SUFFICES ASSUME HandoverInv, [HandoverNext]_handoverVars PROVE HandoverInv'
  OBVIOUS
<1> USE DEF HandoverInv
<1>1. CASE Next /\ UNCHANGED late
  BY <1>1, StepKeeps DEF LateOK
<1>2. CASE HandOver
  BY <1>2, RuntimeKeeps, SentOK DEF HandOver
<1>3. CASE Land
  <2>1. SharedOK' /\ queued' \in BOOLEAN
    BY <1>3, LandKeepsShared
  <2>2. RunOK' /\ ControllerOK'
    BY <1>3, <2>1, OperatorUntouched, EnvironmentControllerKeeps DEF Land, IInv
  <2>3. LateOK'
    BY <1>3 DEF Land, LateOK
  <2> QED BY <2>1, <2>2, <2>3 DEF IInv
<1>4. CASE Lose
  BY <1>4, StepKeeps DEF Lose, LateOK
<1>5. CASE UNCHANGED handoverVars
  BY <1>5, StepKeeps DEF handoverVars, LateOK
<1> QED BY <1>1, <1>2, <1>3, <1>4, <1>5 DEF HandoverNext

LEMMA HandoverInvariance == HandoverSpec => []HandoverInv
<1>1. HandoverInit => HandoverInv
  BY InitEstablishes DEF HandoverInit, HandoverInv, LateOK
<1> QED BY <1>1, HandoverStep, PTL DEF HandoverSpec

\* A write of the former leader that arrives under its successor grants
\* nothing (bin/caliban-operator.rs:83-92, controller.rs:250-286).
THEOREM HandoverAuthority == HandoverSpec => []Authority
<1>1. HandoverInv => Authority
  BY IInvMeaning DEF HandoverInv
<1> QED BY <1>1, HandoverInvariance, PTL

\* No task is recorded as unattended, and no Sandbox built unsupervised, on the
\* authority of a former leader's write alone (ADR 0006).
THEOREM HandoverUnattended == HandoverSpec => []UnattendedAuthorized
<1>1. Authority => UnattendedAuthorized
  BY DEF Authority, StatusAuthorized, UnattendedAuthorized
<1> QED BY <1>1, HandoverAuthority, PTL

-----------------------------------------------------------------------------
(* The network policy comes before the pod, whoever sent it. *)

\* A Sandbox is sent only once the other children exist.
LateIsolated ==
  /\ IsolationInv
  /\ late # None /\ late.object = "sandbox" => children = Children

LEMMA LateIsolatedStep ==
  HandoverInv /\ LateIsolated /\ [HandoverNext]_handoverVars => LateIsolated'
<1> SUFFICES ASSUME HandoverInv, LateIsolated, [HandoverNext]_handoverVars
             PROVE  LateIsolated'
  OBVIOUS
<1>1. children \subseteq Children
  BY DEF LateIsolated, IsolationInv
<1>2. ASSUME [Next]_vars PROVE children \subseteq children'
  BY <1>2 DEF Next, vars, cluster, Reconcile, Start, GetTokenSecret, GetWorkspace,
     ApplyPin, PublishUnattended, ApplyServiceAccount, ApplyNetworkPolicy,
     ApplySandbox, ApplyStatus, ApplyFailure, ApiError, WatchTask, TimerFires,
     Restart, Environment, EditTask, WriteWorkspace, DeleteWorkspace, WriteSecret,
     ValidateStep, ServiceCreated, PodNotReady, PodReady, SandboxDeleted,
     SandboxChanges, ProsperoReports
<1>3. ASSUME [Next]_vars, UNCHANGED late PROVE LateIsolated'
  <2>1. IsolationInv'
    BY <1>3, IsolationStep DEF LateIsolated
  <2> QED BY <1>2, <1>3, <2>1 DEF LateIsolated, IsolationInv
<1>4. CASE HandOver
  <2>1. IsolationInv' /\ UNCHANGED cluster
    BY <1>4, IsolationStep DEF HandOver, LateIsolated, Next, Restart
  <2>2. late'.object = "sandbox" => pc = "sandbox"
    BY <1>4 DEF HandOver, Sent, Write, Writing
  <2> QED BY <2>1, <2>2 DEF LateIsolated, IsolationInv, cluster
<1>5. CASE Land
  <2>1. UNCHANGED pc /\ late' = None
    BY <1>5 DEF Land, operator, reconcile
  <2>2. CASE LandStatus
    BY <2>1, <2>2 DEF LandStatus, cluster, LateIsolated, IsolationInv
  <2>3. CASE LandChild
    <3>1. late.value \in Children
      BY <1>5, <2>3 DEF Land, LandChild, HandoverInv, LateOK
    <3> QED BY <2>1, <2>3, <3>1 DEF LandChild, LateIsolated, IsolationInv
  <2>4. CASE LandSandbox
    BY <1>5, <2>1, <2>4 DEF Land, LandSandbox, LateIsolated, IsolationInv
  <2> QED BY <1>5, <2>2, <2>3, <2>4 DEF Land
<1>6. CASE Lose
  BY <1>3, <1>6 DEF Lose, LateIsolated, IsolationInv, vars, cluster, reconcile
<1>7. CASE UNCHANGED handoverVars
  BY <1>3, <1>7 DEF handoverVars
<1> QED BY <1>3, <1>4, <1>5, <1>6, <1>7 DEF HandoverNext

\* Also across a change of leader no Sandbox exists without its ServiceAccount
\* and NetworkPolicy (controller.rs:477-482, bin/caliban-operator.rs:83-92).
THEOREM HandoverIsolation == HandoverSpec => []IsolatedFirst
<1>1. HandoverInit => LateIsolated
  BY DEF HandoverInit, Init, LateIsolated, IsolationInv
<1>2. LateIsolated => IsolatedFirst
  BY DEF LateIsolated, IsolationInv, IsolatedFirst, Children
<1> QED BY <1>1, <1>2, HandoverInvariance, LateIsolatedStep, PTL DEF HandoverSpec
=============================================================================
