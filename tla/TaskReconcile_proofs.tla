----------------------- MODULE TaskReconcile_proofs -----------------------
(* Proofs about TaskReconcile, for every value of its constants. *)
EXTENDS TaskReconcile, TLAPS

-----------------------------------------------------------------------------
(* What admission yields. *)

\* Resolution succeeds only with a record that pins one of the providers.
LEMMA ResolveShape ==
  ASSUME NEW spec, NEW ref, ResolveWorkspace(spec, ref).ok
  PROVE  \E p : ResolveWorkspace(spec, ref) = Resolved(spec, p)
<1>1. ASSUME NEW name, NEW reason, ResolveNamed(spec, name, reason).ok
      PROVE  \E p : ResolveNamed(spec, name, reason) = Resolved(spec, p)
  BY <1>1 DEF ResolveNamed, ResolveError
<1>2. CASE ref # None
  BY <1>1, <1>2 DEF ResolveWorkspace
<1>3. CASE ref = None /\ spec.defaultProvider # None
  BY <1>1, <1>3 DEF ResolveWorkspace
<1>4. CASE ref = None /\ spec.defaultProvider = None
  BY <1>4 DEF ResolveWorkspace, ResolveError
<1> QED BY <1>2, <1>3, <1>4

\* The task's model never touches the policy of the pin.
LEMMA WithModelKeepsPolicy ==
  ASSUME NEW spec, NEW p, NEW m
  PROVE  WithModel(Pinned(spec, p), m).agentPolicy = spec.agentPolicy
BY DEF WithModel, Pinned

\* A pin's authority is read from its policy alone.
LEMMA PolicyDecides ==
  ASSUME NEW a, NEW b, a.agentPolicy = b.agentPolicy
  PROVE  /\ AllowsUnattended(a) <=> AllowsUnattended(b)
         /\ AsksUnsupervised(a) <=> AsksUnsupervised(b)
BY DEF AllowsUnattended, AsksUnsupervised

\* Server-side apply takes the operator's fields from the body.
LEMMA ApplyShape ==
  ASSUME NEW s, IsStatus(s), NEW b, IsStatus(b)
  PROVE  /\ IsStatus(Apply(s, b))
         /\ Apply(s, b).phase = b.phase
         /\ Apply(s, b).sandboxRef = b.sandboxRef
         /\ Apply(s, b).posture = b.posture
         /\ Apply(s, b).pin = b.pin
         /\ b.conditions.AgentsSettled = None =>
              Apply(s, b).conditions.AgentsSettled = s.conditions.AgentsSettled
<1> DEFINE c == IF b.conditions.AgentsSettled # None THEN b.conditions
                ELSE [b.conditions EXCEPT !.AgentsSettled = s.conditions.AgentsSettled]
<1>1. IsConditions(s.conditions) /\ IsConditions(b.conditions)
  BY DEF IsStatus
<1>2. /\ IsConditions(c)
      /\ b.conditions.AgentsSettled = None =>
           c.AgentsSettled = s.conditions.AgentsSettled
  BY <1>1 DEF IsConditions
<1>3. Apply(s, b) = [b EXCEPT !.conditions = c]
  BY DEF Apply
<1> HIDE DEF c
<1>4. Apply(s, b) = [phase |-> b.phase, endpoint |-> b.endpoint,
                     sandboxRef |-> b.sandboxRef, posture |-> b.posture,
                     pin |-> b.pin, conditions |-> c]
  BY <1>3 DEF IsStatus
<1> QED BY <1>2, <1>4 DEF IsStatus

\* A configuration whose agent policy authorizes everything it asks for.
LEMMA AdmitAuthorizes ==
  ASSUME NEW w, w # None => IsWorkspace(w), NEW s \in TaskSpecs, NEW posture,
         Admit(w, s.providerRef, posture).verdict = "Pin"
  PROVE  LET pin == WithModel(Admit(w, s.providerRef, posture).pin, s.model) IN
         /\ pin \in Pins
         /\ PolicyAuthorized(pin)
         /\ PostureProblem(posture, pin) = None
<1> DEFINE r == ResolveWorkspace(w.spec, s.providerRef)
           pin == WithModel(r.pin, s.model)
<1>1. w # None /\ Admit(w, s.providerRef, posture) = AdmitResolved(r, posture)
  BY DEF Admit, Decline
<1>2. /\ r.ok
      /\ PostureProblem(posture, r.pin) = None
      /\ PolicyProblem(r.pin) = None
      /\ Admit(w, s.providerRef, posture).pin = r.pin
  BY <1>1 DEF AdmitResolved, Decline
<1>3. w.spec \in WorkspaceSpecs
  BY <1>1 DEF IsWorkspace
<1>4. pin \in Pins
  BY <1>2, <1>3 DEF Pins
<1>5. PICK p : r = Resolved(w.spec, p)
  BY <1>2, ResolveShape
<1>6. r.pin = Pinned(w.spec, p) /\ r.pin.agentPolicy = w.spec.agentPolicy
  BY <1>5 DEF Resolved, Pinned
<1>7. pin.agentPolicy = r.pin.agentPolicy
  BY <1>6, WithModelKeepsPolicy
<1>8. /\ AllowsUnattended(pin) <=> AllowsUnattended(r.pin)
      /\ AsksUnsupervised(pin) <=> AsksUnsupervised(r.pin)
  BY <1>7, PolicyDecides
<1>9. PolicyAuthorized(pin)
  <2>1. "agentPolicy not allowed" # None
    BY DataAssumption DEF DataAssumption
  <2>2. ~(AsksUnsupervised(r.pin) /\ ~AllowsUnattended(r.pin))
    BY <1>2, <2>1, Zenon DEF PolicyProblem
  <2> QED BY <1>8, <2>2, Zenon DEF PolicyAuthorized
<1>10. PostureProblem(posture, pin) = None
  BY <1>2, <1>8 DEF PostureProblem
<1> QED BY <1>2, <1>4, <1>9, <1>10

-----------------------------------------------------------------------------
(* The statuses the operator writes. *)

LEMMA PostureKnown ==
  ASSUME NEW t, IsTask(t)
  PROVE  Posture(t) \in {"supervised", "unattended"}
BY DataAssumption DEF DataAssumption, IsTask, Posture

LEMMA DefaultShape ==
  /\ IsStatus(DefaultStatus)
  /\ StatusAuthorized(DefaultStatus)
<1>1. IsStatus(DefaultStatus)
  BY DEF IsStatus, IsConditions, DefaultStatus, PartialStatus, NoConditions
<1>2. DefaultStatus.posture # "unattended" /\ DefaultStatus.pin = None
  BY DataAssumption DEF DataAssumption, DefaultStatus, PartialStatus
<1> QED BY <1>1, <1>2 DEF StatusAuthorized

LEMMA FailedShape ==
  ASSUME NEW reason, NEW problem
  PROVE  LET s == FailedStatus(reason, problem) IN
         /\ IsStatus(s)
         /\ s.phase = "Failed" /\ ~s.sandboxRef
         /\ s.posture = None /\ s.pin = None
         /\ s.conditions.AgentsSettled = None
         /\ s.conditions.Ready.reason = reason
         /\ s.conditions.Ready.message = problem
<1>1. FailedStatus(reason, problem) =
        [phase |-> "Failed", endpoint |-> FALSE, sandboxRef |-> FALSE,
         posture |-> None, pin |-> None,
         conditions |-> ReadyCondition("False", reason, problem)]
  BY DEF FailedStatus, PartialStatus
<1>2. LET c == ReadyCondition("False", reason, problem) IN
        /\ IsConditions(c)
        /\ c.AgentsSettled = None
        /\ c.Ready.reason = reason /\ c.Ready.message = problem
  BY DEF ReadyCondition, IsConditions
<1>3. IsStatus(FailedStatus(reason, problem))
  BY <1>1, <1>2 DEF IsStatus
<1> QED BY <1>1, <1>2, <1>3

LEMMA PinShape ==
  ASSUME NEW pin \in Pins, NEW posture \in {"supervised", "unattended"}
  PROVE  LET s == PinStatus(pin, posture) IN
         /\ IsStatus(s)
         /\ s.phase = "Pending"
         /\ s.posture = posture /\ s.pin = pin
         /\ s.conditions.AgentsSettled = None
<1>1. PinStatus(pin, posture) =
        [phase |-> "Pending", endpoint |-> FALSE, sandboxRef |-> FALSE,
         posture |-> posture, pin |-> pin, conditions |-> NoConditions]
  BY DEF PinStatus, PartialStatus
<1>2. IsConditions(NoConditions) /\ NoConditions.AgentsSettled = None
  BY DEF NoConditions, IsConditions
<1>3. IsStatus(PinStatus(pin, posture))
  BY <1>1, <1>2 DEF IsStatus
<1> QED BY <1>1, <1>2, <1>3

LEMMA DeriveShape ==
  ASSUME NEW t, IsTask(t), NEW sb \in Sandboxes, NEW pin \in Pins
  PROVE  LET s == DeriveStatus(t, sb, pin) IN
         /\ IsStatus(s)
         /\ s.sandboxRef
         /\ s.posture = Posture(t) /\ s.pin = pin
         /\ s.conditions.AgentsSettled = None
<1> DEFINE phase == DerivedPhase(t.status, sb)
           c == DerivedConditions(phase, sb)
<1>1. sb # None
  BY DataAssumption DEF DataAssumption
<1>2. phase \in {"Provisioning", "Running", "Completed", "Failed"}
  BY <1>1 DEF DerivedPhase, InfrastructurePhase
<1>3. IsConditions(c) /\ c.AgentsSettled = None
  BY <1>2 DEF DerivedConditions, ReadyCondition, NoConditions, IsConditions
<1>4. SandboxReady(sb) \in BOOLEAN
  BY DEF SandboxReady
<1> HIDE DEF phase, c
<1>5. DeriveStatus(t, sb, pin) =
        [phase |-> phase, endpoint |-> SandboxReady(sb), sandboxRef |-> TRUE,
         posture |-> Posture(t), pin |-> pin, conditions |-> c]
  BY <1>1 DEF DeriveStatus, phase, c
<1>6. IsStatus(DeriveStatus(t, sb, pin))
  BY <1>1, <1>2, <1>3, <1>4, <1>5, PostureKnown DEF IsStatus
<1>7. LET s == DeriveStatus(t, sb, pin) IN
        s.sandboxRef /\ s.posture = Posture(t) /\ s.pin = pin /\ s.conditions = c
  BY <1>1, <1>5
<1> QED BY <1>3, <1>6, <1>7

-----------------------------------------------------------------------------
(* The invariant, split by who writes what.                                *)

SharedOK ==
  /\ IsTask(task) /\ StatusAuthorized(task.status)
  /\ workspace # None => IsWorkspace(workspace)
  /\ secrets \in [SecretNames -> SecretContents]
  /\ children \subseteq {"ServiceAccount", "NetworkPolicy"}
  /\ sandbox \in Sandboxes \cup {None}
  /\ sandbox # None => PolicyAuthorized(sandbox.pin)

ControllerOK ==
  /\ IsTask(cache) /\ StatusAuthorized(cache.status)
  /\ queued \in BOOLEAN /\ audited \in BOOLEAN
  /\ edits \in 0 .. MaxEdits /\ faults \in 0 .. MaxFaults

Requeues == {"none", "soon", "retry", "resync"}

RunOK ==
  /\ timer \in Requeues
  /\ pc \in Admitted \cup {"idle", "secret", "workspace", "fail"}
  /\ pc # "idle" => IsTask(obj) /\ StatusAuthorized(obj.status)
  /\ pc \in Admitted =>
       /\ resolved \in Pins
       /\ PolicyAuthorized(resolved)
       /\ Posture(obj) = "unattended" => AllowsUnattended(resolved)
  /\ pc = "fail" =>
       body = FailedStatus(body.conditions.Ready.reason,
                           body.conditions.Ready.message)
  /\ pc = "status" => /\ IsStatus(body)
                      /\ body.pin = resolved /\ body.posture = Posture(obj)
                      /\ body.sandboxRef
                      /\ body.conditions.AgentsSettled = None

IInv == SharedOK /\ ControllerOK /\ RunOK

\* IInv is the type invariant and the authority of every config in flight.
LEMMA IInvMeaning == IInv => TypeOK /\ Authority
<1> SUFFICES ASSUME IInv PROVE TypeOK /\ Authority
  OBVIOUS
<1>1. pc = "fail" => IsStatus(body)
  BY FailedShape DEF IInv, RunOK
<1>2. TypeOK
  BY <1>1 DEF IInv, SharedOK, ControllerOK, RunOK, Requeues, TypeOK
<1>3. Authority
  BY DEF IInv, SharedOK, ControllerOK, RunOK, Authority
<1> QED BY <1>2, <1>3

-----------------------------------------------------------------------------
(* The building blocks of a reconcile keep RunOK. *)

LEMMA IdleKeeps ==
  ASSUME Idle, timer' \in Requeues
  PROVE  RunOK'
BY DEF Idle, RunOK, Admitted

LEMMA AbortKeeps ==
  ASSUME Abort, faults \in 0 .. MaxFaults
  PROVE  RunOK' /\ faults' \in 0 .. MaxFaults
<1>1. timer' \in Requeues /\ Idle
  BY DEF Abort, Requeues
<1>2. faults' \in 0 .. MaxFaults
  BY BoundsAssumption DEF BoundsAssumption, Abort
<1> QED BY <1>1, <1>2, IdleKeeps

LEMMA FailKeeps ==
  ASSUME NEW t, IsTask(t), StatusAuthorized(t.status),
         NEW reason, NEW problem, Fail(t, reason, problem)
  PROVE  RunOK' /\ faults' = faults
<1> DEFINE failed == FailedStatus(reason, problem)
<1>1. CASE StatusEq(t.status, failed)
  <2>1. Finish(RequeueAfterFailure(reason))
    BY <1>1 DEF Fail
  <2>2. RequeueAfterFailure(reason) \in Requeues
    BY DEF RequeueAfterFailure, Requeues
  <2> QED BY <2>1, <2>2, IdleKeeps DEF Finish
<1>2. CASE ~StatusEq(t.status, failed)
  <2>1. /\ pc' = "fail" /\ timer' = "none" /\ faults' = faults
        /\ body' = failed /\ obj' = t
    BY <1>2 DEF Fail, Goto
  <2>2. failed = FailedStatus(failed.conditions.Ready.reason,
                              failed.conditions.Ready.message)
    BY FailedShape
  <2> HIDE DEF failed
  <2> QED BY <2>1, <2>2 DEF RunOK, Admitted, Requeues
<1> QED BY <1>1, <1>2

LEMMA PostureProblemMeaning ==
  ASSUME NEW posture, NEW pin
  PROVE  PostureProblem(posture, pin) = None <=>
           (posture = "unattended" => AllowsUnattended(pin))
<1>1. "unattended not allowed" # None
  BY DataAssumption DEF DataAssumption
<1> QED BY <1>1, Zenon DEF PostureProblem

LEMMA PinOrFetchKeeps ==
  ASSUME NEW t, IsTask(t), StatusAuthorized(t.status),
         PinOrFetch(t)
  PROVE  RunOK' /\ faults' = faults
<1> DEFINE pin == t.status.pin
<1>1. CASE pin = None
  BY <1>1 DEF PinOrFetch, Goto, RunOK, Admitted, Requeues
<1>2. CASE pin # None /\ PostureProblem(Posture(t), pin) # None
  BY <1>2, FailKeeps DEF PinOrFetch
<1>3. CASE pin # None /\ PostureProblem(Posture(t), pin) = None
  <2>1. /\ pc' = "serviceAccount" /\ timer' = "none" /\ faults' = faults
        /\ obj' = t /\ resolved' = pin
    BY <1>3 DEF PinOrFetch, Goto
  <2>2. pin \in Pins /\ PolicyAuthorized(pin)
    BY <1>3 DEF IsTask, IsStatus, StatusAuthorized
  <2>3. Posture(t) = "unattended" => AllowsUnattended(pin)
    BY <1>3, PostureProblemMeaning
  <2> HIDE DEF pin
  <2> QED BY <2>1, <2>2, <2>3 DEF RunOK, Admitted, Posture, Requeues
<1> QED BY <1>1, <1>2, <1>3

LEMMA CheckStateKeeps ==
  ASSUME NEW t, IsTask(t), StatusAuthorized(t.status),
         CheckState(t)
  PROVE  RunOK' /\ faults' = faults
<1>1. CASE PinOrFetch(t)
  BY <1>1, PinOrFetchKeeps
<1>2. CASE Fail(t, "InvalidState", StateProblem(t.spec.state))
  BY <1>2, FailKeeps
<1>3. CASE /\ Goto("secret") /\ obj' = t
           /\ UNCHANGED <<resolved, body>>
  BY <1>3 DEF Goto, RunOK, Admitted, Requeues
<1> QED BY <1>1, <1>2, <1>3 DEF CheckState

\* A write that took effect, before or after the Sandbox is applied.
LEMMA ReplyKeeps ==
  ASSUME RunOK, pc \in Admitted, faults \in 0 .. MaxFaults,
         NEW next \in Admitted \ {"status"}, Reply(next)
  PROVE  RunOK' /\ faults' \in 0 .. MaxFaults
<1>1. CASE Abort
  BY <1>1, AbortKeeps
<1>2. CASE Goto(next) /\ UNCHANGED <<obj, resolved, body>>
  BY <1>2 DEF Goto, RunOK, Admitted, Posture, Requeues
<1> QED BY <1>1, <1>2 DEF Reply

-----------------------------------------------------------------------------
(* The invariant holds initially and every step keeps it. *)

LEMMA InitEstablishes == Init => IInv
<1> SUFFICES ASSUME Init PROVE IInv
  OBVIOUS
<1>1. IsTask(task) /\ task.status = DefaultStatus
  BY DefaultShape DEF Init, IsTask
<1>2. SharedOK
  <2>1. workspace # None => IsWorkspace(workspace)
    BY DEF Init, IsWorkspace
  <2>2. secrets \in [SecretNames -> SecretContents]
    BY DataAssumption DEF DataAssumption, Init
  <2> QED BY <1>1, <2>1, <2>2, DefaultShape DEF Init, SharedOK
<1>3. ControllerOK
  <2>1. IsTask(cache) /\ StatusAuthorized(cache.status)
    BY <1>1, DefaultShape DEF Init
  <2>2. edits \in 0 .. MaxEdits /\ faults \in 0 .. MaxFaults
    BY BoundsAssumption DEF BoundsAssumption, Init
  <2>3. queued \in BOOLEAN /\ audited \in BOOLEAN
    BY DEF Init
  <2> QED BY <2>1, <2>2, <2>3 DEF ControllerOK
<1>4. RunOK
  BY DEF Init, RunOK, Admitted, Requeues
<1> QED BY <1>2, <1>3, <1>4 DEF IInv

\* A status written by the operator: well formed and authorized.
LEMMA WriteKeeps ==
  ASSUME IsTask(task), NEW written, IsStatus(written), StatusAuthorized(written),
         task' = [task EXCEPT !.status = Apply(@, written)]
  PROVE  IsTask(task') /\ StatusAuthorized(task'.status)
<1>1. task' = [nameFits |-> task.nameFits, spec |-> task.spec,
               status |-> Apply(task.status, written)]
  BY DEF IsTask
<1>2. IsStatus(Apply(task.status, written))
  BY ApplyShape DEF IsTask
<1>3. StatusAuthorized(Apply(task.status, written))
  BY ApplyShape DEF IsTask, StatusAuthorized
<1> QED BY <1>1, <1>2, <1>3 DEF IsTask

LEMMA ReconcileKeeps ==
  ASSUME IInv, Reconcile
  PROVE  IInv'
<1> USE DEF IInv
<1>1. CASE Start
  <2>1. SharedOK'
    BY <1>1 DEF Start, users, cluster, SharedOK
  <2>2. RunOK' /\ faults' = faults
    BY <1>1, FailKeeps, CheckStateKeeps DEF Start, ControllerOK, RunOK
  <2>3. ControllerOK'
    BY <1>1, <2>2 DEF Start, ControllerOK
  <2> QED BY <2>1, <2>2, <2>3
<1>2. CASE GetTokenSecret
  <2>1. SharedOK'
    BY <1>2 DEF GetTokenSecret, users, cluster, SharedOK
  <2>2. IsTask(obj) /\ StatusAuthorized(obj.status)
    BY <1>2 DEF GetTokenSecret, RunOK
  <2>3. RunOK' /\ faults' = faults
    BY <1>2, <2>2, FailKeeps, PinOrFetchKeeps DEF GetTokenSecret
  <2>4. ControllerOK'
    BY <1>2, <2>3 DEF GetTokenSecret, ControllerOK
  <2> QED BY <2>1, <2>3, <2>4
<1>3. CASE GetWorkspace
  <2> DEFINE a == Admit(workspace, obj.spec.providerRef, Posture(obj))
  <2>1. SharedOK'
    BY <1>3 DEF GetWorkspace, users, cluster, SharedOK
  <2>2. IsTask(obj) /\ StatusAuthorized(obj.status)
    BY <1>3 DEF GetWorkspace, RunOK
  <2>3. RunOK' /\ faults' = faults
    <3>1. CASE a.verdict = "Fail" /\ Fail(obj, a.reason, a.problem)
      BY <3>1, <2>2, FailKeeps
    <3>2. CASE a.verdict = "Requeue" /\ Finish("soon")
      BY <3>2, IdleKeeps DEF Finish, Requeues
    <3>3. CASE /\ a.verdict = "Pin"
               /\ resolved' = WithModel(a.pin, obj.spec.model)
               /\ Goto("pin")
               /\ UNCHANGED <<obj, body>>
      <4>1. obj.spec \in TaskSpecs
        BY <2>2 DEF IsTask
      <4>2. /\ resolved' \in Pins
            /\ PolicyAuthorized(resolved')
            /\ PostureProblem(Posture(obj), resolved') = None
        BY <3>3, <4>1, AdmitAuthorizes DEF SharedOK
      <4>3. Posture(obj) = "unattended" => AllowsUnattended(resolved')
        BY <4>2, PostureProblemMeaning
      <4> QED BY <3>3, <2>2, <4>2, <4>3 DEF Goto, RunOK, Admitted, Posture, Requeues
    <3> QED BY <1>3, <3>1, <3>2, <3>3 DEF GetWorkspace
  <2>4. ControllerOK'
    BY <1>3, <2>3 DEF GetWorkspace, ControllerOK
  <2> QED BY <2>1, <2>3, <2>4
<1>4. CASE ApplyPin
  <2> DEFINE pinned == PinStatus(resolved, Posture(obj))
  <2>1. /\ IsTask(obj) /\ resolved \in Pins /\ PolicyAuthorized(resolved)
        /\ Posture(obj) = "unattended" => AllowsUnattended(resolved)
    BY <1>4 DEF ApplyPin, RunOK, Admitted
  <2>2. IsStatus(pinned) /\ StatusAuthorized(pinned)
    <3>1. IsStatus(pinned) /\ pinned.posture = Posture(obj) /\ pinned.pin = resolved
      BY <2>1, PostureKnown, PinShape
    <3>2. resolved # None
      BY <2>1, DataAssumption DEF DataAssumption
    <3> HIDE DEF pinned
    <3> QED BY <2>1, <3>1, <3>2 DEF StatusAuthorized
  <2>3. IsTask(task') /\ StatusAuthorized(task'.status)
    BY <1>4, <2>2, WriteKeeps DEF ApplyPin, SharedOK
  <2>4. SharedOK'
    BY <1>4, <2>3 DEF ApplyPin, users, cluster, SharedOK
  <2>5. RunOK' /\ faults' \in 0 .. MaxFaults
    BY <1>4, ReplyKeeps DEF ApplyPin, ControllerOK, Admitted
  <2>6. ControllerOK'
    BY <1>4, <2>5 DEF ApplyPin, ControllerOK
  <2> QED BY <2>4, <2>5, <2>6
<1>5. CASE PublishUnattended
  <2>1. SharedOK'
    BY <1>5 DEF PublishUnattended, users, cluster, SharedOK
  <2>2. RunOK'
    BY <1>5 DEF PublishUnattended, RunOK, Admitted, Posture
  <2>3. audited' \in BOOLEAN /\ faults' \in 0 .. MaxFaults
    <3>1. audited' \in BOOLEAN
      BY <1>5 DEF PublishUnattended, ControllerOK
    <3>2. faults' = faults \/ (faults < MaxFaults /\ faults' = faults + 1)
      BY <1>5 DEF PublishUnattended
    <3>3. faults' \in 0 .. MaxFaults
      BY <3>2, BoundsAssumption DEF BoundsAssumption, ControllerOK
    <3> QED BY <3>1, <3>3
  <2>4. ControllerOK'
    BY <1>5, <2>3 DEF PublishUnattended, ControllerOK
  <2> QED BY <2>1, <2>2, <2>4
<1>6. CASE ApplyServiceAccount \/ ApplyNetworkPolicy
  <2>1. SharedOK'
    BY <1>6 DEF ApplyServiceAccount, ApplyNetworkPolicy, users, SharedOK
  <2>2. RunOK' /\ faults' \in 0 .. MaxFaults
    BY <1>6, ReplyKeeps DEF ApplyServiceAccount, ApplyNetworkPolicy, ControllerOK, Admitted
  <2>3. ControllerOK'
    BY <1>6, <2>2 DEF ApplyServiceAccount, ApplyNetworkPolicy, ControllerOK
  <2> QED BY <2>1, <2>2, <2>3
<1>7. CASE ApplySandbox
  <2>1. /\ IsTask(obj) /\ resolved \in Pins /\ PolicyAuthorized(resolved)
    BY <1>7 DEF ApplySandbox, RunOK, Admitted
  <2>2. /\ BuildSandbox(sandbox) \in Sandboxes
        /\ BuildSandbox(sandbox).pin = resolved
    <3>1. sandbox # None => sandbox.fqdn \in BOOLEAN /\ sandbox.ready \in {None, "True", "False"}
      BY DEF SharedOK, Sandboxes
    <3>2. obj.spec.state \in { s.state : s \in TaskSpecs }
      BY <2>1 DEF IsTask
    <3> QED BY <2>1, <3>1, <3>2 DEF BuildSandbox, Sandboxes
  <2>3. SharedOK'
    BY <1>7, <2>1, <2>2 DEF ApplySandbox, users, SharedOK
  <2>4. RunOK' /\ faults' \in 0 .. MaxFaults
    <3>1. CASE Abort
      BY <3>1, AbortKeeps DEF ControllerOK
    <3>2. CASE Derive(sandbox')
      <4> DEFINE derived == DeriveStatus(obj, sandbox', resolved)
      <4>1. CASE StatusEq(obj.status, derived)
        BY <3>2, <4>1, IdleKeeps DEF Derive, Finish, Requeues, ControllerOK
      <4>2. CASE ~StatusEq(obj.status, derived)
        <5>1. /\ pc' = "status" /\ timer' = "none" /\ faults' = faults
              /\ body' = derived /\ obj' = obj /\ resolved' = resolved
          BY <3>2, <4>2 DEF Derive, Goto
        <5>2. /\ IsStatus(derived)
              /\ derived.sandboxRef
              /\ derived.posture = Posture(obj) /\ derived.pin = resolved
              /\ derived.conditions.AgentsSettled = None
          BY <1>7, <2>1, <2>2, DeriveShape DEF ApplySandbox
        <5> HIDE DEF derived
        <5> QED BY <1>7, <5>1, <5>2 DEF ApplySandbox, RunOK, Admitted, Posture, Requeues, ControllerOK
      <4> QED BY <4>1, <4>2
    <3> QED BY <1>7, <3>1, <3>2 DEF ApplySandbox
  <2>5. ControllerOK'
    BY <1>7, <2>4 DEF ApplySandbox, ControllerOK
  <2> QED BY <2>3, <2>4, <2>5
<1>8. CASE ApplyStatus
  <2>1. IsStatus(body) /\ StatusAuthorized(body)
    BY <1>8, DataAssumption DEF DataAssumption, ApplyStatus, RunOK, Admitted,
       StatusAuthorized
  <2>2. IsTask(task') /\ StatusAuthorized(task'.status)
    BY <1>8, <2>1, WriteKeeps DEF ApplyStatus, WriteStatus, SharedOK
  <2>3. SharedOK'
    BY <1>8, <2>2 DEF ApplyStatus, users, cluster, SharedOK
  <2>4. RunOK' /\ faults' \in 0 .. MaxFaults
    BY <1>8, IdleKeeps, AbortKeeps DEF ApplyStatus, Finish, Requeues, ControllerOK
  <2>5. ControllerOK'
    BY <1>8, <2>4 DEF ApplyStatus, ControllerOK
  <2> QED BY <2>3, <2>4, <2>5
<1>9. CASE ApplyFailure
  <2>1. IsStatus(body) /\ body.posture = None /\ body.pin = None
    BY <1>9, FailedShape DEF ApplyFailure, RunOK
  <2>2. StatusAuthorized(body)
    BY <2>1, DataAssumption DEF DataAssumption, StatusAuthorized
  <2>3. IsTask(task') /\ StatusAuthorized(task'.status)
    BY <1>9, <2>1, <2>2, WriteKeeps DEF ApplyFailure, WriteStatus, SharedOK
  <2>4. SharedOK'
    BY <1>9, <2>3 DEF ApplyFailure, users, cluster, SharedOK
  <2>5. RunOK' /\ faults' \in 0 .. MaxFaults
    BY <1>9, IdleKeeps, AbortKeeps DEF ApplyFailure, Finish, RequeueAfterFailure,
       Requeues, ControllerOK
  <2>6. ControllerOK'
    BY <1>9, <2>5 DEF ApplyFailure, ControllerOK
  <2> QED BY <2>4, <2>5, <2>6
<1> QED BY <1>1, <1>2, <1>3, <1>4, <1>5, <1>6, <1>7, <1>8, <1>9 DEF Reconcile

LEMMA RuntimeKeeps ==
  ASSUME IInv, ApiError \/ WatchTask \/ TimerFires \/ Restart
  PROVE  IInv'
<1> USE DEF IInv
<1>1. SharedOK'
  BY DEF ApiError, WatchTask, TimerFires, Restart, users, cluster, SharedOK
<1>2. CASE ApiError
  <2>1. RunOK' /\ faults' \in 0 .. MaxFaults
    BY <1>2, AbortKeeps DEF ApiError, ControllerOK
  <2>2. ControllerOK'
    BY <1>2, <2>1 DEF ApiError, ControllerOK
  <2> QED BY <1>1, <2>1, <2>2
<1>3. CASE WatchTask \/ TimerFires
  <2>1. RunOK'
    BY <1>3 DEF WatchTask, TimerFires, reconcile, RunOK, Admitted, Posture, Requeues
  <2>2. ControllerOK'
    BY <1>3 DEF WatchTask, TimerFires, reconcile, ControllerOK, SharedOK
  <2> QED BY <1>1, <2>1, <2>2
<1>4. CASE Restart
  <2>1. RunOK'
    BY <1>4, IdleKeeps DEF Restart, Requeues
  <2>2. faults' \in 0 .. MaxFaults
    BY <1>4, BoundsAssumption DEF BoundsAssumption, Restart, ControllerOK
  <2>3. ControllerOK'
    BY <1>4, <2>2 DEF Restart, ControllerOK, SharedOK
  <2> QED BY <1>1, <2>1, <2>3
<1> QED BY <1>2, <1>3, <1>4

\* Nothing outside the operator touches its reconcile.
LEMMA OperatorUntouched ==
  ASSUME RunOK, UNCHANGED operator
  PROVE  RunOK'
BY DEF operator, reconcile, RunOK, Admitted, Posture

LEMMA EnvironmentControllerKeeps ==
  ASSUME ControllerOK, UNCHANGED operator, queued' \in BOOLEAN,
         Edit \/ UNCHANGED edits
  PROVE  ControllerOK'
<1>1. edits' \in 0 .. MaxEdits
  BY BoundsAssumption DEF BoundsAssumption, Edit, ControllerOK
<1> QED BY <1>1 DEF operator, ControllerOK

LEMMA EnvironmentKeeps ==
  ASSUME IInv, Environment
  PROVE  IInv'
<1> USE DEF IInv
<1>1. /\ UNCHANGED operator
      /\ queued' \in BOOLEAN
      /\ Edit \/ UNCHANGED edits
  BY DEF Environment, EditTask, WriteWorkspace, DeleteWorkspace, WriteSecret,
         ValidateStep, ServiceCreated, PodNotReady, PodReady, SandboxDeleted,
         ProsperoReports, SandboxChanges, ControllerOK
<1>2. RunOK' /\ ControllerOK'
  BY <1>1, OperatorUntouched, EnvironmentControllerKeeps
<1>3. CASE EditTask
  BY <1>2, <1>3 DEF EditTask, users, cluster, SharedOK, IsTask
<1>4. CASE WriteWorkspace
  <2>1. workspace' # None => IsWorkspace(workspace')
    BY <1>4 DEF WriteWorkspace, SharedOK, IsWorkspace
  <2> QED BY <1>2, <1>4, <2>1 DEF WriteWorkspace, cluster, SharedOK
<1>5. CASE DeleteWorkspace
  BY <1>2, <1>5 DEF DeleteWorkspace, cluster, SharedOK
<1>6. CASE WriteSecret
  <2>1. secrets' \in [SecretNames -> SecretContents]
    BY <1>6 DEF WriteSecret, SharedOK
  <2> QED BY <1>2, <1>6, <2>1 DEF WriteSecret, cluster, SharedOK
<1>7. CASE ValidateStep
  <2>1. Validated.phase \in {"Ready", "Failed"}
    BY DEF Validated, ValidateWorkspace, Failed
  <2>2. IsWorkspace(workspace')
    BY <1>7, <2>1 DEF ValidateStep, SharedOK, IsWorkspace
  <2> QED BY <1>2, <1>7, <2>2 DEF ValidateStep, cluster, SharedOK
<1>8. CASE ServiceCreated \/ PodNotReady \/ PodReady \/ SandboxDeleted
  <2>1. /\ sandbox' \in Sandboxes \cup {None}
        /\ sandbox' # None => sandbox # None /\ sandbox'.pin = sandbox.pin
    BY <1>8 DEF ServiceCreated, PodNotReady, PodReady, SandboxDeleted, SharedOK,
                Sandboxes
  <2>2. UNCHANGED <<task, users, children>>
    BY <1>8 DEF ServiceCreated, PodNotReady, PodReady, SandboxDeleted,
                SandboxChanges
  <2> QED BY <1>2, <2>1, <2>2 DEF users, SharedOK
<1>9. CASE ProsperoReports
  <2>1. PICK reason \in {"AgentsActive", "Succeeded", "Failed"} :
          task' = [task EXCEPT !.status = Report(@, reason)]
    BY <1>9 DEF ProsperoReports
  <2>2. /\ IsStatus(Report(task.status, reason))
        /\ Report(task.status, reason).posture = task.status.posture
        /\ Report(task.status, reason).pin = task.status.pin
    BY DEF SharedOK, IsTask, IsStatus, IsConditions, Report
  <2>3. IsTask(task') /\ StatusAuthorized(task'.status)
    BY <2>1, <2>2 DEF SharedOK, IsTask, StatusAuthorized
  <2> QED BY <1>2, <1>9, <2>3 DEF ProsperoReports, users, cluster, SharedOK
<1> QED BY <1>3, <1>4, <1>5, <1>6, <1>7, <1>8, <1>9 DEF Environment

-----------------------------------------------------------------------------
(* Theorems. *)

LEMMA StepKeeps == IInv /\ [Next]_vars => IInv'
<1> SUFFICES ASSUME IInv, [Next]_vars PROVE IInv'
  OBVIOUS
<1>1. CASE UNCHANGED vars
  BY <1>1 DEF vars, users, cluster, reconcile, IInv, SharedOK, ControllerOK,
              RunOK, Admitted, Posture
<1> QED BY <1>1, ReconcileKeeps, RuntimeKeeps, EnvironmentKeeps DEF Next

LEMMA Invariance == Spec => []IInv
BY InitEstablishes, StepKeeps, PTL DEF Spec

\* Every variable keeps its shape (controller.rs, the state of a reconcile).
THEOREM TypeCorrect == Spec => []TypeOK
<1>1. IInv => TypeOK
  BY IInvMeaning
<1> QED BY <1>1, Invariance, PTL

\* Whatever copy of the task a reconcile works on, the config it carries may
\* run the posture it was admitted with (controller.rs:250-286, :398-448).
THEOREM AuthorityHolds == Spec => []Authority
<1>1. IInv => Authority
  BY IInvMeaning
<1> QED BY <1>1, Invariance, PTL

\* No task is recorded as unattended and no Sandbox built unsupervised without
\* the leave of the Workspace config it is pinned to (ADR 0006).
THEOREM UnattendedSafety == Spec => []UnattendedAuthorized
<1>1. Authority => UnattendedAuthorized
  BY DEF Authority, StatusAuthorized, UnattendedAuthorized
<1> QED BY <1>1, AuthorityHolds, PTL

-----------------------------------------------------------------------------
(* The network policy comes before the pod. *)

Children == {"ServiceAccount", "NetworkPolicy"}

IsolationInv ==
  /\ children \subseteq Children
  /\ sandbox # None => children = Children
  /\ pc = "networkPolicy" => "ServiceAccount" \in children
  /\ pc = "sandbox" => children = Children

\* The steps before the ServiceAccount and every end of a reconcile.
Outside == {"idle", "secret", "workspace", "fail", "pin", "publish",
            "serviceAccount", "status"}

LEMMA EarlySteps ==
  ASSUME \/ Start \/ GetTokenSecret \/ GetWorkspace \/ ApplyPin
         \/ PublishUnattended \/ ApplyStatus \/ ApplyFailure \/ ApiError \/ Restart
  PROVE  pc' \in Outside /\ UNCHANGED cluster
<1>1. \A r : Finish(r) => pc' \in Outside
  BY DEF Finish, Idle, Outside
<1>2. Abort \/ Idle => pc' \in Outside
  BY DEF Abort, Idle, Outside
<1>3. \A t, r, q : Fail(t, r, q) => pc' \in Outside
  BY <1>1 DEF Fail, Goto, Outside
<1>4. \A t : PinOrFetch(t) => pc' \in Outside
  BY <1>3 DEF PinOrFetch, Goto, Outside
<1>5. \A t : CheckState(t) => pc' \in Outside
  BY <1>3, <1>4 DEF CheckState, Goto, Outside
<1>6. CASE Start
  BY <1>6, <1>3, <1>5 DEF Start
<1>7. CASE GetTokenSecret
  BY <1>7, <1>3, <1>4 DEF GetTokenSecret
<1>8. CASE GetWorkspace
  BY <1>8, <1>1, <1>3 DEF GetWorkspace, Goto, Outside
<1>9. CASE ApplyPin \/ PublishUnattended
  BY <1>9, <1>2 DEF ApplyPin, PublishUnattended, Reply, Goto, Outside
<1>10. CASE ApplyStatus \/ ApplyFailure
  BY <1>10, <1>1, <1>2 DEF ApplyStatus, ApplyFailure
<1>11. CASE ApiError \/ Restart
  BY <1>11, <1>2 DEF ApiError, Restart
<1> QED BY <1>6, <1>7, <1>8, <1>9, <1>10, <1>11

LEMMA IsolationStep == IsolationInv /\ [Next]_vars => IsolationInv'
<1> SUFFICES ASSUME IsolationInv, [Next]_vars PROVE IsolationInv'
  OBVIOUS
<1>1. CASE pc' \in Outside /\ UNCHANGED cluster
  BY <1>1 DEF Outside, cluster, IsolationInv
<1>2. CASE ApplyServiceAccount
  BY <1>2 DEF ApplyServiceAccount, Reply, Goto, Abort, Idle, IsolationInv, Children
<1>3. CASE ApplyNetworkPolicy
  <2>1. children' = Children /\ UNCHANGED sandbox
    BY <1>3 DEF ApplyNetworkPolicy, IsolationInv, Children
  <2>2. pc' # "networkPolicy"
    BY <1>3 DEF ApplyNetworkPolicy, Reply, Goto, Abort, Idle
  <2> QED BY <2>1, <2>2 DEF IsolationInv
<1>4. CASE ApplySandbox
  BY <1>4 DEF ApplySandbox, Derive, Finish, Goto, Abort, Idle, IsolationInv
<1>5. CASE WatchTask \/ TimerFires \/ UNCHANGED vars
  BY <1>5 DEF WatchTask, TimerFires, vars, reconcile, cluster, IsolationInv
<1>6. CASE Environment
  BY <1>6 DEF Environment, EditTask, WriteWorkspace, DeleteWorkspace,
              WriteSecret, ValidateStep, ServiceCreated, PodNotReady, PodReady,
              SandboxDeleted, ProsperoReports, SandboxChanges, operator,
              reconcile, cluster, IsolationInv
<1> QED BY <1>1, <1>2, <1>3, <1>4, <1>5, <1>6, EarlySteps DEF Next, Reconcile

\* No Sandbox exists without the ServiceAccount and the NetworkPolicy of its
\* task, across errors, lost replies and restarts (controller.rs:477-482).
THEOREM Isolation == Spec => []IsolatedFirst
<1>1. Init => IsolationInv
  BY DEF Init, IsolationInv
<1>2. IsolationInv => IsolatedFirst
  BY DEF IsolationInv, IsolatedFirst, Children
<1> QED BY <1>1, <1>2, IsolationStep, PTL DEF Spec

-----------------------------------------------------------------------------
(* What a write of the operator does to the status. *)

\* The four ways the task object changes in a step.
LEMMA TaskChanges ==
  ASSUME IInv, [Next]_vars
  PROVE  \/ task' = task
         \/ UNCHANGED pc /\ task'.status = task.status
         \/ /\ UNCHANGED pc
            /\ \E reason : task'.status = Report(task.status, reason)
         \/ \E written :
              /\ IsStatus(written)
              /\ written.conditions.AgentsSettled = None
              /\ task'.status = Apply(task.status, written)
              /\ \/ written.pin # None /\ written.sandboxRef
                 \/ /\ written.pin # None /\ written.phase = "Pending"
                    /\ written.posture # None
                 \/ /\ written.pin = None /\ written.phase = "Failed"
                    /\ ~written.sandboxRef
<1> USE DEF IInv
<1>1. CASE EditTask
  BY <1>1 DEF EditTask, operator, reconcile, SharedOK, IsTask
<1>2. CASE ProsperoReports
  BY <1>2 DEF ProsperoReports, operator, reconcile, SharedOK, IsTask
<1>3. CASE ApplyPin
  <2> DEFINE pinned == PinStatus(resolved, Posture(obj))
  <2>1. IsTask(obj) /\ resolved \in Pins
    BY <1>3 DEF ApplyPin, RunOK, Admitted
  <2>2. Posture(obj) \in {"supervised", "unattended"}
    BY <2>1, PostureKnown
  <2>3. Posture(obj) # None /\ resolved # None
    BY <2>1, <2>2, DataAssumption DEF DataAssumption
  <2>4. /\ IsStatus(pinned) /\ pinned.conditions.AgentsSettled = None
        /\ pinned.pin # None /\ pinned.phase = "Pending" /\ pinned.posture # None
    BY <2>1, <2>2, <2>3, PinShape
  <2>5. task'.status = Apply(task.status, pinned)
    BY <1>3 DEF ApplyPin, SharedOK, IsTask
  <2> HIDE DEF pinned
  <2> QED BY <2>4, <2>5
<1>4. CASE ApplyStatus
  <2>1. /\ IsStatus(body) /\ body.sandboxRef /\ body.pin # None
        /\ body.conditions.AgentsSettled = None
    BY <1>4, DataAssumption DEF DataAssumption, ApplyStatus, RunOK, Admitted
  <2>2. task'.status = Apply(task.status, body)
    BY <1>4 DEF ApplyStatus, WriteStatus, SharedOK, IsTask
  <2> QED BY <2>1, <2>2
<1>5. CASE ApplyFailure
  <2>1. /\ IsStatus(body) /\ body.pin = None /\ body.phase = "Failed"
        /\ ~body.sandboxRef /\ body.conditions.AgentsSettled = None
    BY <1>5, FailedShape DEF ApplyFailure, RunOK
  <2>2. task'.status = Apply(task.status, body)
    BY <1>5 DEF ApplyFailure, WriteStatus, SharedOK, IsTask
  <2> QED BY <2>1, <2>2
<1>6. CASE task' = task
  BY <1>6
<1> QED
  BY <1>1, <1>2, <1>3, <1>4, <1>5, <1>6 DEF Next, vars, Reconcile, Start,
     GetTokenSecret, GetWorkspace, PublishUnattended, ApplyServiceAccount,
     ApplyNetworkPolicy, ApplySandbox, ApiError, WatchTask, TimerFires, Restart,
     Environment, WriteWorkspace, DeleteWorkspace, WriteSecret, ValidateStep,
     ServiceCreated, PodNotReady, PodReady, SandboxDeleted, SandboxChanges

\* An operator step never changes prospero's AgentsSettled condition, although
\* every status it builds starts from an older copy (ADR 0005).
THEOREM ProsperoKept == Spec => ProsperoConditionKept
<1>1. IInv /\ [Next]_vars =>
        [pc' # pc => task'.status.conditions.AgentsSettled
                       = task.status.conditions.AgentsSettled]_vars
  BY TaskChanges, ApplyShape DEF IInv, SharedOK, IsTask
<1> QED BY <1>1, Invariance, PTL DEF Spec, ProsperoConditionKept

\* A pin is lost only in a write that fails the task (controller.rs:489-492).
THEOREM PinKept == Spec => PinLostOnlyByFailing
<1>1. IInv /\ [Next]_vars =>
        [task.status.pin # None /\ task'.status.pin = None =>
           task'.status.phase = "Failed" /\ ~task'.status.sandboxRef]_vars
  <2> SUFFICES ASSUME IInv, [Next]_vars,
                      task.status.pin # None, task'.status.pin = None
               PROVE  task'.status.phase = "Failed" /\ ~task'.status.sandboxRef
    OBVIOUS
  <2>1. \A reason : Report(task.status, reason).pin = task.status.pin
    BY DEF IInv, SharedOK, IsTask, IsStatus, Report
  <2> QED BY <2>1, TaskChanges, ApplyShape DEF IInv, SharedOK, IsTask
<1> QED BY <1>1, Invariance, PTL DEF Spec, PinLostOnlyByFailing

\* Whether a task is pinned can be read from the fields status_eq compares
\* (controller.rs:161-169), so a failure is never mistaken for recorded.
THEOREM PinVisibility == Spec => []PinIsVisible
<1>1. Init => PinIsVisible
  BY DEF Init, DefaultStatus, PartialStatus, PinIsVisible
<1>2. IInv /\ PinIsVisible /\ [Next]_vars => PinIsVisible'
  <2> SUFFICES ASSUME IInv, PinIsVisible, [Next]_vars PROVE PinIsVisible'
    OBVIOUS
  <2>1. \A reason : LET s == Report(task.status, reason) IN
          /\ s.pin = task.status.pin /\ s.sandboxRef = task.status.sandboxRef
          /\ s.phase = task.status.phase /\ s.posture = task.status.posture
    BY DEF IInv, SharedOK, IsTask, IsStatus, Report
  <2> QED BY <2>1, TaskChanges, ApplyShape DEF IInv, SharedOK, IsTask, PinIsVisible
<1> QED BY <1>1, <1>2, Invariance, PTL DEF Spec

-----------------------------------------------------------------------------
(* Pins are persisted before they are used, and kept by who knows them. *)

\* A reconcile that fetches the Workspace found no pin in its copy of the task;
\* one past admission carries the pin of its copy or the one in the status.
PinKnown ==
  /\ pc \in {"workspace", "pin"} => obj.status.pin = None
  /\ pc \in Admitted \ {"pin"} =>
       resolved = obj.status.pin \/ resolved = task.status.pin

\* A step that ends the reconcile, or moves it on with the pin it carries.
LEMMA PinKnownKept ==
  ASSUME PinKnown, UNCHANGED <<obj, resolved>>,
         pc' = pc \/ (pc \in Admitted \ {"pin"} /\ pc' \in Admitted \ {"pin"}),
         task'.status.pin = task.status.pin
  PROVE  PinKnown'
BY DEF PinKnown, Admitted

LEMMA FailMovesOn ==
  ASSUME NEW t, NEW reason, NEW problem, Fail(t, reason, problem)
  PROVE  pc' \in {"idle", "fail"}
BY DEF Fail, Finish, Idle, Goto

LEMMA PinOrFetchKnows ==
  ASSUME NEW t, PinOrFetch(t)
  PROVE  PinKnown'
<1>1. CASE t.status.pin = None
  BY <1>1 DEF PinOrFetch, Goto, PinKnown, Admitted
<1>2. CASE Fail(t, "PostureNotPermitted", PostureProblem(Posture(t), t.status.pin))
  BY <1>2, FailMovesOn DEF PinKnown, Admitted
<1>3. CASE t.status.pin # None /\ Goto("serviceAccount") /\ obj' = t
           /\ resolved' = t.status.pin
  BY <1>3 DEF Goto, PinKnown, Admitted
<1> QED BY <1>1, <1>2, <1>3 DEF PinOrFetch

LEMMA PinKnownStep == IInv /\ PinKnown /\ [Next]_vars => PinKnown'
<1> SUFFICES ASSUME IInv, PinKnown, [Next]_vars PROVE PinKnown'
  OBVIOUS
<1> USE DEF IInv
<1>1. pc' \in {"idle", "fail", "secret"} => PinKnown'
  BY DEF PinKnown, Admitted
<1>2. CASE Start
  <2>1. CASE Fail(cache, "InvalidName", "name too long")
    BY <1>1, <2>1, FailMovesOn
  <2>2. CASE CheckState(cache)
    BY <1>1, <2>2, FailMovesOn, PinOrFetchKnows DEF CheckState, Goto
  <2> QED BY <1>2, <2>1, <2>2 DEF Start
<1>3. CASE GetTokenSecret
  BY <1>1, <1>3, FailMovesOn, PinOrFetchKnows DEF GetTokenSecret
<1>4. CASE GetWorkspace
  <2>1. \/ pc' = "pin" /\ obj' = obj
        \/ pc' \in {"idle", "fail"}
    BY <1>4, FailMovesOn DEF GetWorkspace, Goto, Finish, Idle
  <2> QED BY <1>1, <1>4, <2>1 DEF GetWorkspace, PinKnown, Admitted
<1>5. CASE ApplyPin
  <2>1. task'.status.pin = resolved
    <3>1. IsTask(obj) /\ resolved \in Pins
      BY <1>5 DEF ApplyPin, RunOK, Admitted
    <3>2. IsStatus(PinStatus(resolved, Posture(obj)))
          /\ PinStatus(resolved, Posture(obj)).pin = resolved
      BY <3>1, PostureKnown, PinShape
    <3>3. task'.status = Apply(task.status, PinStatus(resolved, Posture(obj)))
      BY <1>5 DEF ApplyPin, SharedOK, IsTask
    <3> QED BY <3>2, <3>3, ApplyShape DEF SharedOK, IsTask
  <2>2. pc' = "idle" \/ (pc' \in {"publish", "serviceAccount"} /\ resolved' = resolved)
    BY <1>5 DEF ApplyPin, Reply, Goto, Abort, Idle
  <2> QED BY <1>1, <2>1, <2>2 DEF PinKnown, Admitted
<1>6. CASE PublishUnattended
  BY <1>6, PinKnownKept DEF PublishUnattended, Admitted
<1>7. CASE ApplyServiceAccount \/ ApplyNetworkPolicy
  <2>1. \/ pc' = "idle"
        \/ /\ UNCHANGED <<obj, resolved>>
           /\ pc \in Admitted \ {"pin"} /\ pc' \in Admitted \ {"pin"}
    BY <1>7 DEF ApplyServiceAccount, ApplyNetworkPolicy, Reply, Goto, Abort, Idle, Admitted
  <2>2. task' = task
    BY <1>7 DEF ApplyServiceAccount, ApplyNetworkPolicy
  <2> QED BY <1>1, <2>1, <2>2, PinKnownKept
<1>8. CASE ApplySandbox
  <2>1. \/ pc' = "idle"
        \/ /\ UNCHANGED <<obj, resolved>>
           /\ pc \in Admitted \ {"pin"} /\ pc' \in Admitted \ {"pin"}
    BY <1>8 DEF ApplySandbox, Derive, Finish, Goto, Abort, Idle, Admitted
  <2>2. task' = task
    BY <1>8 DEF ApplySandbox
  <2> QED BY <1>1, <2>1, <2>2, PinKnownKept
<1>9. CASE ApplyStatus \/ ApplyFailure \/ ApiError \/ Restart
  BY <1>1, <1>9 DEF ApplyStatus, ApplyFailure, ApiError, Restart, Finish, Abort, Idle
<1>10. CASE WatchTask \/ TimerFires \/ UNCHANGED vars
  BY <1>10, PinKnownKept DEF WatchTask, TimerFires, vars, reconcile
<1>11. CASE Environment
  <2>1. task'.status.pin = task.status.pin
    BY <1>11 DEF Environment, EditTask, WriteWorkspace, DeleteWorkspace,
       WriteSecret, ValidateStep, ServiceCreated, PodNotReady, PodReady,
       SandboxDeleted, ProsperoReports, SandboxChanges, Report, SharedOK, IsTask,
       IsStatus
  <2>2. UNCHANGED operator
    BY <1>11 DEF Environment, EditTask, WriteWorkspace, DeleteWorkspace,
       WriteSecret, ValidateStep, ServiceCreated, PodNotReady, PodReady,
       SandboxDeleted, ProsperoReports, SandboxChanges
  <2> QED BY <2>1, <2>2, PinKnownKept DEF operator, reconcile
<1> QED BY <1>2, <1>3, <1>4, <1>5, <1>6, <1>7, <1>8, <1>9, <1>10, <1>11
        DEF Next, Reconcile

LEMMA PinKnownAlways == Spec => [](IInv /\ PinKnown)
<1>1. Init => PinKnown
  BY DEF Init, PinKnown, Admitted
<1> QED BY <1>1, Invariance, PinKnownStep, PTL DEF Spec

\* A Sandbox is built only from a config that a status held before it, however
\* stale the copy of the task (controller.rs:436-445, :478-482).
THEOREM PersistedFirst == Spec => SandboxRunsThePin
<1>1. IInv /\ PinKnown /\ [Next]_vars =>
        [sandbox' # None /\ (sandbox = None \/ sandbox'.pin # sandbox.pin) =>
           sandbox'.pin \in {task.status.pin, obj.status.pin}]_vars
  <2> SUFFICES ASSUME IInv, PinKnown, [Next]_vars, sandbox' # None,
                      sandbox = None \/ sandbox'.pin # sandbox.pin
               PROVE  sandbox'.pin \in {task.status.pin, obj.status.pin}
    OBVIOUS
  <2>1. CASE ApplySandbox
    BY <2>1 DEF ApplySandbox, BuildSandbox, PinKnown, Admitted
  <2>2. CASE ServiceCreated \/ PodNotReady \/ PodReady \/ SandboxDeleted
    <3>1. sandbox \in Sandboxes
      BY <2>2 DEF ServiceCreated, PodNotReady, PodReady, SandboxDeleted, IInv,
                  SharedOK
    <3>2. sandbox' # None => sandbox'.pin = sandbox.pin
      BY <2>2, <3>1 DEF ServiceCreated, PodNotReady, PodReady, SandboxDeleted,
                        Sandboxes
    <3>3. sandbox # None
      BY <2>2 DEF ServiceCreated, PodNotReady, PodReady, SandboxDeleted
    <3> QED BY <3>2, <3>3
  <2>3. CASE EditTask \/ WriteWorkspace \/ DeleteWorkspace \/ WriteSecret
             \/ ValidateStep \/ ProsperoReports
    BY <2>3 DEF EditTask, WriteWorkspace, DeleteWorkspace, WriteSecret,
                ValidateStep, ProsperoReports, cluster
  <2>4. CASE ApplyServiceAccount \/ ApplyNetworkPolicy \/ WatchTask \/ TimerFires
    BY <2>4 DEF ApplyServiceAccount, ApplyNetworkPolicy, WatchTask, TimerFires,
                cluster
  <2>5. CASE UNCHANGED cluster
    BY <2>5 DEF cluster
  <2>6. CASE UNCHANGED vars
    BY <2>6 DEF vars, cluster
  <2> QED
    BY <2>1, <2>2, <2>3, <2>4, <2>5, <2>6, EarlySteps DEF Next, Reconcile, Environment
<1> QED BY <1>1, PinKnownAlways, PTL DEF Spec, SandboxRunsThePin

\* Only a reconcile that does not know of a pin replaces it by another
\* (controller.rs:391-412, ADR 0004).
THEOREM PinStability == Spec => PinStable
<1>1. IInv /\ PinKnown /\ [Next]_vars =>
        [task.status.pin # None /\ task'.status.pin \notin {task.status.pin, None} =>
           obj.status.pin # task.status.pin]_vars
  <2> SUFFICES ASSUME IInv, PinKnown, [Next]_vars, task.status.pin # None,
                      task'.status.pin \notin {task.status.pin, None},
                      obj.status.pin = task.status.pin
               PROVE  FALSE
    OBVIOUS
  <2>1. CASE ApplyPin
    BY <2>1 DEF ApplyPin, PinKnown
  <2>2. CASE ApplyStatus
    <3>1. IsStatus(body) /\ body.pin = resolved /\ resolved = task.status.pin
      BY <2>2 DEF ApplyStatus, IInv, RunOK, PinKnown, Admitted
    <3>2. task'.status = Apply(task.status, body)
      BY <2>2 DEF ApplyStatus, WriteStatus, IInv, SharedOK, IsTask
    <3> QED BY <3>1, <3>2, ApplyShape DEF IInv, SharedOK, IsTask
  <2>3. CASE ApplyFailure
    <3>1. IsStatus(body) /\ body.pin = None
      BY <2>3, FailedShape DEF ApplyFailure, IInv, RunOK
    <3>2. task'.status = Apply(task.status, body)
      BY <2>3 DEF ApplyFailure, WriteStatus, IInv, SharedOK, IsTask
    <3> QED BY <3>1, <3>2, ApplyShape DEF IInv, SharedOK, IsTask
  <2>4. CASE Environment
    BY <2>4 DEF Environment, EditTask, WriteWorkspace, DeleteWorkspace,
       WriteSecret, ValidateStep, ServiceCreated, PodNotReady, PodReady,
       SandboxDeleted, ProsperoReports, SandboxChanges, Report, IInv, SharedOK,
       IsTask, IsStatus
  <2>5. CASE task' = task
    BY <2>5
  <2> QED
    BY <2>1, <2>2, <2>3, <2>4, <2>5 DEF Next, vars, Reconcile, Start,
       GetTokenSecret, GetWorkspace, PublishUnattended, ApplyServiceAccount,
       ApplyNetworkPolicy, ApplySandbox, ApiError, WatchTask, TimerFires, Restart
<1> QED BY <1>1, PinKnownAlways, PTL DEF Spec, PinStable
=============================================================================
