------------------------ MODULE TaskAttention_proofs ------------------------
(* No task is left without a trigger, and what the operator leaves behind    *)
(* is true, for every value of the constants of TaskReconcile.               *)
EXTENDS TaskReconcile_proofs

-----------------------------------------------------------------------------
(* Every end of a reconcile asks to be run again, but for a bad name. *)

\* What a part of a reconcile on t, whose name is usable, may lead to.
GoesOn(t) ==
  \/ pc' \in {"secret", "workspace", "serviceAccount", "pin"} /\ obj' = t
  \/ pc' = "idle" /\ timer' # "none"
  \/ pc' = "fail" /\ obj' = t /\ body'.conditions.Ready.reason # "InvalidName"

LEMMA FailGoesOn ==
  ASSUME NEW t, NEW reason, NEW problem, reason # "InvalidName",
         Fail(t, reason, problem)
  PROVE  GoesOn(t)
<1> DEFINE failed == FailedStatus(reason, problem)
<1>1. CASE StatusEq(t.status, failed)
  BY <1>1 DEF Fail, Finish, Idle, RequeueAfterFailure, GoesOn
<1>2. CASE ~StatusEq(t.status, failed)
  <2>1. pc' = "fail" /\ body' = failed /\ obj' = t
    BY <1>2 DEF Fail, Goto
  <2> HIDE DEF failed
  <2> QED BY <2>1, FailedShape DEF GoesOn, failed
<1> QED BY <1>1, <1>2

LEMMA PinOrFetchGoesOn ==
  ASSUME NEW t, PinOrFetch(t)
  PROVE  GoesOn(t)
<1>1. CASE Fail(t, "PostureNotPermitted", PostureProblem(Posture(t), t.status.pin))
  BY <1>1, FailGoesOn
<1>2. CASE pc' \in {"workspace", "serviceAccount"} /\ obj' = t
  BY <1>2 DEF GoesOn
<1> QED BY <1>1, <1>2 DEF PinOrFetch, Goto

LEMMA CheckStateGoesOn ==
  ASSUME NEW t, CheckState(t)
  PROVE  GoesOn(t)
<1>1. CASE Fail(t, "InvalidState", StateProblem(t.spec.state))
  BY <1>1, FailGoesOn
<1>2. CASE PinOrFetch(t)
  BY <1>2, PinOrFetchGoesOn
<1>3. CASE pc' = "secret" /\ obj' = t
  BY <1>3 DEF GoesOn
<1> QED BY <1>1, <1>2, <1>3 DEF CheckState, Goto

LEMMA AdmissionGoesOn ==
  ASSUME GetWorkspace
  PROVE  GoesOn(obj)
<1> DEFINE a == Admit(workspace, obj.spec.providerRef, Posture(obj))
<1>1. a.verdict = "Fail" => a.reason # "InvalidName"
  BY DEF Admit, AdmitResolved, Decline
<1>2. CASE a.verdict = "Fail" /\ Fail(obj, a.reason, a.problem)
  BY <1>1, <1>2, FailGoesOn
<1>3. CASE Finish("soon")
  BY <1>3 DEF Finish, Idle, GoesOn
<1>4. CASE pc' = "pin" /\ obj' = obj
  BY <1>4 DEF GoesOn
<1> QED BY <1>2, <1>3, <1>4 DEF GetWorkspace, Goto

\* Every copy has the name of the task; a reconcile that ended without asking
\* for another one has a name that never works.
Attended ==
  /\ cache.nameFits = task.nameFits
  /\ pc # "idle" => obj.nameFits = task.nameFits
  /\ pc = "fail" /\ body.conditions.Ready.reason = "InvalidName" => ~task.nameFits
  /\ pc = "idle" /\ ~queued /\ timer = "none" => ~task.nameFits

LEMMA NameStays ==
  ASSUME IInv, [Next]_vars
  PROVE  task'.nameFits = task.nameFits
BY DEF IInv, SharedOK, IsTask, Next, vars, Reconcile, Start, GetTokenSecret,
   GetWorkspace, ApplyPin, PublishUnattended, ApplyServiceAccount,
   ApplyNetworkPolicy, ApplySandbox, ApplyStatus, ApplyFailure, WriteStatus,
   ApiError, WatchTask, TimerFires, Restart, Environment, EditTask,
   WriteWorkspace, DeleteWorkspace, WriteSecret, ValidateStep, ServiceCreated,
   PodNotReady, PodReady, SandboxDeleted, SandboxChanges, ProsperoReports

LEMMA AttendedStep == IInv /\ Attended /\ [Next]_vars => Attended'
<1> SUFFICES ASSUME IInv, Attended, [Next]_vars PROVE Attended'
  OBVIOUS
<1>1. task'.nameFits = task.nameFits
  BY NameStays
<1>2. ASSUME NEW t, GoesOn(t), t.nameFits = task.nameFits, UNCHANGED cache
      PROVE  Attended'
  BY <1>1, <1>2 DEF GoesOn, Attended
<1>3. ASSUME Idle, timer' # "none", cache' \in {cache, task} PROVE Attended'
  BY <1>1, <1>3 DEF Idle, Attended
<1>4. ASSUME UNCHANGED <<obj, cache>>, pc \notin {"idle", "fail"},
             pc' \notin {"idle", "fail"}
      PROVE  Attended'
  BY <1>1, <1>4 DEF Attended
<1>5. CASE Start
  <2>1. CASE ~cache.nameFits /\ Fail(cache, "InvalidName", "name too long")
    <3>1. pc' = "idle" \/ (pc' = "fail" /\ obj' = cache)
      BY <2>1 DEF Fail, Finish, Idle, Goto
    <3> QED BY <1>1, <1>5, <2>1, <3>1 DEF Start, Attended
  <2>2. CASE CheckState(cache)
    BY <1>2, <1>5, <2>2, CheckStateGoesOn DEF Start, Attended
  <2> QED BY <1>5, <2>1, <2>2 DEF Start
<1>6. CASE GetTokenSecret
  <2>1. GoesOn(obj)
    BY <1>6, FailGoesOn, PinOrFetchGoesOn DEF GetTokenSecret
  <2> QED BY <1>2, <1>6, <2>1 DEF GetTokenSecret, Attended
<1>7. CASE GetWorkspace
  BY <1>2, <1>7, AdmissionGoesOn DEF GetWorkspace, Attended
<1>8. CASE ApplyPin \/ PublishUnattended \/ ApplyServiceAccount \/ ApplyNetworkPolicy
  <2>1. \/ Idle /\ timer' # "none"
        \/ /\ UNCHANGED obj /\ pc \notin {"idle", "fail"}
           /\ pc' \notin {"idle", "fail"}
    BY <1>8 DEF ApplyPin, PublishUnattended, ApplyServiceAccount,
                ApplyNetworkPolicy, Reply, Goto, Abort
  <2>2. UNCHANGED cache
    BY <1>8 DEF ApplyPin, PublishUnattended, ApplyServiceAccount, ApplyNetworkPolicy
  <2> QED BY <1>3, <1>4, <2>1, <2>2
<1>9. CASE ApplySandbox
  <2>1. \/ Idle /\ timer' # "none"
        \/ UNCHANGED obj /\ pc = "sandbox" /\ pc' = "status"
    BY <1>9 DEF ApplySandbox, Derive, Finish, Goto, Abort
  <2> QED BY <1>3, <1>4, <1>9, <2>1 DEF ApplySandbox
<1>10. CASE ApplyStatus \/ ApiError
  BY <1>3, <1>10 DEF ApplyStatus, ApiError, Finish, Abort
<1>11. CASE ApplyFailure
  <2>1. pc = "fail" /\ pc' = "idle" /\ UNCHANGED cache
    BY <1>11 DEF ApplyFailure, Finish, Abort, Idle
  <2>2. timer' = "none" => body.conditions.Ready.reason = "InvalidName"
    BY <1>11 DEF ApplyFailure, Finish, Abort, RequeueAfterFailure
  <2> QED BY <1>1, <2>1, <2>2 DEF Attended
<1>12. CASE WatchTask \/ TimerFires \/ Restart
  <2>1. queued' = TRUE /\ cache' \in {cache, task}
    BY <1>12 DEF WatchTask, TimerFires, Restart
  <2>2. UNCHANGED <<pc, obj, body>> \/ pc' = "idle"
    BY <1>12 DEF WatchTask, TimerFires, Restart, reconcile, Idle
  <2> QED BY <1>1, <2>1, <2>2 DEF Attended
<1>13. CASE Environment \/ UNCHANGED vars
  <2>1. UNCHANGED <<cache, timer, pc, obj, body>> /\ (queued' = queued \/ queued' = TRUE)
    BY <1>13 DEF Environment, EditTask, WriteWorkspace, DeleteWorkspace,
       WriteSecret, ValidateStep, ServiceCreated, PodNotReady, PodReady,
       SandboxDeleted, ProsperoReports, SandboxChanges, operator, reconcile, vars
  <2> QED BY <1>1, <2>1 DEF Attended
<1> QED BY <1>5, <1>6, <1>7, <1>8, <1>9, <1>10, <1>11, <1>12, <1>13
        DEF Next, Reconcile

\* A task the operator knows in full and is not working on has a run due or a
\* timer set, unless its name can never work (controller.rs:360-499).
THEOREM Attention == Spec => []NeverAbandoned
<1>1. Init => Attended
  BY DEF Init, Attended
<1>2. Attended => NeverAbandoned
  BY DEF Attended, NeverAbandoned
<1> QED BY <1>1, <1>2, AttendedStep, Invariance, PTL DEF Spec

-----------------------------------------------------------------------------
(* Once everything is quiet, the status says what the Sandbox says. *)

\* The status recorded in t is the one derived from t and the Sandbox.
Mirrors(t, sb) == StatusEq(t.status, DeriveStatus(t, sb, None))

\* As long as no notification is waiting, a reconcile works on the current
\* cache, and what it derives is from the current Sandbox; one that reached
\* the end found the status right or has just written another.
Quiet ==
  /\ pc # "idle" /\ ~queued => obj = cache
  /\ pc = "status" /\ ~queued =>
       /\ sandbox # None
       /\ StatusEq(body, DeriveStatus(obj, sandbox, None))
       /\ ~StatusEq(obj.status, body)
  /\ pc = "idle" /\ ~queued /\ timer = "resync" =>
       /\ sandbox # None
       /\ StatusEq(task.status, cache.status) => Mirrors(cache, sandbox)

\* The comparison is an equivalence, and blind to the pin.
LEMMA StatusEqual ==
  ASSUME NEW a, NEW b, NEW c
  PROVE  /\ StatusEq(a, b) => StatusEq(b, a)
         /\ StatusEq(a, b) /\ StatusEq(b, c) => StatusEq(a, c)
BY DEF StatusEq

LEMMA PinUnseen ==
  ASSUME NEW t, NEW sb, NEW pin
  PROVE  StatusEq(DeriveStatus(t, sb, pin), DeriveStatus(t, sb, None))
BY DEF StatusEq, DeriveStatus

\* What is applied can be read back.
LEMMA ApplyEqual ==
  ASSUME NEW s, IsStatus(s), NEW b, IsStatus(b)
  PROVE  StatusEq(Apply(s, b), b)
<1> DEFINE c == IF b.conditions.AgentsSettled # None THEN b.conditions
                ELSE [b.conditions EXCEPT !.AgentsSettled = s.conditions.AgentsSettled]
<1>1. c.Ready = b.conditions.Ready
  BY DEF IsStatus, IsConditions
<1>2. Apply(s, b) = [b EXCEPT !.conditions = c]
  BY DEF Apply
<1> HIDE DEF c
<1>3. Apply(s, b) = [phase |-> b.phase, endpoint |-> b.endpoint,
                     sandboxRef |-> b.sandboxRef, posture |-> b.posture,
                     pin |-> b.pin, conditions |-> c]
  BY <1>2 DEF IsStatus
<1> QED BY <1>1, <1>3 DEF StatusEq

\* prospero's report is not among what is compared.
LEMMA ReportUnseen ==
  ASSUME NEW s, IsStatus(s), NEW reason
  PROVE  StatusEq(Report(s, reason), s)
BY DEF IsStatus, IsConditions, Report, StatusEq

\* A part of a reconcile on t that does not end in the resync requeue.
Short(t) ==
  \/ pc' \in {"secret", "workspace", "serviceAccount", "pin", "fail"} /\ obj' = t
  \/ pc' = "idle" /\ timer' # "resync"

LEMMA PartsAreShort ==
  ASSUME NEW t
  PROVE  /\ \A reason, problem : Fail(t, reason, problem) => Short(t)
         /\ PinOrFetch(t) => Short(t)
         /\ CheckState(t) => Short(t)
<1>1. \A reason, problem : Fail(t, reason, problem) => Short(t)
  BY DEF Fail, Finish, Idle, Goto, RequeueAfterFailure, Short
<1>2. PinOrFetch(t) => Short(t)
  BY <1>1 DEF PinOrFetch, Goto, Short
<1>3. CheckState(t) => Short(t)
  BY <1>1, <1>2 DEF CheckState, Goto, Short
<1> QED BY <1>1, <1>2, <1>3

LEMMA QuietInReconcile ==
  ASSUME IInv, Quiet, Reconcile
  PROVE  Quiet'
<1> USE DEF IInv
<1>1. ASSUME NEW t, Short(t), ~queued' => t = cache, UNCHANGED cache PROVE Quiet'
  BY <1>1 DEF Short, Quiet
<1>2. ASSUME Idle, timer' # "resync" PROVE Quiet'
  BY <1>2 DEF Idle, Quiet
<1>3. CASE Start
  BY <1>1, <1>3, PartsAreShort DEF Start
<1>4. CASE GetTokenSecret
  <2>1. Short(obj)
    BY <1>4, PartsAreShort DEF GetTokenSecret
  <2> QED BY <1>1, <1>4, <2>1 DEF GetTokenSecret, Quiet
<1>5. CASE GetWorkspace
  <2>1. Short(obj)
    BY <1>5, PartsAreShort DEF GetWorkspace, Finish, Idle, Goto, Short
  <2> QED BY <1>1, <1>5, <2>1 DEF GetWorkspace, Quiet
<1>6. CASE ApplyPin \/ PublishUnattended \/ ApplyServiceAccount \/ ApplyNetworkPolicy
  <2>1. \/ Idle /\ timer' # "resync"
        \/ UNCHANGED obj /\ pc # "idle" /\ pc' \notin {"idle", "status"}
    BY <1>6 DEF ApplyPin, PublishUnattended, ApplyServiceAccount,
                ApplyNetworkPolicy, Reply, Goto, Abort
  <2>2. UNCHANGED <<cache, queued>>
    BY <1>6 DEF ApplyPin, PublishUnattended, ApplyServiceAccount, ApplyNetworkPolicy
  <2> QED BY <1>2, <2>1, <2>2 DEF Quiet
<1>7. CASE ApplySandbox
  <2>1. CASE Abort
    BY <1>2, <2>1 DEF Abort
  <2>2. CASE queued'
    BY <2>2 DEF Quiet
  <2>3. CASE ~queued' /\ Derive(sandbox')
    <3> DEFINE derived == DeriveStatus(obj, sandbox', resolved)
    <3>1. obj = cache /\ UNCHANGED <<cache, task>> /\ sandbox' = BuildSandbox(sandbox)
      BY <1>7, <2>3 DEF ApplySandbox, Quiet
    <3>2. sandbox' # None
      <4>1. IsTask(obj) /\ resolved \in Pins
        BY <1>7 DEF ApplySandbox, RunOK, Admitted
      <4>2. sandbox # None =>
              sandbox.fqdn \in BOOLEAN /\ sandbox.ready \in {None, "True", "False"}
        BY DEF SharedOK, Sandboxes
      <4>3. BuildSandbox(sandbox) \in Sandboxes
        BY <4>1, <4>2 DEF BuildSandbox, Sandboxes, IsTask
      <4> QED BY <3>1, <4>3, DataAssumption DEF DataAssumption
    <3>3. StatusEq(derived, DeriveStatus(obj, sandbox', None))
      BY PinUnseen
    <3>4. CASE StatusEq(obj.status, derived)
      <4>1. pc' = "idle"
        BY <2>3, <3>4 DEF Derive, Finish, Idle
      <4>2. Mirrors(cache, sandbox')
        BY <3>1, <3>3, <3>4, StatusEqual DEF Mirrors
      <4>3. Mirrors(cache, sandbox)'
        BY <3>1, <4>2 DEF Mirrors, DeriveStatus, DerivedPhase, Posture
      <4> QED BY <3>2, <4>1, <4>3 DEF Quiet
    <3>5. CASE ~StatusEq(obj.status, derived)
      <4>1. pc' = "status" /\ body' = derived /\ obj' = obj
        BY <2>3, <3>5 DEF Derive, Goto
      <4> HIDE DEF derived
      <4>2. StatusEq(body', DeriveStatus(obj', sandbox', None))
        BY <3>3, <4>1
      <4> QED BY <3>1, <3>2, <3>5, <4>1, <4>2 DEF Quiet, StatusEq, DeriveStatus
    <3> QED BY <3>4, <3>5
  <2> QED BY <1>7, <2>1, <2>2, <2>3 DEF ApplySandbox
<1>8. CASE ApplyStatus
  <2>1. CASE Abort
    BY <1>2, <2>1 DEF Abort
  <2>2. CASE queued
    BY <1>8, <2>2 DEF ApplyStatus, Quiet
  <2>3. CASE ~queued /\ pc' = "idle"
    <3>1. /\ sandbox # None /\ UNCHANGED <<cache, sandbox>>
          /\ ~StatusEq(cache.status, body)
      BY <1>8, <2>3 DEF ApplyStatus, Quiet, cluster
    <3>2. task'.status = Apply(task.status, body) /\ IsStatus(body)
      BY <1>8 DEF ApplyStatus, WriteStatus, SharedOK, IsTask, RunOK, Admitted
    <3>3. StatusEq(task'.status, body)
      BY <3>2, ApplyEqual DEF SharedOK, IsTask
    <3>4. ~StatusEq(task'.status, cache.status)
      BY <3>1, <3>3, StatusEqual
    <3> QED BY <2>3, <3>1, <3>4 DEF Quiet, StatusEq
  <2> QED BY <1>8, <2>1, <2>2, <2>3 DEF ApplyStatus, Finish, Idle
<1>9. CASE ApplyFailure
  BY <1>2, <1>9 DEF ApplyFailure, Finish, RequeueAfterFailure, Abort
<1> QED BY <1>3, <1>4, <1>5, <1>6, <1>7, <1>8, <1>9 DEF Reconcile

LEMMA QuietStep == IInv /\ Quiet /\ [Next]_vars => Quiet'
<1> SUFFICES ASSUME IInv, Quiet, [Next]_vars PROVE Quiet'
  OBVIOUS
<1>1. CASE ApiError
  BY <1>1 DEF ApiError, Abort, Idle, Quiet
<1>2. CASE queued'
  BY <1>2 DEF Quiet
<1>3. CASE /\ UNCHANGED <<cache, queued, timer, pc, obj, resolved, body, sandbox>>
           /\ StatusEq(task'.status, task.status)
  BY <1>3, StatusEqual DEF Quiet, Mirrors, StatusEq, DeriveStatus, DerivedPhase, Posture
<1>4. CASE Environment \/ UNCHANGED vars
  <2>1. queued' \/ UNCHANGED <<cache, queued, timer, pc, obj, resolved, body, sandbox>>
    BY <1>4 DEF Environment, EditTask, WriteWorkspace, DeleteWorkspace,
       WriteSecret, ValidateStep, ServiceCreated, PodNotReady, PodReady,
       SandboxDeleted, ProsperoReports, SandboxChanges, operator, reconcile, vars,
       cluster
  <2>2. \/ task'.status = task.status
        \/ \E reason : task'.status = Report(task.status, reason)
    BY <1>4 DEF Environment, EditTask, WriteWorkspace, DeleteWorkspace,
       WriteSecret, ValidateStep, ServiceCreated, PodNotReady, PodReady,
       SandboxDeleted, ProsperoReports, SandboxChanges, vars, IInv, SharedOK, IsTask
  <2>3. StatusEq(task'.status, task.status)
    BY <2>2, ReportUnseen DEF IInv, SharedOK, IsTask, StatusEq
  <2> QED BY <1>2, <1>3, <2>1, <2>3
<1> QED BY <1>1, <1>2, <1>4, QuietInReconcile
        DEF Next, WatchTask, TimerFires, Restart

\* When nothing is left to do after a reconcile that reached the end, the
\* status says what the Sandbox says (controller.rs:485-499).
THEOREM Quiescence == Spec => []QuiescentStatus
<1>1. Init => Quiet
  BY DEF Init, Quiet
<1>2. IInv /\ Quiet => QuiescentStatus
  <2> SUFFICES ASSUME IInv, Quiet, pc = "idle", ~queued, cache = task, timer = "resync"
               PROVE  QuiescentStatus
    BY DEF QuiescentStatus
  <2>1. sandbox # None /\ StatusEq(task.status, DeriveStatus(task, sandbox, None))
    BY DEF Quiet, StatusEq, Mirrors
  <2> DEFINE phase == DerivedPhase(task.status, sandbox)
  <2>2. /\ task.status.phase = phase /\ task.status.endpoint = SandboxReady(sandbox)
        /\ task.status.sandboxRef = TRUE /\ task.status.posture = Posture(task)
        /\ task.status.conditions.Ready = DerivedConditions(phase, sandbox).Ready
    BY <2>1 DEF StatusEq, DeriveStatus
  <2>3. phase = CASE task.status.conditions.AgentsSettled = "Succeeded" -> "Completed"
                  [] task.status.conditions.AgentsSettled = "Failed"    -> "Failed"
                  [] OTHER -> IF SandboxReady(sandbox) THEN "Running" ELSE "Provisioning"
    BY <2>1 DEF DerivedPhase, InfrastructurePhase
  <2>4. phase \in {"Completed", "Failed", "Running", "Provisioning"}
    BY <2>3
  <2> HIDE DEF phase
  <2>5. (phase = "Running") <=>
          (DerivedConditions(phase, sandbox).Ready # None
             /\ DerivedConditions(phase, sandbox).Ready.status = "True")
    <3>1. CASE phase = "Running"
      BY <3>1, DataAssumption DEF DataAssumption, DerivedConditions, ReadyCondition
    <3>2. CASE phase \in {"Completed", "Failed"}
      BY <3>2 DEF DerivedConditions, ReadyCondition
    <3>3. CASE phase = "Provisioning"
      BY <3>3 DEF DerivedConditions, ReadyCondition, NoConditions
    <3> QED BY <2>4, <3>1, <3>2, <3>3
  <2> QED BY <2>1, <2>2, <2>3, <2>5 DEF QuiescentStatus
<1> QED BY <1>1, <1>2, QuietStep, Invariance, PTL DEF Spec
=============================================================================
