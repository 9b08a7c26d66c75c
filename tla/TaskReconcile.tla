--------------------------- MODULE TaskReconcile ---------------------------
(***************************************************************************)
(* The CalibanTask controller (src/controller.rs) working on one task,     *)
(* together with what it shares the API server with: users editing the     *)
(* task, the Workspace and the Secrets; agent-sandbox reporting on the     *)
(* Sandbox; prospero reporting the AgentsSettled condition.                *)
(*                                                                         *)
(* Every request to the API server is a step of its own, so anything may   *)
(* happen between two of them.  A reconcile works on obj, the copy of the  *)
(* task the controller's watch cache held when the reconcile started; the  *)
(* cache lags the API server.  kube-rs runs one reconcile per object at a  *)
(* time, remembers one pending request per object, and keeps one timer for *)
(* the requeue a reconcile asked for.                                      *)
(*                                                                         *)
(* Abstraction.  Wording, labels and metadata are left out, as are the     *)
(* Events but UnattendedAdmitted.  A delivery of the watch brings the      *)
(* cache to the current object (the versions in between are the states of  *)
(* the cache had it been delivered earlier).  The MissingUid return is     *)
(* left out: an object read from an API server has a uid.                  *)
(***************************************************************************)
EXTENDS WorkspaceConfig, Storage

CONSTANTS
  TaskSpecs,        \* what users may write in spec
  WorkspaceSpecs,   \* what users may write in the Workspace
  SecretContents,   \* values of a Secret: None, or its set of keys
  SecretNames,
  FreshCache,       \* TRUE: a reconcile starts only on a current cache
  MaxEdits,         \* bound on the steps of users, prospero and pod failures
  MaxFaults         \* bound on API errors, lost replies and operator crashes

ASSUME BoundsAssumption ==
  MaxEdits \in Nat /\ MaxFaults \in Nat /\ FreshCache \in BOOLEAN

\* The configurations an admission can pin.
Pins ==
  LET results == { ResolveWorkspace(w, s.providerRef) :
                     w \in WorkspaceSpecs, s \in TaskSpecs }
  IN  { WithModel(r.pin, s.model) :
          r \in { x \in results : x.ok }, s \in TaskSpecs }

Sandboxes ==
  [pin : Pins, state : { s.state : s \in TaskSpecs },
   fqdn : BOOLEAN, ready : {None, "True", "False"}]

\* None is no text and no condition; a Secret may be absent; a posture is one of the CRD's.
ASSUME DataAssumption ==
  /\ None \notin {"supervised", "unattended", "AgentsActive", "Succeeded",
                 "Failed", "unattended not allowed", "agentPolicy not allowed"}
  /\ None # [status |-> "True", reason |-> "Running", message |-> None]
  /\ None \notin Pins \cup Sandboxes
  /\ None \in SecretContents
  /\ \A s \in TaskSpecs : s.posture \in {None, "supervised", "unattended"}

VARIABLES
  \* the API server
  task,        \* [nameFits, spec, status]
  workspace,   \* None, or [spec, phase, message]
  secrets,     \* [SecretNames -> SecretContents]
  children,    \* which of "ServiceAccount", "NetworkPolicy" exist
  sandbox,     \* None, or [pin, state, fqdn, ready]
  \* the controller
  cache,       \* the watch cache's copy of task
  queued,      \* a reconcile of the task is due
  timer,       \* the requeue the last reconcile asked for
  pc, obj, resolved, body,    \* the reconcile under way
  \* bounds and history
  edits, faults,
  audited      \* an UnattendedAdmitted Event has been published

users == <<workspace, secrets>>
cluster == <<children, sandbox>>
reconcile == <<pc, obj, resolved, body>>
vars == <<task, users, cluster, cache, queued, timer, reconcile,
          edits, faults, audited>>

-----------------------------------------------------------------------------
(* Status values. *)

NoConditions == [Ready |-> None, AgentsSettled |-> None]

\* A status with some fields set, the others those of Default::default().
PartialStatus(phase, posture, pin, conditions) ==
  [phase |-> phase, endpoint |-> FALSE, sandboxRef |-> FALSE,
   posture |-> posture, pin |-> pin, conditions |-> conditions]

DefaultStatus == PartialStatus("Pending", None, None, NoConditions)

ReadyCondition(status, reason, message) ==
  [Ready |-> [status |-> status, reason |-> reason, message |-> message],
   AgentsSettled |-> None]

Posture(t) ==
  IF t.spec.posture = None THEN "supervised" ELSE t.spec.posture

\* Mutant: the comparison takes every condition into account.
StatusEqAllConditions(a, b) ==
  /\ a.phase = b.phase
  /\ a.endpoint = b.endpoint
  /\ a.sandboxRef = b.sandboxRef
  /\ a.posture = b.posture
  /\ a.conditions = b.conditions

StatusEq(a, b) ==
  /\ a.phase = b.phase
  /\ a.endpoint = b.endpoint
  /\ a.sandboxRef = b.sandboxRef
  /\ a.posture = b.posture
  /\ a.conditions.Ready = b.conditions.Ready

\* Server-side apply by the operator: its own fields become those of the body,
\* what the body omits is removed; a condition of another manager survives
\* unless the body carries that condition too.
Apply(status, applied) ==
  [applied EXCEPT !.conditions =
     IF @.AgentsSettled # None THEN @
     ELSE [@ EXCEPT !.AgentsSettled = status.conditions.AgentsSettled]]

\* prospero's own apply carries nothing but its condition.
Report(status, reason) ==
  [status EXCEPT !.conditions = [@ EXCEPT !.AgentsSettled = reason]]

SandboxReady(sb) == sb # None /\ sb.fqdn /\ sb.ready = "True"

InfrastructurePhase(sb) ==
  IF sb = None THEN "Pending"
  ELSE IF SandboxReady(sb) THEN "Running" ELSE "Provisioning"

\* Mutant: prospero's reason is taken for a phase.
DerivedPhaseFromReason(status, sb) ==
  IF status.conditions.AgentsSettled # None
  THEN status.conditions.AgentsSettled ELSE InfrastructurePhase(sb)

DerivedPhase(status, sb) ==
  CASE status.conditions.AgentsSettled = "Succeeded" -> "Completed"
    [] status.conditions.AgentsSettled = "Failed"    -> "Failed"
    [] OTHER                                         -> InfrastructurePhase(sb)

DerivedConditions(phase, sb) ==
  CASE phase = "Running"      -> ReadyCondition("True", "Running", None)
    [] phase = "Completed"    -> ReadyCondition("False", "Completed", None)
    [] phase = "Failed"       -> ReadyCondition("False", "AgentsFailed", "settled")
    [] phase = "Provisioning" /\ sb.ready = "False" ->
         ReadyCondition("False", "SandboxNotReady", "not ready")
    [] OTHER                  -> NoConditions

\* Mutant: the pin is the one the reconcile's copy of the task holds.
DeriveStatusOldPin(t, sb, pin) ==
  LET phase == DerivedPhase(t.status, sb) IN
  [phase |-> phase, endpoint |-> SandboxReady(sb), sandboxRef |-> sb # None,
   posture |-> Posture(t), pin |-> t.status.pin,
   conditions |-> DerivedConditions(phase, sb)]

\* Mutant: the conditions of other managers are carried along.
DeriveStatusAllConditions(t, sb, pin) ==
  LET phase == DerivedPhase(t.status, sb) IN
  [phase |-> phase, endpoint |-> SandboxReady(sb), sandboxRef |-> sb # None,
   posture |-> Posture(t), pin |-> pin,
   conditions |-> [DerivedConditions(phase, sb) EXCEPT
                     !.AgentsSettled = t.status.conditions.AgentsSettled]]

\* derive_status, and the pin reconcile carries into the result.
DeriveStatus(t, sb, pin) ==
  LET phase == DerivedPhase(t.status, sb) IN
  [phase |-> phase, endpoint |-> SandboxReady(sb), sandboxRef |-> sb # None,
   posture |-> Posture(t), pin |-> pin,
   conditions |-> DerivedConditions(phase, sb)]

\* derive_failed_status
FailedStatus(reason, problem) ==
  PartialStatus("Failed", None, None, ReadyCondition("False", reason, problem))

\* Mutant: the posture is left to the first derived status.
PinStatusNoPosture(pin, posture) ==
  PartialStatus("Pending", None, pin, NoConditions)

\* The status reconcile persists at admission.
PinStatus(pin, posture) ==
  PartialStatus("Pending", posture, pin, NoConditions)

-----------------------------------------------------------------------------
(* Replies of the API server and ends of a reconcile. *)

Idle ==
  /\ pc' = "idle" /\ obj' = None /\ resolved' = None /\ body' = None

\* Ok(Action): requeue "soon" (10 s), "retry" (30 s), "resync" (300 s), or
\* "none" for await_change.
Finish(requeue) == Idle /\ timer' = requeue /\ UNCHANGED faults

\* An error of the request: error_policy requeues after 30 s.
Abort ==
  /\ faults < MaxFaults
  /\ faults' = faults + 1
  /\ Idle
  /\ timer' = "retry"

\* The request failed and changed nothing.
ApiError ==
  /\ pc \notin {"idle", "publish"}
  /\ Abort
  /\ UNCHANGED <<task, users, cluster, cache, queued, edits, audited>>

\* The reconcile goes on.  The requeue asked for earlier is gone: kube-rs keeps
\* one pending run per object, and the one that became due replaced it.
Goto(next) == pc' = next /\ timer' = "none" /\ UNCHANGED faults

-----------------------------------------------------------------------------
(* reconcile, one action per request. *)

\* Mutants: a kind of failure waits for the task to change.
RequeueUnlessUnresolved(reason) ==
  IF reason \in {"InvalidName", "WorkspaceUnresolved"} THEN "none" ELSE "retry"
RequeueUnlessState(reason) ==
  IF reason \in {"InvalidName", "InvalidState"} THEN "none" ELSE "retry"

RequeueAfterFailure(reason) == IF reason = "InvalidName" THEN "none" ELSE "retry"

\* fail_task: nothing is written when the cached status records this failure.
Fail(t, reason, problem) ==
  LET failed == FailedStatus(reason, problem) IN
  IF StatusEq(t.status, failed)
  THEN Finish(RequeueAfterFailure(reason))
  ELSE /\ Goto("fail")
       /\ body' = failed
       /\ obj' = t
       /\ UNCHANGED resolved

\* Mutant: a pinned task is not checked again.
PinOrFetchUnchecked(t) ==
  \/ /\ t.status.pin = None
     /\ Goto("workspace")
     /\ obj' = t
     /\ UNCHANGED <<resolved, body>>
  \/ /\ t.status.pin # None
     /\ Goto("serviceAccount")
     /\ obj' = t
     /\ resolved' = t.status.pin
     /\ UNCHANGED body

\* Mutant: the Workspace is resolved on every reconcile.
AlwaysFetch(t) ==
  /\ Goto("workspace")
  /\ obj' = t
  /\ UNCHANGED <<resolved, body>>

\* The pinned branch checks the posture against the pin; an unpinned task goes
\* on to fetch its Workspace.
PinOrFetch(t) ==
  LET pin == t.status.pin IN
  \/ /\ pin = None
     /\ Goto("workspace")
     /\ obj' = t
     /\ UNCHANGED <<resolved, body>>
  \/ /\ pin # None
     /\ PostureProblem(Posture(t), pin) # None
     /\ Fail(t, "PostureNotPermitted", PostureProblem(Posture(t), pin))
  \/ /\ pin # None
     /\ PostureProblem(Posture(t), pin) = None
     /\ Goto("serviceAccount")
     /\ obj' = t
     /\ resolved' = pin
     /\ UNCHANGED body

CheckState(t) ==
  LET state == t.spec.state IN
  \/ /\ state = None
     /\ PinOrFetch(t)
  \/ /\ state # None
     /\ StateProblem(state) # None
     /\ Fail(t, "InvalidState", StateProblem(state))
  \/ /\ state # None
     /\ StateProblem(state) = None
     /\ state.tokenRef = None
     /\ PinOrFetch(t)
  \/ /\ state # None
     /\ StateProblem(state) = None
     /\ state.tokenRef # None
     /\ Goto("secret")
     /\ obj' = t
     /\ UNCHANGED <<resolved, body>>

\* The steps up to the first request.
Start ==
  /\ pc = "idle"
  /\ queued
  /\ FreshCache => cache = task
  /\ queued' = FALSE
  /\ \/ ~cache.nameFits /\ Fail(cache, "InvalidName", "name too long")
     \/ cache.nameFits /\ CheckState(cache)
  /\ UNCHANGED <<task, users, cluster, cache, edits, audited>>

GetTokenSecret ==
  /\ pc = "secret"
  /\ LET ref == obj.spec.state.tokenRef
         problem == TokenSecretProblem(secrets[ref.secretName], ref.key) IN
     \/ problem # None /\ Fail(obj, "InvalidState", problem)
     \/ problem = None /\ PinOrFetch(obj)
  /\ UNCHANGED <<task, users, cluster, cache, queued, edits, audited>>

GetWorkspace ==
  /\ pc = "workspace"
  /\ LET a == Admit(workspace, obj.spec.providerRef, Posture(obj)) IN
     \/ /\ a.verdict = "Pin"
        /\ resolved' = WithModel(a.pin, obj.spec.model)
        /\ Goto("pin")
        /\ UNCHANGED <<obj, body>>
     \/ a.verdict = "Requeue" /\ Finish("soon")
     \/ a.verdict = "Fail" /\ Fail(obj, a.reason, a.problem)
  /\ UNCHANGED <<task, users, cluster, cache, queued, edits, audited>>

\* A write took effect; the reconcile goes on, or the reply is lost.
Reply(next) ==
  \/ Goto(next) /\ UNCHANGED <<obj, resolved, body>>
  \/ Abort

\* Mutant: the pin is persisted with the derived status only.
ApplyPinLate ==
  /\ pc = "pin"
  /\ Reply(IF Posture(obj) = "unattended" THEN "publish" ELSE "serviceAccount")
  /\ UNCHANGED <<task, users, cluster, cache, queued, edits, audited>>

ApplyPin ==
  /\ pc = "pin"
  /\ task' = [task EXCEPT !.status = Apply(@, PinStatus(resolved, Posture(obj)))]
  /\ Reply(IF Posture(obj) = "unattended" THEN "publish" ELSE "serviceAccount")
  /\ UNCHANGED <<users, cluster, cache, queued, edits, audited>>

\* Best effort: an error is logged and the reconcile goes on.
PublishUnattended ==
  /\ pc = "publish"
  /\ pc' = "serviceAccount"
  /\ \/ audited' = TRUE /\ UNCHANGED faults
     \/ faults < MaxFaults /\ faults' = faults + 1 /\ UNCHANGED audited
  /\ UNCHANGED <<task, users, cluster, cache, queued, timer, obj, resolved,
                 body, edits>>

\* Mutant: the Sandbox is applied before the NetworkPolicy.
ApplyServiceAccountThenSandbox ==
  /\ pc = "serviceAccount"
  /\ children' = children \cup {"ServiceAccount"}
  /\ Reply("sandbox")
  /\ UNCHANGED <<task, users, sandbox, cache, queued, edits, audited>>

ApplyServiceAccount ==
  /\ pc = "serviceAccount"
  /\ children' = children \cup {"ServiceAccount"}
  /\ Reply("networkPolicy")
  /\ UNCHANGED <<task, users, sandbox, cache, queued, edits, audited>>

ApplyNetworkPolicy ==
  /\ pc = "networkPolicy"
  /\ children' = children \cup {"NetworkPolicy"}
  /\ Reply("sandbox")
  /\ UNCHANGED <<task, users, sandbox, cache, queued, edits, audited>>

\* build_sandbox on the resolved config; agent-sandbox's status survives.
\* A Sandbox that changed is reported back by the owns() watch.
BuildSandbox(sb) ==
  [pin |-> resolved, state |-> obj.spec.state,
   fqdn |-> sb # None /\ sb.fqdn,
   ready |-> IF sb = None THEN None ELSE sb.ready]

\* The response is the live Sandbox: the status derived from it is written
\* only when it differs from the cached one.
Derive(sb) ==
  LET derived == DeriveStatus(obj, sb, resolved) IN
  IF StatusEq(obj.status, derived)
  THEN Finish("resync")
  ELSE /\ Goto("status")
       /\ body' = derived
       /\ UNCHANGED <<obj, resolved>>

ApplySandbox ==
  /\ pc = "sandbox"
  /\ sandbox' = BuildSandbox(sandbox)
  /\ queued' = (queued \/ sandbox' # sandbox)
  /\ Derive(sandbox') \/ Abort
  /\ UNCHANGED <<task, users, children, cache, edits, audited>>

WriteStatus == task' = [task EXCEPT !.status = Apply(@, body)]

ApplyStatus ==
  /\ pc = "status"
  /\ WriteStatus
  /\ Finish("resync") \/ Abort
  /\ UNCHANGED <<users, cluster, cache, queued, edits, audited>>

ApplyFailure ==
  /\ pc = "fail"
  /\ WriteStatus
  /\ Finish(RequeueAfterFailure(body.conditions.Ready.reason)) \/ Abort
  /\ UNCHANGED <<users, cluster, cache, queued, edits, audited>>

Reconcile ==
  \/ Start \/ GetTokenSecret \/ GetWorkspace \/ ApplyPin \/ PublishUnattended
  \/ ApplyServiceAccount \/ ApplyNetworkPolicy \/ ApplySandbox
  \/ ApplyStatus \/ ApplyFailure

-----------------------------------------------------------------------------
(* The controller runtime around reconcile. *)

WatchTask ==
  /\ cache # task
  /\ cache' = task
  /\ queued' = TRUE
  /\ UNCHANGED <<task, users, cluster, timer, reconcile, edits, faults, audited>>

TimerFires ==
  /\ timer # "none"
  /\ timer' = "none"
  /\ queued' = TRUE
  /\ UNCHANGED <<task, users, cluster, cache, reconcile, edits, faults, audited>>

\* The operator dies and comes back: it lists every task and queues them all.
Restart ==
  /\ faults < MaxFaults
  /\ faults' = faults + 1
  /\ Idle
  /\ cache' = task
  /\ queued' = TRUE
  /\ timer' = "none"
  /\ UNCHANGED <<task, users, cluster, edits, audited>>

-----------------------------------------------------------------------------
(* Users, the Workspace controller, agent-sandbox and prospero. *)

operator == <<cache, timer, reconcile, faults, audited>>

Edit == edits < MaxEdits /\ edits' = edits + 1

EditTask ==
  /\ Edit
  /\ \E spec \in TaskSpecs \ {task.spec} : task' = [task EXCEPT !.spec = spec]
  /\ UNCHANGED <<users, cluster, queued, operator>>

\* A Workspace is created Pending; an edit leaves its status as it was.
WriteWorkspace ==
  /\ Edit
  /\ \E spec \in WorkspaceSpecs :
       workspace' = IF workspace = None
                    THEN [spec |-> spec, phase |-> "Pending", message |-> None]
                    ELSE [workspace EXCEPT !.spec = spec]
  /\ workspace' # workspace
  /\ UNCHANGED <<task, secrets, cluster, queued, operator>>

DeleteWorkspace ==
  /\ Edit
  /\ workspace # None
  /\ workspace' = None
  /\ UNCHANGED <<task, secrets, cluster, queued, operator>>

WriteSecret ==
  /\ Edit
  /\ \E name \in SecretNames, content \in SecretContents :
       /\ content # secrets[name]
       /\ secrets' = [secrets EXCEPT ![name] = content]
  /\ UNCHANGED <<task, workspace, cluster, queued, operator>>

\* The Workspace controller in one step (WorkspaceReconcile has its steps).
ExistingKeys ==
  { c \in [secretName : SecretNames, key : UNION (SecretContents \ {None})] :
      /\ secrets[c.secretName] # None
      /\ c.key \in secrets[c.secretName] }

Validated == ValidateWorkspace(workspace.spec, ExistingKeys)

ValidateStep ==
  /\ workspace # None
  /\ workspace' = [workspace EXCEPT !.phase = Validated.phase,
                                    !.message = Validated.message]
  /\ workspace' # workspace
  /\ UNCHANGED <<task, secrets, cluster, queued, operator, edits>>

\* Mutant: no watch on owned Sandboxes, the resync timer is relied upon.
SandboxUnwatched ==
  UNCHANGED <<task, users, children, queued, operator>>

\* The owns() watch maps a change of the Sandbox to its task.
SandboxChanges ==
  /\ queued' = TRUE
  /\ UNCHANGED <<task, users, children, operator>>

ServiceCreated ==
  /\ sandbox # None /\ ~sandbox.fqdn
  /\ sandbox' = [sandbox EXCEPT !.fqdn = TRUE]
  /\ UNCHANGED edits
  /\ SandboxChanges

PodNotReady ==
  /\ sandbox # None /\ sandbox.ready # "False"
  /\ Edit
  /\ sandbox' = [sandbox EXCEPT !.ready = "False"]
  /\ SandboxChanges

PodReady ==
  /\ sandbox # None /\ sandbox.ready # "True"
  /\ sandbox' = [sandbox EXCEPT !.ready = "True"]
  /\ UNCHANGED edits
  /\ SandboxChanges

SandboxDeleted ==
  /\ sandbox # None
  /\ Edit
  /\ sandbox' = None
  /\ SandboxChanges

\* prospero applies its own condition once it has an endpoint to dial.
ProsperoReports ==
  /\ task.status.endpoint
  /\ Edit
  /\ \E reason \in {"AgentsActive", "Succeeded", "Failed"} :
       /\ reason # task.status.conditions.AgentsSettled
       /\ task' = [task EXCEPT !.status = Report(@, reason)]
  /\ UNCHANGED <<users, cluster, queued, operator>>

Environment ==
  \/ EditTask \/ WriteWorkspace \/ DeleteWorkspace \/ WriteSecret
  \/ ValidateStep \/ ServiceCreated \/ PodNotReady \/ PodReady
  \/ SandboxDeleted \/ ProsperoReports

-----------------------------------------------------------------------------
Init ==
  /\ task \in [nameFits : BOOLEAN, spec : TaskSpecs, status : {DefaultStatus}]
  /\ workspace \in {None} \cup
       [spec : WorkspaceSpecs, phase : {"Pending"}, message : {None}]
  /\ secrets = [name \in SecretNames |-> None]
  /\ children = {} /\ sandbox = None
  /\ cache = task /\ queued = TRUE /\ timer = "none"
  /\ pc = "idle" /\ obj = None /\ resolved = None /\ body = None
  /\ edits = 0 /\ faults = 0 /\ audited = FALSE

Next ==
  \/ Reconcile \/ ApiError \/ WatchTask \/ TimerFires \/ Restart
  \/ Environment

\* The runtime polls a started reconcile and its watches, its timers fire; the
\* Workspace controller validates and agent-sandbox brings pods up.
Fairness ==
  /\ WF_vars(Reconcile) /\ WF_vars(WatchTask) /\ WF_vars(TimerFires)
  /\ WF_vars(ValidateStep) /\ WF_vars(ServiceCreated) /\ WF_vars(PodReady)

Spec == Init /\ [][Next]_vars
FairSpec == Spec /\ Fairness

-----------------------------------------------------------------------------
(* Properties. *)

IsConditions(c) ==
  /\ c = [Ready |-> c.Ready, AgentsSettled |-> c.AgentsSettled]
  /\ c.AgentsSettled \in {None, "AgentsActive", "Succeeded", "Failed"}

\* The message of the Ready condition is text of any kind.
IsStatus(s) ==
  /\ s = [phase |-> s.phase, endpoint |-> s.endpoint, sandboxRef |-> s.sandboxRef,
          posture |-> s.posture, pin |-> s.pin, conditions |-> s.conditions]
  /\ s.phase \in {"Pending", "Provisioning", "Running", "Completed", "Failed"}
  /\ s.endpoint \in BOOLEAN /\ s.sandboxRef \in BOOLEAN
  /\ s.posture \in {None, "supervised", "unattended"}
  /\ s.pin \in Pins \cup {None}
  /\ IsConditions(s.conditions)

IsTask(t) ==
  /\ t = [nameFits |-> t.nameFits, spec |-> t.spec, status |-> t.status]
  /\ t.nameFits \in BOOLEAN /\ t.spec \in TaskSpecs
  /\ IsStatus(t.status)

IsWorkspace(w) ==
  /\ w = [spec |-> w.spec, phase |-> w.phase, message |-> w.message]
  /\ w.spec \in WorkspaceSpecs /\ w.phase \in {"Pending", "Ready", "Failed"}

\* The points of a reconcile after the task was found admissible.
Admitted == {"pin", "publish", "serviceAccount", "networkPolicy", "sandbox", "status"}

\* The shape of every variable, by the point a reconcile has reached.
TypeOK ==
  /\ IsTask(task) /\ IsTask(cache)
  /\ workspace # None => IsWorkspace(workspace)
  /\ secrets \in [SecretNames -> SecretContents]
  /\ children \subseteq {"ServiceAccount", "NetworkPolicy"}
  /\ sandbox \in Sandboxes \cup {None}
  /\ queued \in BOOLEAN /\ audited \in BOOLEAN
  /\ timer \in {"none", "soon", "retry", "resync"}
  /\ pc \in Admitted \cup {"idle", "secret", "workspace", "fail"}
  /\ pc # "idle" => IsTask(obj)
  /\ pc \in Admitted => resolved \in Pins
  /\ pc \in {"fail", "status"} => IsStatus(body)
  /\ edits \in 0 .. MaxEdits /\ faults \in 0 .. MaxFaults

\* A config that runs agents with no human in the loop is authorized by it.
PolicyAuthorized(pin) == AsksUnsupervised(pin) => AllowsUnattended(pin)

StatusAuthorized(s) ==
  /\ s.posture = "unattended" => s.pin # None
  /\ s.pin # None =>
       /\ PolicyAuthorized(s.pin)
       /\ s.posture = "unattended" => AllowsUnattended(s.pin)

\* The inductive invariant: what every copy of the status, the config a
\* reconcile carries and the Sandbox have in common.
Authority ==
  /\ StatusAuthorized(task.status) /\ StatusAuthorized(cache.status)
  /\ pc # "idle" => StatusAuthorized(obj.status)
  /\ pc \in Admitted =>
       /\ PolicyAuthorized(resolved)
       /\ Posture(obj) = "unattended" => AllowsUnattended(resolved)
  /\ pc = "fail" =>
       body = FailedStatus(body.conditions.Ready.reason,
                           body.conditions.Ready.message)
  /\ pc = "status" => /\ body.pin = resolved /\ body.posture = Posture(obj)
                      /\ body.sandboxRef
                      /\ body.conditions.AgentsSettled = None
  /\ sandbox # None => PolicyAuthorized(sandbox.pin)

\* No task is recorded as unattended, and no Sandbox carries unsupervised
\* settings, unless the Workspace config it is pinned to allows it: whatever
\* the user edits, however stale the cache, across failures, re-admissions and
\* restarts (controller.rs posture_problem, policy_problem; ADR 0006).
UnattendedAuthorized ==
  /\ task.status.posture = "unattended" =>
       task.status.pin # None /\ AllowsUnattended(task.status.pin)
  /\ sandbox # None => PolicyAuthorized(sandbox.pin)

\* The comparison that suppresses writes ignores the pin, so it must be
\* readable from the fields it does compare; else a failure could be taken for
\* already recorded while the pin is still there (controller.rs status_eq).
PinIsVisible ==
  (task.status.pin # None) <=>
    (task.status.sandboxRef \/ (task.status.phase = "Pending" /\ task.status.posture # None))

\* No pod ever runs without the NetworkPolicy and ServiceAccount of the task:
\* they are applied before the Sandbox (controller.rs:477-482).
IsolatedFirst ==
  sandbox # None => children = {"ServiceAccount", "NetworkPolicy"}

\* A task the operator is not working on and knows in full is looked at again:
\* only one whose name can never work is left alone (controller.rs:360-499).
NeverAbandoned ==
  pc = "idle" /\ ~queued /\ cache = task /\ timer = "none" => ~task.nameFits

\* Once a reconcile that reached the end is the last word (nothing queued, the
\* cache current), the status says what the Sandbox says: no notification of a
\* change made while it ran is lost (controller.rs:485-499, the owns() watch).
QuiescentStatus ==
  pc = "idle" /\ ~queued /\ cache = task /\ timer = "resync" =>
    /\ sandbox # None /\ task.status.sandboxRef
    /\ task.status.endpoint = SandboxReady(sandbox)
    /\ task.status.posture = Posture(task)
    /\ task.status.phase =
         CASE task.status.conditions.AgentsSettled = "Succeeded" -> "Completed"
           [] task.status.conditions.AgentsSettled = "Failed"    -> "Failed"
           [] OTHER -> IF SandboxReady(sandbox) THEN "Running" ELSE "Provisioning"
    /\ (task.status.phase = "Running") <=>
         (task.status.conditions.Ready # None
            /\ task.status.conditions.Ready.status = "True")

\* A step of the operator leaves prospero's condition as it is, although the
\* status it builds starts from a copy that holds an older one (ADR 0005).
ProsperoConditionKept ==
  [][pc' # pc => task'.status.conditions.AgentsSettled
                   = task.status.conditions.AgentsSettled]_vars

\* A pin disappears only from a task that is failed in the same write: the
\* status written at the end of a reconcile always carries it
\* (controller.rs:489-492).
PinLostOnlyByFailing ==
  [][task.status.pin # None /\ task'.status.pin = None =>
       task'.status.phase = "Failed" /\ ~task'.status.sandboxRef]_vars

\* A pin is replaced by another without a failure in between only by a
\* reconcile that does not know of it: one whose copy of the task is from
\* before the pin (controller.rs:393-412, ADR 0004).
PinStable ==
  [][task.status.pin # None /\ task'.status.pin \notin {task.status.pin, None} =>
       obj.status.pin # task.status.pin]_vars

\* A Sandbox is built only from a config that was persisted before: the pin in
\* the status or, in a reconcile whose copy of the task is older, the one that
\* copy records (controller.rs:436-445, :478-482).
SandboxRunsThePin ==
  [][sandbox' # None /\ (sandbox = None \/ sandbox'.pin # sandbox.pin) =>
       sandbox'.pin \in {task.status.pin, obj.status.pin}]_vars

-----------------------------------------------------------------------------
(* What the controller promises about pins. *)

\* The grant in a status; the one the reconcile under way acts on.
GrantOf(status) ==
  IF status.pin = None THEN None
  ELSE [config |-> status.pin, unattended |-> status.posture = "unattended"]

CarriedGrant ==
  IF pc \notin Admitted THEN None
  ELSE [grant |-> [config |-> resolved, unattended |-> Posture(obj) = "unattended"],
        durable |-> pc # "pin"]

KnownPins ==
  ({task.status.pin, cache.status.pin}
     \cup IF pc = "idle" THEN {} ELSE {obj.status.pin}) \ {None}

GrantablePins == { p \in Pins : PolicyAuthorized(p) }
AllowingPins == { p \in Pins : AllowsUnattended(p) }

Grants == [config : Pins, unattended : BOOLEAN]

\* None is neither a grant nor a grant that is acted on.
ASSUME GrantAssumption ==
  None \notin Grants /\ None \notin [grant : Grants, durable : BOOLEAN]

Promise == INSTANCE PinProtocol WITH
  Configs <- GrantablePins, Allowing <- AllowingPins,
  recorded <- GrantOf(task.status), known <- KnownPins, carried <- CarriedGrant,
  running <- IF sandbox = None THEN None ELSE sandbox.pin

\* The controller implements the pin protocol: whatever the order of requests,
\* stale caches, lost replies and restarts, a config is run, and a posture
\* granted, only on the strength of a grant that was made durable first
\* (controller.rs:388-499, ADR 0004, ADR 0006).
KeepsPromise == Promise!Spec

-----------------------------------------------------------------------------
(* What the docs say and the code does not do; each is refuted by a run. *)

\* "Set once; later Workspace edits don't re-pin a running task" (crd.rs:225):
\* a Sandbox whose pod is up keeps the config it was built from.
RunningNotRepinned ==
  [][SandboxReady(sandbox) /\ sandbox' # None => sandbox'.pin = sandbox.pin]_vars

\* "nor pins against a not-yet-validated one" (controller.rs:289-291): a task is
\* admitted to a Workspace only on a spec that can pass validation.
PinsOnlyValidated ==
  [][pc = "workspace" /\ pc' = "pin" =>
       ValidateWorkspace(workspace.spec,
                         CredentialsRefs(workspace.spec)).phase = "Ready"]_vars

\* "so the admission, and the Workspace policy that allowed it, is recorded"
\* (events.rs:54-55): a task running unattended has left an UnattendedAdmitted
\* Event.
UnattendedIsAudited ==
  task.status.phase = "Running" /\ task.status.posture = "unattended" => audited

-----------------------------------------------------------------------------
(* Liveness: users, faults and pod failures have stopped (their bounds). *)

\* The first reason the task cannot be provisioned, read from the API server.
Problem ==
  LET state == task.spec.state
      token == IF state = None \/ state.tokenRef = None THEN None
               ELSE TokenSecretProblem(secrets[state.tokenRef.secretName],
                                       state.tokenRef.key)
      admission == Admit(workspace, task.spec.providerRef, Posture(task))
  IN  IF ~task.nameFits THEN "InvalidName"
      ELSE IF state # None /\ StateProblem(state) # None THEN "InvalidState"
      ELSE IF token # None THEN "InvalidState"
      ELSE IF task.status.pin = None /\ admission.verdict = "Fail"
      THEN admission.reason ELSE None

Settled ==
  IF Problem # None
  THEN /\ task.status.phase = "Failed"
       /\ task.status.pin = None
       /\ task.status.conditions.Ready.reason = Problem
  ELSE /\ task.status.pin # None
       /\ sandbox # None /\ sandbox.pin = task.status.pin
       /\ task.status.endpoint
       /\ task.status.posture = Posture(task)

\* The task's status ends up saying what is wrong with it, or the task runs
\* its pinned config: failures recover by the retry timers, since nothing
\* watches Workspaces and Secrets (controller.rs:386, :454, :463).
Converges == <>[]Settled

\* The operator stops writing the status: a status it wrote never makes a later
\* reconcile write again, also beside another manager's condition
\* (controller.rs:40-43, :165-168, :183-185).
StopsWriting == <>[](pc \notin {"pin", "status", "fail"})
=============================================================================
