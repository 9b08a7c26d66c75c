------------------------- MODULE WorkspaceReconcile -------------------------
(***************************************************************************)
(* The Workspace controller (src/workspace_controller.rs) working on one   *)
(* Workspace whose spec and credential Secrets users keep changing.        *)
(*                                                                         *)
(* A reconcile works on the cached Workspace, GETs each referenced Secret  *)
(* once, one request after the other, and merge-patches the status that    *)
(* validation yields.  Secrets are not watched: what happens to one after  *)
(* it was fetched is seen by the reconcile the requeue timer starts.       *)
(*                                                                         *)
(* Abstraction.  The code fetches Secrets in name order, the model in any  *)
(* order.  A Secret is the set of its keys (data and stringData alike).    *)
(* conditions, which the controller copies and never sets, are left out.   *)
(***************************************************************************)
EXTENDS WorkspaceConfig

CONSTANTS
  WorkspaceSpecs,   \* what users may write in spec
  SecretNames,
  Keys,             \* keys a Secret may have
  MaxEdits,         \* bound on the steps of users
  MaxFaults         \* bound on API errors, lost replies and operator crashes

ASSUME WorkspaceBounds == MaxEdits \in Nat /\ MaxFaults \in Nat /\ None \notin Nat

VARIABLES
  workspace,   \* [spec, generation, status] at the API server
  secrets,     \* [SecretNames -> None or a set of keys]
  cache,       \* the watch cache's copy of workspace
  queued, timer,               \* a due reconcile; the requeue asked for
  pc, obj, fetched, written,   \* the reconcile under way
  edits, faults

reconcile == <<pc, obj, fetched, written>>
vars == <<workspace, secrets, cache, queued, timer, reconcile, edits, faults>>

SecretContents == {None} \cup SUBSET Keys

-----------------------------------------------------------------------------
(* The pure parts. *)

CredentialSecretNames(spec) == { c.secretName : c \in CredentialsRefs(spec) }

\* The references that exist in the Secrets found under got.
Present(spec, got) ==
  { c \in CredentialsRefs(spec) :
      got[c.secretName] # None /\ c.key \in got[c.secretName] }

\* The Secrets found so far, and one more.
With(got, name, secret) ==
  [n \in DOMAIN got \cup {name} |-> IF n = name THEN secret ELSE got[n]]

\* WorkspaceStatus::default
DefaultStatus == [phase |-> "Pending", message |-> None, observed |-> None]

\* Mutant: the generation before the one validated.
DeriveWorkspaceStatusBehind(ws, verdict) ==
  [phase |-> verdict.phase, message |-> verdict.message,
   observed |-> ws.generation - 1]

DeriveWorkspaceStatus(ws, verdict) ==
  [phase |-> verdict.phase, message |-> verdict.message,
   observed |-> ws.generation]

\* A JSON merge patch of a status serialized without its empty fields: an
\* absent message is left as it was.
MergePatch(status, next) ==
  IF next.message # None THEN next
  ELSE [next EXCEPT !.message = status.message]

RequeueAfter(phase) == IF phase = "Ready" THEN "resync" ELSE "retry"

-----------------------------------------------------------------------------
(* reconcile.  kube-rs keeps one pending run per object: a run that is due   *)
(* replaces the requeue asked for earlier, so a reconcile starts without one. *)

Idle == pc' = "idle" /\ obj' = None /\ fetched' = <<>> /\ written' = None
Finish(requeue) == Idle /\ timer' = requeue /\ UNCHANGED faults
Abort ==
  /\ faults < MaxFaults
  /\ faults' = faults + 1
  /\ Idle
  /\ timer' = "error"

\* Mutant: only a change of the phase is worth a patch.
ConcludeByPhase(ws, got) ==
  LET verdict == ValidateWorkspace(ws.spec, Present(ws.spec, got))
      next == DeriveWorkspaceStatus(ws, verdict)
  IN  IF next.phase = ws.status.phase
      THEN Finish(RequeueAfter(verdict.phase))
      ELSE /\ pc' = "patch" /\ written' = next
           /\ obj' = ws /\ fetched' = <<>>
           /\ timer' = "none" /\ UNCHANGED faults

\* Every Secret is in: validate, and patch only a status that differs.
Conclude(ws, got) ==
  LET verdict == ValidateWorkspace(ws.spec, Present(ws.spec, got))
      next == DeriveWorkspaceStatus(ws, verdict)
  IN  IF next = ws.status
      THEN Finish(RequeueAfter(verdict.phase))
      ELSE /\ pc' = "patch" /\ written' = next
           /\ obj' = ws /\ fetched' = <<>>
           /\ timer' = "none" /\ UNCHANGED faults

Fetch(ws, got) ==
  IF CredentialSecretNames(ws.spec) = DOMAIN got
  THEN Conclude(ws, got)
  ELSE /\ pc' = "fetch" /\ obj' = ws /\ fetched' = got
       /\ timer' = "none" /\ UNCHANGED <<written, faults>>

Start ==
  /\ pc = "idle"
  /\ queued
  /\ queued' = FALSE
  /\ Fetch(cache, [name \in {} |-> None])
  /\ UNCHANGED <<workspace, secrets, cache, edits>>

GetSecret ==
  /\ pc = "fetch"
  /\ \E name \in CredentialSecretNames(obj.spec) \ DOMAIN fetched :
       Fetch(obj, With(fetched, name, secrets[name]))
  /\ UNCHANGED <<workspace, secrets, cache, queued, edits>>

\* Mutant: the verdict is stamped with the generation it is written at.
PatchStatusAsLatest ==
  /\ pc = "patch"
  /\ workspace' = [workspace EXCEPT !.status =
       MergePatch(@, [written EXCEPT !.observed = workspace.generation])]
  /\ Finish(RequeueAfter(written.phase)) \/ Abort
  /\ UNCHANGED <<secrets, cache, queued, edits>>

PatchStatus ==
  /\ pc = "patch"
  /\ workspace' = [workspace EXCEPT !.status = MergePatch(@, written)]
  /\ Finish(RequeueAfter(written.phase)) \/ Abort
  /\ UNCHANGED <<secrets, cache, queued, edits>>

ApiError ==
  /\ pc \in {"fetch", "patch"}
  /\ Abort
  /\ UNCHANGED <<workspace, secrets, cache, queued, edits>>

Reconcile == Start \/ GetSecret \/ PatchStatus

-----------------------------------------------------------------------------
(* The controller runtime, and users. *)

WatchWorkspace ==
  /\ cache # workspace
  /\ cache' = workspace
  /\ queued' = TRUE
  /\ UNCHANGED <<workspace, secrets, timer, reconcile, edits, faults>>

TimerFires ==
  /\ timer # "none"
  /\ timer' = "none"
  /\ queued' = TRUE
  /\ UNCHANGED <<workspace, secrets, cache, reconcile, edits, faults>>

Restart ==
  /\ faults < MaxFaults
  /\ faults' = faults + 1
  /\ Idle
  /\ cache' = workspace
  /\ queued' = TRUE
  /\ timer' = "none"
  /\ UNCHANGED <<workspace, secrets, edits>>

Edit ==
  /\ edits < MaxEdits
  /\ edits' = edits + 1
  /\ UNCHANGED <<cache, queued, timer, reconcile, faults>>

EditSpec ==
  /\ Edit
  /\ \E spec \in WorkspaceSpecs \ {workspace.spec} :
       workspace' = [workspace EXCEPT !.spec = spec, !.generation = @ + 1]
  /\ UNCHANGED secrets

WriteSecret ==
  /\ Edit
  /\ \E name \in SecretNames, content \in SecretContents :
       /\ content # secrets[name]
       /\ secrets' = [secrets EXCEPT ![name] = content]
  /\ UNCHANGED workspace

-----------------------------------------------------------------------------
Init ==
  /\ workspace \in [spec : WorkspaceSpecs, generation : {1}, status : {DefaultStatus}]
  /\ secrets \in [SecretNames -> {None}]
  /\ cache = workspace /\ queued = TRUE /\ timer = "none"
  /\ pc = "idle" /\ obj = None /\ fetched = <<>> /\ written = None
  /\ edits = 0 /\ faults = 0

Next ==
  \/ Reconcile \/ ApiError \/ WatchWorkspace \/ TimerFires \/ Restart
  \/ EditSpec \/ WriteSecret

\* The runtime polls a started reconcile, its watch and its timers.
Fairness == WF_vars(Reconcile) /\ WF_vars(WatchWorkspace) /\ WF_vars(TimerFires)

Spec == Init /\ [][Next]_vars
FairSpec == Spec /\ Fairness

-----------------------------------------------------------------------------
(* Properties. *)

Generations == 1 .. MaxEdits + 1

IsStatus(s) ==
  /\ s.phase \in {"Pending", "Ready", "Failed"}
  /\ s.observed \in Generations \cup {None}

IsWorkspace(w) ==
  w.spec \in WorkspaceSpecs /\ w.generation \in Generations /\ IsStatus(w.status)

\* The shape of every variable, by the point a reconcile has reached.
TypeOK ==
  /\ IsWorkspace(workspace) /\ IsWorkspace(cache)
  /\ secrets \in [SecretNames -> SecretContents]
  /\ queued \in BOOLEAN
  /\ timer \in {"none", "retry", "resync", "error"}
  /\ pc \in {"idle", "fetch", "patch"}
  /\ pc # "idle" => IsWorkspace(obj)
  /\ pc = "fetch" => DOMAIN fetched \subseteq CredentialSecretNames(obj.spec)
  /\ pc = "patch" => IsStatus(written)
  /\ edits \in 0 .. MaxEdits /\ faults \in 0 .. MaxFaults

\* A status says what a verdict says; the message of a Ready one may be stale.
Records(status, verdict) ==
  /\ status.phase = verdict.phase
  /\ verdict.message # None => status.message = verdict.message

\* A verdict is about the generation it names: a status whose
\* observedGeneration is the Workspace's own is one that some state of the
\* Secrets justifies for the current spec, however late the reconcile wrote it
\* and whatever was edited meanwhile (workspace_controller.rs:41, crds.md:136).
VerdictIsOfItsGeneration ==
  workspace.status.observed = workspace.generation =>
    \E present \in SUBSET CredentialsRefs(workspace.spec) :
      Records(workspace.status, ValidateWorkspace(workspace.spec, present))

\* The Workspace as users last left it, judged against all its Secrets.
Verdict == ValidateWorkspace(workspace.spec, Present(workspace.spec, secrets))

\* Once edits and faults stop, the status is the verdict on the current spec
\* and Secrets, although nothing watches the Secrets: the timer of a Workspace
\* that is not Ready recovers it, that of a Ready one notices a lost Secret
\* (workspace_controller.rs:54-65).
StatusConverges ==
  <>[](/\ workspace.status.phase = Verdict.phase
       /\ workspace.status.observed = workspace.generation
       /\ Verdict.message # None => workspace.status.message = Verdict.message)

\* "Returns Some only when it differs from the observed status (no-op-churn
\* avoidance)" (workspace_controller.rs:31-33): patching comes to an end.
StopsPatching == <>[](pc # "patch")
=============================================================================
