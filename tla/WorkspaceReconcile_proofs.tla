---------------------- MODULE WorkspaceReconcile_proofs ----------------------
(* Proofs about WorkspaceReconcile, for every value of its constants.       *)
EXTENDS WorkspaceReconcile, TLAPS

\* Some state of the Secrets yields what the status says of the spec.
Justified(spec, status) ==
  \E present \in SUBSET CredentialsRefs(spec) :
    Records(status, ValidateWorkspace(spec, present))

StatusShape(s) ==
  /\ s = [phase |-> s.phase, message |-> s.message, observed |-> s.observed]
  /\ s.phase \in {"Pending", "Ready", "Failed"}

\* A status is about the generation of its Workspace or an earlier one.
WorkspaceShape(w) ==
  /\ w = [spec |-> w.spec, generation |-> w.generation, status |-> w.status]
  /\ w.spec \in WorkspaceSpecs
  /\ w.generation \in Nat /\ 1 <= w.generation /\ w.generation <= edits + 1
  /\ StatusShape(w.status)
  /\ \/ w.status.observed = None
     \/ w.status.observed \in Nat /\ 1 <= w.status.observed
          /\ w.status.observed <= w.generation

\* An older copy: of an earlier generation, or with the same spec.
CopyOf(w) ==
  /\ WorkspaceShape(w)
  /\ w.generation <= workspace.generation
  /\ w.generation = workspace.generation => w.spec = workspace.spec

RunOK ==
  /\ pc \in {"idle", "fetch", "patch"}
  /\ timer \in {"none", "retry", "resync", "error"}
  /\ faults \in 0 .. MaxFaults
  /\ pc # "idle" => CopyOf(obj)
  /\ pc = "fetch" => DOMAIN fetched \subseteq CredentialSecretNames(obj.spec)
  /\ pc = "patch" =>
       /\ StatusShape(written)
       /\ written.observed = obj.generation
       /\ Justified(obj.spec, written)

SharedOK ==
  /\ WorkspaceShape(workspace)
  /\ secrets \in [SecretNames -> SecretContents]
  /\ CopyOf(cache)
  /\ queued \in BOOLEAN
  /\ edits \in 0 .. MaxEdits
  /\ workspace.status.observed = workspace.generation =>
       Justified(workspace.spec, workspace.status)

IInv == SharedOK /\ RunOK

LEMMA IInvMeaning == IInv => TypeOK /\ VerdictIsOfItsGeneration
<1> SUFFICES ASSUME IInv PROVE TypeOK /\ VerdictIsOfItsGeneration
  OBVIOUS
<1>1. ASSUME NEW w, WorkspaceShape(w) PROVE IsWorkspace(w)
  <2>1. edits \in 0 .. MaxEdits
    BY DEF IInv, SharedOK
  <2> QED BY <1>1, <2>1, WorkspaceBounds DEF WorkspaceBounds, WorkspaceShape,
             StatusShape, IsWorkspace, IsStatus, Generations
<1>2. pc = "patch" => IsStatus(written)
  <2>1. edits \in 0 .. MaxEdits
    BY DEF IInv, SharedOK
  <2> QED BY <2>1, WorkspaceBounds DEF WorkspaceBounds, IInv, RunOK, CopyOf,
             WorkspaceShape, StatusShape, IsStatus, Generations
<1>3. TypeOK
  BY <1>1, <1>2 DEF IInv, SharedOK, RunOK, CopyOf, TypeOK
<1>4. VerdictIsOfItsGeneration
  BY DEF IInv, SharedOK, Justified, VerdictIsOfItsGeneration
<1> QED BY <1>3, <1>4

-----------------------------------------------------------------------------
(* The pure parts. *)

LEMMA VerdictShape ==
  ASSUME NEW spec, NEW present
  PROVE  LET v == ValidateWorkspace(spec, present) IN
         v = [phase |-> v.phase, message |-> v.message]
           /\ v.phase \in {"Ready", "Failed"}
BY DEF ValidateWorkspace, Failed

\* What validation of one copy against the Secrets found is justified.
LEMMA DerivedJustified ==
  ASSUME NEW ws, NEW got
  PROVE  LET verdict == ValidateWorkspace(ws.spec, Present(ws.spec, got))
             next == DeriveWorkspaceStatus(ws, verdict)
         IN  /\ StatusShape(next)
             /\ next.observed = ws.generation
             /\ Justified(ws.spec, next)
<1> DEFINE verdict == ValidateWorkspace(ws.spec, Present(ws.spec, got))
           next == DeriveWorkspaceStatus(ws, verdict)
<1>1. Present(ws.spec, got) \in SUBSET CredentialsRefs(ws.spec)
  BY DEF Present
<1>2. verdict.phase \in {"Ready", "Failed"}
  BY VerdictShape
<1>3. Records(next, verdict)
  BY DEF DeriveWorkspaceStatus, Records
<1>4. StatusShape(next) /\ next.observed = ws.generation
  BY <1>2 DEF DeriveWorkspaceStatus, StatusShape
<1>5. Justified(ws.spec, next)
  BY <1>1, <1>3 DEF Justified
<1> QED BY <1>4, <1>5

\* A merge patch changes nothing that Records looks at.
LEMMA MergeRecords ==
  ASSUME NEW s, NEW next, StatusShape(next)
  PROVE  /\ StatusShape(MergePatch(s, next))
         /\ MergePatch(s, next).observed = next.observed
         /\ \A spec : Justified(spec, next) => Justified(spec, MergePatch(s, next))
<1>1. /\ StatusShape(MergePatch(s, next))
      /\ MergePatch(s, next).observed = next.observed
      /\ MergePatch(s, next).phase = next.phase
      /\ next.message # None => MergePatch(s, next).message = next.message
  BY DEF MergePatch, StatusShape
<1>2. \A v : Records(next, v) => Records(MergePatch(s, next), v)
  BY <1>1 DEF Records
<1> QED BY <1>1, <1>2 DEF Justified

-----------------------------------------------------------------------------
(* The invariant holds initially and every step keeps it. *)

LEMMA InitEstablishes == Init => IInv
<1> SUFFICES ASSUME Init PROVE IInv
  OBVIOUS
<1> USE WorkspaceBounds DEF WorkspaceBounds
<1>1. WorkspaceShape(workspace) /\ workspace.status.observed # workspace.generation
  BY DEF Init, DefaultStatus, WorkspaceShape, StatusShape
<1>2. secrets \in [SecretNames -> SecretContents]
  BY DEF Init, SecretContents
<1> QED BY <1>1, <1>2 DEF Init, IInv, SharedOK, RunOK, CopyOf

LEMMA IdleKeeps ==
  ASSUME Idle, timer' \in {"none", "retry", "resync", "error"},
         faults' \in 0 .. MaxFaults
  PROVE  RunOK'
BY DEF Idle, RunOK

LEMMA AbortKeeps ==
  ASSUME Abort, faults \in 0 .. MaxFaults
  PROVE  RunOK'
<1>1. faults' \in 0 .. MaxFaults
  BY WorkspaceBounds DEF WorkspaceBounds, Abort
<1> QED BY <1>1, IdleKeeps DEF Abort

\* A copy stays a copy as long as generations only grow, and with them the spec
\* only changes.
LEMMA CopyStays ==
  ASSUME NEW w, CopyOf(w), WorkspaceShape(workspace),
         edits \in Nat, edits' \in Nat, edits <= edits',
         workspace'.generation \in Nat,
         \/ /\ workspace'.generation = workspace.generation
            /\ workspace'.spec = workspace.spec
         \/ workspace'.generation = workspace.generation + 1
  PROVE  CopyOf(w)'
<1>1. w.generation \in Nat /\ workspace.generation \in Nat
  BY DEF CopyOf, WorkspaceShape
<1>2. WorkspaceShape(w)'
  BY <1>1 DEF CopyOf, WorkspaceShape
<1>3. w.generation <= workspace'.generation
  BY <1>1 DEF CopyOf
<1>4. w.generation = workspace'.generation => w.spec = workspace'.spec
  BY <1>1 DEF CopyOf
<1> QED BY <1>2, <1>3, <1>4 DEF CopyOf

\* The pure steps of a reconcile on a copy.
LEMMA FetchKeeps ==
  ASSUME NEW ws, CopyOf(ws)', NEW got,
         DOMAIN got \subseteq CredentialSecretNames(ws.spec),
         Fetch(ws, got), faults \in 0 .. MaxFaults
  PROVE  RunOK'
<1> DEFINE verdict == ValidateWorkspace(ws.spec, Present(ws.spec, got))
           next == DeriveWorkspaceStatus(ws, verdict)
<1>1. CASE CredentialSecretNames(ws.spec) # DOMAIN got
  BY <1>1 DEF Fetch, RunOK
<1>2. CASE CredentialSecretNames(ws.spec) = DOMAIN got /\ next = ws.status
  BY <1>2, IdleKeeps DEF Fetch, Conclude, Finish, RequeueAfter
<1>3. CASE CredentialSecretNames(ws.spec) = DOMAIN got /\ next # ws.status
  <2>1. pc' = "patch" /\ written' = next /\ obj' = ws /\ timer' = "none"
          /\ faults' = faults
    BY <1>3 DEF Fetch, Conclude
  <2>2. /\ StatusShape(next) /\ next.observed = ws.generation
        /\ Justified(ws.spec, next)
    BY DerivedJustified
  <2> HIDE DEF next
  <2> QED BY <2>1, <2>2 DEF RunOK
<1> QED BY <1>1, <1>2, <1>3

LEMMA ReconcileKeeps ==
  ASSUME IInv, Reconcile
  PROVE  IInv'
<1> USE DEF IInv
<1>0. edits \in Nat
  BY WorkspaceBounds DEF WorkspaceBounds, SharedOK
<1>1. ASSUME UNCHANGED <<workspace, secrets, cache, edits>>, queued' \in BOOLEAN
      PROVE  SharedOK'
  BY <1>1 DEF SharedOK, CopyOf, WorkspaceShape
<1>2. ASSUME NEW w, CopyOf(w), UNCHANGED <<workspace, edits>>
      PROVE  CopyOf(w)'
  BY <1>2 DEF CopyOf, WorkspaceShape
<1>3. CASE Start
  <2>1. SharedOK'
    BY <1>1, <1>3 DEF Start
  <2>2. CopyOf(cache)
    BY DEF SharedOK
  <2>3. DOMAIN [name \in {} |-> None] \subseteq CredentialSecretNames(cache.spec)
    OBVIOUS
  <2>4. RunOK'
    <3> DEFINE ws == cache
               got == [name \in {} |-> None]
    <3>1. CopyOf(ws)' /\ Fetch(ws, got) /\ faults \in 0 .. MaxFaults
      BY <1>2, <1>3, <2>2 DEF Start, RunOK, CopyOf, WorkspaceShape
    <3> QED BY <1>2, <1>3, <2>2, <2>3, FetchKeeps DEF Start, RunOK
  <2> QED BY <2>1, <2>4
<1>4. CASE GetSecret
  <2>1. SharedOK'
    BY <1>1, <1>4 DEF GetSecret, SharedOK
  <2>2. PICK name \in CredentialSecretNames(obj.spec) \ DOMAIN fetched :
          Fetch(obj, With(fetched, name, secrets[name]))
    BY <1>4 DEF GetSecret
  <2>3. DOMAIN With(fetched, name, secrets[name])
          \subseteq CredentialSecretNames(obj.spec)
    BY <1>4 DEF GetSecret, RunOK, With
  <2>4. CopyOf(obj)
    BY <1>4 DEF GetSecret, RunOK
  <2>5. RunOK'
    BY <1>2, <1>4, <2>2, <2>3, <2>4, FetchKeeps DEF GetSecret, RunOK
  <2> QED BY <2>1, <2>5
<1>5. CASE PatchStatus
  <2> DEFINE merged == MergePatch(workspace.status, written)
  <2>1. /\ CopyOf(obj) /\ StatusShape(written)
        /\ written.observed = obj.generation /\ Justified(obj.spec, written)
    BY <1>5 DEF PatchStatus, RunOK
  <2>2. /\ StatusShape(merged) /\ merged.observed = obj.generation
        /\ Justified(obj.spec, merged)
    BY <2>1, MergeRecords
  <2>3. workspace' = [spec |-> workspace.spec, generation |-> workspace.generation,
                      status |-> merged]
    BY <1>5 DEF PatchStatus, SharedOK, WorkspaceShape
  <2> HIDE DEF merged
  <2>4. UNCHANGED <<secrets, cache, queued, edits>>
    BY <1>5 DEF PatchStatus
  <2>5. WorkspaceShape(workspace)'
    BY <2>1, <2>2, <2>3, <2>4 DEF SharedOK, WorkspaceShape, CopyOf
  <2>6. CopyOf(cache)'
    BY <2>3, <2>4 DEF SharedOK, CopyOf, WorkspaceShape
  <2>7. workspace'.status.observed = workspace'.generation =>
          Justified(workspace'.spec, workspace'.status)
    BY <2>1, <2>2, <2>3 DEF CopyOf
  <2>8. SharedOK'
    BY <2>4, <2>5, <2>6, <2>7 DEF SharedOK, WorkspaceShape, Justified
  <2>9. RunOK'
    BY <1>5, IdleKeeps, AbortKeeps DEF PatchStatus, Finish, RequeueAfter, RunOK
  <2> QED BY <2>8, <2>9
<1> QED BY <1>3, <1>4, <1>5 DEF Reconcile

LEMMA RuntimeKeeps ==
  ASSUME IInv, ApiError \/ WatchWorkspace \/ TimerFires \/ Restart
  PROVE  IInv'
<1> USE DEF IInv
<1>1. CASE ApiError
  <2>1. SharedOK'
    BY <1>1 DEF ApiError, SharedOK, CopyOf, WorkspaceShape
  <2> QED BY <1>1, <2>1, AbortKeeps DEF ApiError, RunOK
<1>2. CASE WatchWorkspace
  <2>1. CopyOf(workspace)
    BY DEF SharedOK, CopyOf, WorkspaceShape
  <2>2. SharedOK'
    BY <1>2, <2>1 DEF WatchWorkspace, SharedOK, CopyOf, WorkspaceShape
  <2>3. RunOK'
    BY <1>2 DEF WatchWorkspace, reconcile, RunOK, CopyOf, WorkspaceShape
  <2> QED BY <2>2, <2>3
<1>3. CASE TimerFires
  <2>1. SharedOK'
    BY <1>3 DEF TimerFires, SharedOK, CopyOf, WorkspaceShape
  <2>2. RunOK'
    BY <1>3 DEF TimerFires, reconcile, RunOK, CopyOf, WorkspaceShape
  <2> QED BY <2>1, <2>2
<1>4. CASE Restart
  <2>1. CopyOf(workspace)
    BY DEF SharedOK, CopyOf, WorkspaceShape
  <2>2. SharedOK'
    BY <1>4, <2>1 DEF Restart, SharedOK, CopyOf, WorkspaceShape
  <2>3. faults' \in 0 .. MaxFaults
    BY <1>4, WorkspaceBounds DEF WorkspaceBounds, Restart, RunOK
  <2> QED BY <1>4, <2>2, <2>3, IdleKeeps DEF Restart
<1> QED BY <1>1, <1>2, <1>3, <1>4

LEMMA UsersKeep ==
  ASSUME IInv, EditSpec \/ WriteSecret
  PROVE  IInv'
<1> USE DEF IInv
<1>1. /\ edits \in Nat /\ edits' = edits + 1 /\ edits' \in 0 .. MaxEdits
      /\ UNCHANGED <<cache, queued, timer, pc, obj, fetched, written, faults>>
  <2>1. edits < MaxEdits /\ edits' = edits + 1
        /\ UNCHANGED <<cache, queued, timer, pc, obj, fetched, written, faults>>
    BY DEF EditSpec, WriteSecret, Edit, reconcile
  <2>2. edits \in Nat
    BY WorkspaceBounds DEF WorkspaceBounds, SharedOK
  <2> QED BY <2>1, <2>2, WorkspaceBounds DEF WorkspaceBounds
<1>2. /\ WorkspaceShape(workspace)'
      /\ secrets' \in [SecretNames -> SecretContents]
      /\ workspace'.status = workspace.status
      /\ \/ /\ workspace'.generation = workspace.generation
            /\ workspace'.spec = workspace.spec
         \/ workspace'.generation = workspace.generation + 1
  <2>1. CASE EditSpec
    <3>1. PICK spec \in WorkspaceSpecs :
            workspace' = [spec |-> spec, generation |-> workspace.generation + 1,
                          status |-> workspace.status]
      BY <2>1 DEF EditSpec, SharedOK, WorkspaceShape
    <3>2. secrets' = secrets
      BY <2>1 DEF EditSpec
    <3>3. WorkspaceShape(workspace)'
      BY <1>1, <3>1 DEF SharedOK, WorkspaceShape
    <3> QED BY <3>1, <3>2, <3>3 DEF SharedOK
  <2>2. CASE WriteSecret
    <3>1. workspace' = workspace /\ WorkspaceShape(workspace)'
      BY <1>1, <2>2 DEF WriteSecret, SharedOK, WorkspaceShape
    <3>2. secrets' \in [SecretNames -> SecretContents]
      BY <2>2 DEF WriteSecret, SharedOK
    <3> QED BY <3>1, <3>2
  <2> QED BY <2>1, <2>2
<1>3. workspace'.generation \in Nat /\ workspace.generation \in Nat
  BY <1>2 DEF SharedOK, WorkspaceShape
<1>4. \A w : CopyOf(w) => CopyOf(w)'
  BY <1>1, <1>2, <1>3, CopyStays DEF SharedOK
<1>5. CopyOf(cache)' /\ (pc' # "idle" => CopyOf(obj)')
  BY <1>1, <1>4 DEF SharedOK, RunOK, CopyOf, WorkspaceShape
<1>6. workspace'.status.observed = workspace'.generation =>
        Justified(workspace'.spec, workspace'.status)
  BY <1>2, <1>3, WorkspaceBounds DEF WorkspaceBounds, SharedOK, WorkspaceShape
<1>7. SharedOK'
  BY <1>1, <1>2, <1>5, <1>6 DEF SharedOK, Justified
<1>8. RunOK'
  BY <1>1, <1>5 DEF RunOK, Justified
<1> QED BY <1>7, <1>8

LEMMA StepKeeps == IInv /\ [Next]_vars => IInv'
<1> SUFFICES ASSUME IInv, [Next]_vars PROVE IInv'
  OBVIOUS
<1>1. CASE UNCHANGED vars
  BY <1>1 DEF vars, reconcile, IInv, SharedOK, RunOK, CopyOf, WorkspaceShape
<1> QED BY <1>1, ReconcileKeeps, RuntimeKeeps, UsersKeep DEF Next

LEMMA Invariance == Spec => []IInv
BY InitEstablishes, StepKeeps, PTL DEF Spec

-----------------------------------------------------------------------------
\* Every variable keeps its shape (workspace_controller.rs:80-124).
THEOREM TypeCorrect == Spec => []TypeOK
<1>1. IInv => TypeOK
  BY IInvMeaning
<1> QED BY <1>1, Invariance, PTL

\* A status that names the current generation says what validation of the
\* current spec yields for some state of its Secrets, however late it was
\* written (workspace_controller.rs:41, :115-121).
THEOREM VerdictTrue == Spec => []VerdictIsOfItsGeneration
<1>1. IInv => VerdictIsOfItsGeneration
  BY IInvMeaning
<1> QED BY <1>1, Invariance, PTL
=============================================================================
