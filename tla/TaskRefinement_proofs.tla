------------------------ MODULE TaskRefinement_proofs ------------------------
(* The CalibanTask controller implements the pin protocol, for every value  *)
(* of the constants.                                                         *)
EXTENDS TaskReconcile_proofs

Running == IF sandbox = None THEN None ELSE sandbox.pin

-----------------------------------------------------------------------------
(* Memories. *)

\* The copies of the task a step leaves behind are older copies, or the task.
LEMMA CopiesChange ==
  ASSUME [Next]_vars
  PROVE  /\ cache' = cache \/ (cache' = task /\ task' = task)
         /\ \/ pc' = "idle"
            \/ pc # "idle" /\ obj' = obj
            \/ obj' = cache
<1> DEFINE Copies(t) == pc' = "idle" \/ obj' = t
<1>1. \A t, r, q : Fail(t, r, q) => Copies(t)
  BY DEF Fail, Finish, Idle
<1>2. \A t : PinOrFetch(t) => Copies(t)
  BY <1>1 DEF PinOrFetch
<1>3. \A t : CheckState(t) => Copies(t)
  BY <1>1, <1>2 DEF CheckState
<1> HIDE DEF Copies
<1>4. CASE Start
  <2>1. Copies(cache)
    BY <1>1, <1>3, <1>4 DEF Start
  <2> QED BY <1>4, <2>1 DEF Start, Copies
<1>5. CASE GetTokenSecret
  <2>1. Copies(obj)
    BY <1>1, <1>2, <1>5 DEF GetTokenSecret
  <2> QED BY <1>5, <2>1 DEF GetTokenSecret, Copies
<1>6. CASE GetWorkspace
  <2>1. Copies(obj)
    BY <1>1, <1>6 DEF GetWorkspace, Finish, Idle, Copies
  <2> QED BY <1>6, <2>1 DEF GetWorkspace, Copies
<1>7. CASE ApplyPin \/ PublishUnattended \/ ApplyServiceAccount
             \/ ApplyNetworkPolicy \/ ApplySandbox \/ ApplyStatus \/ ApplyFailure
  BY <1>7 DEF ApplyPin, PublishUnattended, ApplyServiceAccount,
     ApplyNetworkPolicy, ApplySandbox, ApplyStatus, ApplyFailure, Derive, Reply,
     Finish, Abort, Idle
<1>8. CASE ApiError \/ Restart
  BY <1>8 DEF ApiError, Restart, Abort, Idle
<1>9. CASE WatchTask \/ TimerFires \/ UNCHANGED vars
  BY <1>9 DEF WatchTask, TimerFires, vars, reconcile
<1>10. CASE Environment
  BY <1>10 DEF Environment, EditTask, WriteWorkspace, DeleteWorkspace,
     WriteSecret, ValidateStep, ServiceCreated, PodNotReady, PodReady,
     SandboxDeleted, ProsperoReports, SandboxChanges, operator, reconcile
<1> QED BY <1>4, <1>5, <1>6, <1>7, <1>8, <1>9, <1>10 DEF Next, Reconcile

LEMMA RememberStep ==
  ASSUME IInv', [Next]_vars
  PROVE  Promise!Remember
<1>1. ASSUME NEW p \in KnownPins', p \notin KnownPins
      PROVE  p = task'.status.pin /\ p # None
  <2>1. p # None
    BY <1>1 DEF KnownPins
  <2>2. CASE p = task'.status.pin
    BY <2>1, <2>2
  <2>3. CASE p = cache'.status.pin
    BY <1>1, <2>1, <2>3, CopiesChange DEF KnownPins
  <2>4. CASE pc' # "idle" /\ p = obj'.status.pin
    BY <1>1, <2>1, <2>4, CopiesChange DEF KnownPins
  <2> QED BY <1>1, <2>2, <2>3, <2>4 DEF KnownPins
<1>2. task'.status.pin # None /\ task'.status.pin \in Pins =>
        /\ GrantOf(task.status)' # None
        /\ GrantOf(task.status)'.config = task'.status.pin
  <2> DEFINE u == task'.status.posture = "unattended"
             g == [config |-> task'.status.pin, unattended |-> u]
  <2>1. task'.status.pin # None => GrantOf(task.status)' = g
    BY DEF GrantOf
  <2>2. u \in BOOLEAN /\ g.config = task'.status.pin
    OBVIOUS
  <2> HIDE DEF u
  <2>3. task'.status.pin \in Pins => g \in Grants
    BY <2>2 DEF Grants
  <2> QED BY <2>1, <2>2, <2>3, GrantAssumption DEF GrantAssumption
<1>3. task'.status.pin \in Pins \cup {None}
  BY DEF IInv, SharedOK, IsTask, IsStatus
<1> QED BY <1>1, <1>2, <1>3 DEF Promise!Remember

-----------------------------------------------------------------------------
(* Grants. *)

\* The task's grant depends on its pin and its posture alone.
LEMMA GrantUnchanged ==
  ASSUME task'.status.pin = task.status.pin,
         task'.status.posture = task.status.posture
  PROVE  GrantOf(task.status)' = GrantOf(task.status)
BY DEF GrantOf

\* Writing a status with a pin and a posture records that grant.
LEMMA WriteGrants ==
  ASSUME IsTask(task), NEW written, IsStatus(written), written.pin # None,
         task'.status = Apply(task.status, written)
  PROVE  GrantOf(task.status)' =
           [config |-> written.pin, unattended |-> written.posture = "unattended"]
<1>1. task'.status.pin = written.pin /\ task'.status.posture = written.posture
  BY ApplyShape DEF IsTask
<1> QED BY <1>1 DEF GrantOf

\* What an admitted reconcile carries is a grant its config authorizes.
LEMMA CarriedIsGrant ==
  IInv /\ pc \in Admitted =>
    /\ CarriedGrant # None
    /\ CarriedGrant.grant \in Promise!Grant
    /\ CarriedGrant.durable = (pc # "pin")
    /\ CarriedGrant.grant =
         [config |-> resolved, unattended |-> Posture(obj) = "unattended"]
<1> SUFFICES ASSUME IInv, pc \in Admitted
    PROVE  /\ CarriedGrant # None
           /\ CarriedGrant.grant \in Promise!Grant
           /\ CarriedGrant.durable = (pc # "pin")
           /\ CarriedGrant.grant =
                [config |-> resolved, unattended |-> Posture(obj) = "unattended"]
  OBVIOUS
<1> DEFINE g == [config |-> resolved, unattended |-> Posture(obj) = "unattended"]
<1>1. CarriedGrant = [grant |-> g, durable |-> pc # "pin"]
  BY DEF CarriedGrant
<1>2. /\ resolved \in Pins /\ resolved \in GrantablePins
      /\ Posture(obj) = "unattended" => resolved \in AllowingPins
  BY DEF IInv, RunOK, GrantablePins, AllowingPins
<1>3. g \in Promise!Grant /\ g \in Grants
  BY <1>2 DEF Promise!Grant, Grants
<1> HIDE DEF g
<1>4. CarriedGrant # None
  <2> DEFINE d == pc # "pin"
  <2>1. d \in BOOLEAN /\ CarriedGrant = [grant |-> g, durable |-> d]
    BY <1>1
  <2> HIDE DEF d
  <2>2. CarriedGrant \in [grant : Grants, durable : BOOLEAN]
    BY <1>3, <2>1
  <2> QED BY <2>2, GrantAssumption DEF GrantAssumption
<1>5. CarriedGrant.grant = g /\ CarriedGrant.durable = (pc # "pin")
  BY <1>1
<1> QED BY <1>3, <1>4, <1>5 DEF g

\* An abandoned reconcile carries nothing on.
LEMMA Dropped ==
  ASSUME pc' \notin Admitted
  PROVE  CarriedGrant' = None
BY DEF CarriedGrant

\* A reconcile that goes on with the grant it carries.
LEMMA CarriedOn ==
  ASSUME UNCHANGED <<obj, resolved>>, pc \in Admitted \ {"pin"},
         pc' \in Admitted \ {"pin"}
  PROVE  CarriedGrant' = CarriedGrant
BY DEF CarriedGrant, Posture

-----------------------------------------------------------------------------
(* Every step is one of the protocol, or changes memories only. *)

\* What a step of the protocol may do besides its effect on memories.
Moves ==
  \/ Promise!Fade \/ Promise!Choose \/ Promise!Recall \/ Promise!Persist
  \/ Promise!Build \/ Promise!Drop \/ Promise!Fail \/ Promise!Remove

LEMMA DropMoves ==
  ASSUME pc' \notin Admitted, UNCHANGED <<task, sandbox>>
  PROVE  Moves
BY Dropped DEF Moves, Promise!Drop, GrantOf

LEMMA FadeMoves ==
  ASSUME task'.status.pin = task.status.pin,
         task'.status.posture = task.status.posture,
         CarriedGrant' = CarriedGrant, Running' = Running
  PROVE  Moves
BY GrantUnchanged DEF Moves, Promise!Fade, Running

\* The pinned branch acts on the pin of a copy of the task.
LEMMA RecallMoves ==
  ASSUME IInv, IInv', NEW t, PinOrFetch(t), UNCHANGED <<task, sandbox>>,
         t.status.pin # None => t.status.pin \in KnownPins
  PROVE  Moves
<1>1. CASE pc' \notin Admitted
  BY <1>1, DropMoves
<1>2. CASE pc' \in Admitted
  <2>1. /\ pc' = "serviceAccount" /\ resolved' = t.status.pin
        /\ t.status.pin # None
    BY <1>2, FailMovesOn DEF PinOrFetch, Goto, Admitted
  <2>2. (IInv /\ pc \in Admitted =>
           /\ CarriedGrant # None
           /\ CarriedGrant.grant \in Promise!Grant
           /\ CarriedGrant.durable = (pc # "pin")
           /\ CarriedGrant.grant =
                [config |-> resolved, unattended |-> Posture(obj) = "unattended"])'
    BY CarriedIsGrant, PTL
  <2>3. Promise!Recall
    <3>1. CarriedGrant'.grant.config = resolved'
      BY <1>2, <2>2
    <3>2. CarriedGrant' # None /\ CarriedGrant'.durable
      BY <1>2, <2>1, <2>2
    <3>3. CarriedGrant'.grant \in Promise!Grant
      BY <1>2, <2>2 DEF Promise!Grant, GrantablePins, AllowingPins
    <3> QED BY <2>1, <3>1, <3>2, <3>3 DEF Promise!Recall, GrantOf
  <2> QED BY <2>3 DEF Moves
<1> QED BY <1>1, <1>2

LEMMA ChooseMoves ==
  ASSUME IInv', pc' = "pin", UNCHANGED <<task, sandbox>>
  PROVE  Moves
<1>1. (IInv /\ pc \in Admitted =>
         /\ CarriedGrant # None
         /\ CarriedGrant.grant \in Promise!Grant
         /\ CarriedGrant.durable = (pc # "pin")
         /\ CarriedGrant.grant =
              [config |-> resolved, unattended |-> Posture(obj) = "unattended"])'
  BY CarriedIsGrant, PTL
<1>2. CarriedGrant' # None /\ ~CarriedGrant'.durable
  BY <1>1 DEF Admitted
<1>3. CarriedGrant'.grant \in Promise!Grant
  BY <1>1 DEF Admitted, Promise!Grant, GrantablePins, AllowingPins
<1>4. Promise!Choose
  BY <1>2, <1>3 DEF Promise!Choose, GrantOf
<1> QED BY <1>4 DEF Moves

\* A write of the grant that is carried; the reconcile goes on or ends.
LEMMA PersistMoves ==
  ASSUME IInv, pc \in Admitted, UNCHANGED sandbox,
         NEW written, IsStatus(written), written.pin = resolved,
         written.posture = Posture(obj),
         task'.status = Apply(task.status, written),
         \/ pc' \notin Admitted
         \/ pc' \in Admitted \ {"pin"} /\ UNCHANGED <<obj, resolved>>
  PROVE  Moves
<1>1. CarriedGrant # None /\ GrantOf(task.status)' = CarriedGrant.grant
  <2>1. IsTask(task) /\ resolved # None
    BY DataAssumption DEF DataAssumption, IInv, SharedOK, RunOK
  <2>2. GrantOf(task.status)' =
          [config |-> resolved, unattended |-> Posture(obj) = "unattended"]
    BY <2>1, WriteGrants
  <2> QED BY <2>2, CarriedIsGrant
<1>2. CASE pc' \notin Admitted
  BY <1>1, <1>2, Dropped DEF Moves, Promise!Persist
<1>3. CASE pc' \in Admitted \ {"pin"} /\ UNCHANGED <<obj, resolved>>
  <2>1. CarriedGrant' = [grant |-> CarriedGrant.grant, durable |-> TRUE]
    BY <1>3, CarriedIsGrant DEF CarriedGrant, Posture
  <2> QED BY <1>1, <2>1 DEF Moves, Promise!Persist
<1> QED BY <1>2, <1>3

LEMMA ReconcileMoves ==
  ASSUME IInv, IInv', PinKnown, Reconcile
  PROVE  Moves
<1>1. CASE Start
  <2>1. UNCHANGED <<task, sandbox>>
    BY <1>1 DEF Start, cluster
  <2>2. cache.status.pin # None => cache.status.pin \in KnownPins
    BY DEF KnownPins
  <2>3. CASE pc' \notin Admitted
    BY <2>1, <2>3, DropMoves
  <2>4. CASE PinOrFetch(cache)
    BY <2>1, <2>2, <2>4, RecallMoves
  <2>5. pc' \notin Admitted \/ PinOrFetch(cache)
    BY <1>1, FailMovesOn DEF Start, CheckState, Goto, Admitted
  <2> QED BY <2>3, <2>4, <2>5
<1>2. CASE GetTokenSecret
  <2>1. UNCHANGED <<task, sandbox>>
    BY <1>2 DEF GetTokenSecret, cluster
  <2>2. obj.status.pin # None => obj.status.pin \in KnownPins
    BY <1>2 DEF GetTokenSecret, KnownPins
  <2>3. CASE pc' \notin Admitted
    BY <2>1, <2>3, DropMoves
  <2>4. CASE PinOrFetch(obj)
    BY <2>1, <2>2, <2>4, RecallMoves
  <2>5. pc' \notin Admitted \/ PinOrFetch(obj)
    BY <1>2, FailMovesOn DEF GetTokenSecret, Admitted
  <2> QED BY <2>3, <2>4, <2>5
<1>3. CASE GetWorkspace
  <2>1. UNCHANGED <<task, sandbox>>
    BY <1>3 DEF GetWorkspace, cluster
  <2>2. pc' = "pin" \/ pc' \in {"idle", "fail"}
    BY <1>3, FailMovesOn DEF GetWorkspace, Goto, Finish, Idle
  <2> QED BY <2>1, <2>2, ChooseMoves, DropMoves DEF Admitted
<1>4. CASE ApplyPin
  <2> DEFINE pinned == PinStatus(resolved, Posture(obj))
  <2>1. IsTask(obj) /\ resolved \in Pins
    BY <1>4 DEF ApplyPin, IInv, RunOK, Admitted
  <2>2. IsStatus(pinned) /\ pinned.pin = resolved /\ pinned.posture = Posture(obj)
    BY <2>1, PostureKnown, PinShape
  <2>3. task'.status = Apply(task.status, pinned)
    BY <1>4 DEF ApplyPin, IInv, SharedOK, IsTask
  <2>4. \/ pc' = "idle"
        \/ pc' \in {"publish", "serviceAccount"} /\ UNCHANGED <<obj, resolved>>
    BY <1>4 DEF ApplyPin, Reply, Goto, Abort, Idle
  <2>5. pc \in Admitted /\ UNCHANGED sandbox
    BY <1>4 DEF ApplyPin, Admitted, cluster
  <2> HIDE DEF pinned
  <2> QED BY <2>2, <2>3, <2>4, <2>5, PersistMoves DEF Admitted
<1>5. CASE PublishUnattended \/ ApplyServiceAccount \/ ApplyNetworkPolicy
  <2>1. UNCHANGED <<task, sandbox>>
    BY <1>5 DEF PublishUnattended, ApplyServiceAccount, ApplyNetworkPolicy, cluster
  <2>2. \/ pc' = "idle"
        \/ /\ UNCHANGED <<obj, resolved>>
           /\ pc \in Admitted \ {"pin"} /\ pc' \in Admitted \ {"pin"}
    BY <1>5 DEF PublishUnattended, ApplyServiceAccount, ApplyNetworkPolicy, Reply,
                Goto, Abort, Idle, Admitted
  <2>3. CASE pc' = "idle"
    BY <2>1, <2>3, DropMoves DEF Admitted
  <2>4. CASE CarriedGrant' = CarriedGrant
    BY <2>1, <2>4, FadeMoves DEF Running
  <2> QED BY <2>2, <2>3, <2>4, CarriedOn
<1>6. CASE ApplySandbox
  <2>1. pc \in Admitted \ {"pin"} /\ UNCHANGED task
    BY <1>6 DEF ApplySandbox, Admitted
  <2>2. \/ pc' = "idle"
        \/ UNCHANGED <<obj, resolved>> /\ pc' \in Admitted \ {"pin"}
    BY <1>6 DEF ApplySandbox, Derive, Finish, Goto, Abort, Idle, Admitted
  <2>3. CarriedGrant' \in {CarriedGrant, None}
    BY <2>1, <2>2, CarriedOn, Dropped DEF Admitted
  <2>4. sandbox' # None /\ sandbox'.pin = resolved
    <3>1. sandbox' \in Sandboxes \cup {None} /\ sandbox' = BuildSandbox(sandbox)
      BY <1>6 DEF ApplySandbox, IInv, SharedOK
    <3>2. BuildSandbox(sandbox) \in Sandboxes
      <4>1. IsTask(obj) /\ resolved \in Pins
        BY <1>6 DEF ApplySandbox, IInv, RunOK, Admitted
      <4>2. sandbox # None =>
              sandbox.fqdn \in BOOLEAN /\ sandbox.ready \in {None, "True", "False"}
        BY DEF IInv, SharedOK, Sandboxes
      <4> QED BY <4>1, <4>2 DEF BuildSandbox, Sandboxes, IsTask
    <3> QED BY <3>1, <3>2, DataAssumption DEF DataAssumption, BuildSandbox
  <2>5. /\ CarriedGrant # None /\ CarriedGrant.durable
        /\ CarriedGrant.grant =
             [config |-> resolved, unattended |-> Posture(obj) = "unattended"]
    BY <2>1, CarriedIsGrant
  <2>6. CarriedGrant.grant.config = resolved
    BY <2>5
  <2>7. Promise!Build
    BY <2>1, <2>3, <2>4, <2>5, <2>6 DEF Promise!Build, GrantOf
  <2> QED BY <2>7 DEF Moves
<1>7. CASE ApplyStatus
  <2>1. IsStatus(body) /\ body.pin = resolved /\ body.posture = Posture(obj)
    BY <1>7 DEF ApplyStatus, IInv, RunOK, Admitted
  <2>2. task'.status = Apply(task.status, body)
    BY <1>7 DEF ApplyStatus, WriteStatus, IInv, SharedOK, IsTask
  <2>3. pc \in Admitted /\ pc' \notin Admitted /\ UNCHANGED sandbox
    BY <1>7 DEF ApplyStatus, Finish, Abort, Idle, Admitted, cluster
  <2> QED BY <2>1, <2>2, <2>3, PersistMoves
<1>8. CASE ApplyFailure
  <2>1. IsStatus(body) /\ body.pin = None
    BY <1>8, FailedShape DEF ApplyFailure, IInv, RunOK
  <2>2. task'.status = Apply(task.status, body)
    BY <1>8 DEF ApplyFailure, WriteStatus, IInv, SharedOK, IsTask
  <2>3. GrantOf(task.status)' = None
    BY <2>1, <2>2, ApplyShape DEF IInv, SharedOK, IsTask, GrantOf
  <2>4. pc \notin Admitted /\ pc' \notin Admitted /\ UNCHANGED sandbox
    BY <1>8 DEF ApplyFailure, Finish, Abort, Idle, Admitted, cluster
  <2>5. CarriedGrant = None /\ CarriedGrant' = None
    BY <2>4 DEF CarriedGrant
  <2> QED BY <2>3, <2>4, <2>5 DEF Moves, Promise!Fail
<1> QED BY <1>1, <1>2, <1>3, <1>4, <1>5, <1>6, <1>7, <1>8 DEF Reconcile

LEMMA EnvironmentMoves ==
  ASSUME IInv, Environment
  PROVE  Moves
<1>1. CarriedGrant' = CarriedGrant
  BY DEF Environment, EditTask, WriteWorkspace, DeleteWorkspace, WriteSecret,
     ValidateStep, ServiceCreated, PodNotReady, PodReady, SandboxDeleted,
     ProsperoReports, SandboxChanges, operator, reconcile, CarriedGrant, Posture
<1>2. task'.status.pin = task.status.pin /\ task'.status.posture = task.status.posture
  BY DEF Environment, EditTask, WriteWorkspace, DeleteWorkspace, WriteSecret,
     ValidateStep, ServiceCreated, PodNotReady, PodReady, SandboxDeleted,
     SandboxChanges, ProsperoReports, Report, IInv, SharedOK, IsTask, IsStatus
<1>3. CASE SandboxDeleted
  <2>1. sandbox' = None
    BY <1>3 DEF SandboxDeleted
  <2>2. Promise!Remove
    BY <1>1, <1>2, <2>1, GrantUnchanged DEF Promise!Remove
  <2> QED BY <2>2 DEF Moves
<1>4. CASE ServiceCreated \/ PodNotReady \/ PodReady
  <2>1. sandbox \in Sandboxes /\ sandbox # None
    BY <1>4 DEF ServiceCreated, PodNotReady, PodReady, IInv, SharedOK
  <2>2. sandbox' \in Sandboxes /\ sandbox'.pin = sandbox.pin
    BY <1>4, <2>1 DEF ServiceCreated, PodNotReady, PodReady, Sandboxes
  <2>3. Running' = Running
    BY <2>1, <2>2, DataAssumption DEF DataAssumption, Running
  <2> QED BY <1>1, <1>2, <2>3, FadeMoves
<1>5. CASE UNCHANGED sandbox
  BY <1>1, <1>2, <1>5, FadeMoves DEF Running
<1> QED BY <1>3, <1>4, <1>5 DEF Environment, EditTask, WriteWorkspace,
     DeleteWorkspace, WriteSecret, ValidateStep, ProsperoReports, cluster

LEMMA MovesStep == IInv /\ IInv' /\ PinKnown /\ [Next]_vars => Moves
<1> SUFFICES ASSUME IInv, IInv', PinKnown, [Next]_vars PROVE Moves
  OBVIOUS
<1>1. CASE ApiError \/ Restart
  BY <1>1, DropMoves DEF ApiError, Restart, Abort, Idle, Admitted, cluster
<1>2. CASE WatchTask \/ TimerFires \/ UNCHANGED vars
  <2>1. UNCHANGED <<task, sandbox, reconcile>>
    BY <1>2 DEF WatchTask, TimerFires, vars, cluster
  <2>2. CarriedGrant' = CarriedGrant
    BY <2>1 DEF reconcile, CarriedGrant, Posture
  <2> QED BY <2>1, <2>2, FadeMoves DEF Running
<1> QED BY <1>1, <1>2, ReconcileMoves, EnvironmentMoves DEF Next

-----------------------------------------------------------------------------
\* The controller implements the pin protocol (controller.rs:388-499): a config
\* is run, and a posture granted, only on the strength of a durable grant, and
\* a grant is dropped only by failing the task.
THEOREM Refinement == Spec => KeepsPromise
<1>1. Init => Promise!Init
  BY DEF Init, DefaultStatus, PartialStatus, Promise!Init, GrantOf, KnownPins,
         CarriedGrant, Admitted
<1>2. IInv /\ IInv' /\ PinKnown /\ [Next]_vars => [Promise!Next]_Promise!vars
  BY RememberStep, MovesStep DEF Moves, Promise!Next
<1> QED BY <1>1, <1>2, PinKnownAlways, PTL DEF Spec, KeepsPromise, Promise!Spec
=============================================================================
