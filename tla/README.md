# Verification of caliban-operator

TLA+ models of the operator in `src/`, checked with TLC on small instances; every
safety property that is checked is also proved with TLAPS for every value of the
constants.

The operator is a Kubernetes controller. A `CalibanTask` asks for one agent
session; the operator *pins* the configuration of the referenced `Workspace`
into the task's status, and applies a ServiceAccount, a NetworkPolicy and a
`Sandbox` (a pod managed by agent-sandbox) that runs `caliband` with that
configuration. A second controller validates Workspaces. `prospero`, a separate
program, dials the endpoint the status publishes and reports back one condition,
`AgentsSettled`, on the same status object.

## 1. Inventory

| component | state | operations | talks to |
|---|---|---|---|
| CalibanTask controller (`controller.rs`) | none of its own: the task's status, a watch cache, a pending request and a requeue timer per object, the locals of a reconcile between two requests | `reconcile`, `admit`, `posture_problem`, `policy_problem`, `derive_status`, `derive_failed_status`, `apply_status`, `fail_task`, `error_policy` | API server (requests), the Workspace's status, Secrets, agent-sandbox's status, prospero's condition |
| Workspace validation, resolution, policy (`workspace.rs`) | none, pure | `validate_workspace`, `resolve_workspace`, `with_model`, `allows_unattended`, `unsupervised_settings` | called by both controllers |
| Workspace controller (`workspace_controller.rs`) | the Workspace's status; cache, timer, Secrets fetched so far | `reconcile`, `derive_workspace_status`, `requeue_after`, merge patch | API server, Secrets |
| gonzalod storage (`storage.rs`) | none, pure | `state_problem`, `token_secret_problem`, `storage_env` | called by the task controller and the builders |
| child builders (`resources.rs`) | none, pure | `build_sandbox`, `build_network_policy`, `caliband_env`, ... | called by the task controller; consumed by kubelet and the network |
| clone script (`resources.rs`) | the persistent workspace volume | one `git clone` per source, in order | kubelet restarts it, git does the work |
| settings and names (`config.rs`) | none after start | `from_env` and its parsers, `validate`, derived names, `task_name_problem` | everything |
| leader election, process entry (`bin/caliban-operator.rs`) | the Lease at the API server; standing by, leading or draining; the watch channel of the lease manager; the SIGTERM handler | `main`, `lease_namespace`, `run_elected`, `await_leadership`, `run_controllers` | API server, the other replicas through the Lease, both controllers |
| Events (`events.rs`) | none | best-effort `publish` | API server |
| schemas (`crd.rs`, `sandbox.rs`, `error.rs`), CRD generator, packaging | none | -- | -- |

### What is hard here

* **A reconcile is a sequence of requests over shared objects.** Users edit the
  task, the Workspace and the Secrets between any two of them; the task object a
  reconcile works on comes from a cache that lags; requests fail, or take effect
  and lose their reply; the operator restarts anywhere.
* **The pin is state that three things rest on**: what the Sandbox runs, who
  authorized it, and whether a failure may take it away.
* **Two managers share one status.** The operator must neither remove
  prospero's condition nor react to its own writes for ever.
* **Nothing watches Workspaces and Secrets from a task**, nor Secrets from a
  Workspace, so recovery depends on timers alone.
* **Pure functions with meaning elsewhere**: the last entry of an environment
  variable wins in kubelet, an absent and an empty rule list are opposites in a
  NetworkPolicy, paths are compared as text but used as directories.
* **The clone script runs again over whatever an earlier run left.**
* **Several replicas, one at work.** Leadership is a lease that expires while
  requests are lost and processes are killed, and a leader that lost it may have
  a write under way that lands under its successor.

`PROJECT.json` lists each hazard at its line with the properties aimed at it.

### What makes each component correct

* *Task controller*: neither a task's posture nor a typed setting makes anything run
  unsupervised without the leave of the config it is pinned to; a pin is stable while
  nothing fails; a Sandbox runs exactly the pin and never without its NetworkPolicy; a
  task is never forgotten; the status converges to the truth and the writing stops;
  prospero's condition survives.
* *Workspace*: a verdict belongs to the generation it names and catches up with
  Secrets nobody watches; accepted sources are distinct directories beneath the
  root; a Ready Workspace resolves without surprises; one switch authorizes the
  task's posture and the typed policy, end to end into the pod's environment.
* *Builders*: typed policy beats raw environment, the daemon token is the
  operator's, the network admits what is declared and nothing else, the window
  of agent ports is the one caliband is told about, storage settings are complete.
* *Clone script*: the agent starts only on complete checkouts, and it does start.
* *Settings*: a typo stops the operator and never changes what it does.
* *Leader election*: two replicas never lead at once unless the switch says off,
  and one does lead.

## 2. Modules

| module | models | how it corresponds to the code |
|---|---|---|
| `Option` | Rust's `None` | a constant no other value equals |
| `Lists` | Rust's `Iterator::filter` and early return | a test is given as the set of the positions that pass it |
| `Schema` | the custom resources (`crd.rs`, `workspace.rs`) | the sets of specs the API server admits, over given names and texts |
| `WorkspaceConfig` | `workspace.rs`, `admit` | one operator per function; a problem is the name of the check, not its text |
| `Storage` | `state_problem`, `token_secret_problem` | one operator per function |
| `Settings` | `config.rs` | `from_env` over a record of variables, `validate`, names as sequences of characters |
| `PodSpec` | `resources.rs`, `storage_env` | one operator per builder; an environment is a sequence, a policy its rules |
| `Events` | `events.rs` | an event is a record; a text is its characters' widths in bytes |
| `Configuration` | the pure functions from end to end | one step computes everything from one input: the verdict on a Workspace, the resolution and admission of a task, the settings, the children, the events. Its properties say what these mean to git, kubelet, the API server and the network, which are external; its assumptions say what the API server admits and what may stand in the environment |
| `TaskReconcile` | `controller.rs` with users, Workspace controller, agent-sandbox and prospero around it | one action per API request of `reconcile`, in the code's order; `obj`, `resolved`, `body` are its locals, `pc` the request it is at; `cache`, `queued`, `timer` are kube-rs |
| `PinProtocol` | what the task controller promises | grants that are chosen, made durable, run and forgotten; no requests, caches or children |
| `Handover` | `TaskReconcile` across a change of leader | `late` is the request of a former leader that has not arrived yet |
| `WorkspaceReconcile` | `workspace_controller.rs` with users | one action per Secret lookup and one for the merge patch |
| `SourceClone` | the clone init container | one action per step of the script, git's effects and kubelet's restarts |
| `LeaderElection` | `bin/caliban-operator.rs`, several replicas | `proc` is where a process is in `main` and `run_elected`, `channel` the value of the watch channel, `lease` the Lease; kube_lease_manager and kubelet are external |
| `MCTaskReconcile`, `MCHandover`, `MCWorkspaceReconcile`, `MCSourceClone`, `MCLeaderElection`, `MCConfiguration` | -- | small instances |
| `TaskReconcile_proofs`, `TaskAttention_proofs`, `TaskRefinement_proofs`, `Handover_proofs`, `WorkspaceReconcile_proofs`, `SourceClone_proofs`, `LeaderElection_proofs`, `Configuration_proofs` | -- | theorems |

`TaskReconcile` extends `WorkspaceConfig` and `Storage` and uses their operators
as the code calls the functions. In it the Workspace controller is one atomic
step (`ValidateStep`) on the current spec and Secrets; its own interleavings are
the subject of `WorkspaceReconcile`. `PodSpec` takes the pinned config that
`TaskReconcile` puts into a Sandbox as its input, and `LeaderElection` the
settings that `Settings` reads. `Configuration` extends `WorkspaceConfig`, `PodSpec`
(and with it `Settings` and `Storage`), `Events` and `Schema`, and calls them in the
order in which a Workspace and a task pass through them.

`TaskReconcile` is shown to implement `PinProtocol`, by the substitution at its
end: what is recorded is the pin and posture of the status, what is carried is
the config of the reconcile under way, durable once the pin was persisted, what
is remembered are the pins in the cache and in the copy a reconcile started
from, what runs is the Sandbox's pin. It says more than the single
invariants: a reconcile may carry on from a pin that it only remembers, but that
pin was durable once.

`Handover` adds to `TaskReconcile` the moment `run_elected` drops the
controllers while one of their writes has been sent (`HandOver`), and that write
landing whenever it likes, or never. `LeaderElection` shows that two
replicas never run at once, so one late write is all that a former leader can
still do; the lease's timing is not repeated in `Handover`.

How a request is modelled. An action reads or writes the API server's object in
one step. A write ends in one of two ways: the reconcile goes on (`Reply`,
`Finish`), or the reply is lost and `error_policy` requeues (`Abort`); a request
that fails without effect is `ApiError`. A server-side apply (`Apply`) replaces
the operator's fields, removes those it omits and leaves another manager's
condition; a merge patch (`MergePatch`) leaves what it omits. `WatchTask`
brings the cache up to date whenever it likes; `Restart` empties the controller
and lists again. kube-rs keeps a single pending run per object, so a run that
becomes due replaces the requeue asked for earlier.

Mutated forms of operators (marked "Mutant") are kept beside the operator they
change. Each stands for a plausible bug, and shows that the property named
for it in `PROJECT.json` would notice.

## 3. Runs

Bounds are constants: `MaxEdits` counts steps of users, prospero and pod
failures, `MaxFaults` counts API errors, lost replies, restarts, kills and
signals. Everything
else is finite by itself: one task, one Workspace, at most two Secrets.

| run | bounds | shows |
|---|---|---|
| `TaskPosture` | 2 task specs (unattended; supervised with storage), 3 Workspace specs, a Secret that is absent or complete, 3 edits, 2 faults, stale cache | `UnattendedAuthorized`, `IsolatedFirst`, `PinIsVisible`, `NeverAbandoned`, `QuiescentStatus`, `ProsperoConditionKept`, `PinLostOnlyByFailing`, `PinStable`, `SandboxRunsThePin`, and the refinement `KeepsPromise` |
| `TaskLive` | 4 task specs (postures, storage, a dangling providerRef), 2 Workspace specs (one that may not ask for what it asks, one that waits for its credential), a Secret that is absent or complete, 2 edits, 1 fault, stale cache, one late write of a former leader at a time | `Converges`, `StopsWriting` and `Authority` across a change of leader |
| `Workspace` | 3 specs, 2 Secrets with 2 keys, 3 edits, 1 fault | `VerdictIsOfItsGeneration`, `StatusConverges` |
| `Configuration` | paths of up to 4 segments over 5, prefixes and ports at every boundary, 2 providers with 2 keys, all policies with and without leave, 2 raw variables over 4 names and 1 over each variable of a power, quantities and claim sizes that are none, blank images, names and roots, domains of up to 4 labels with blank ones anywhere, names of 1 to 70 letters and all of up to 3 characters over 4 kinds, selectors of 2 entries, notes around a limit of 8 bytes | fourteen properties of the pure functions and of the children |
| `Clone` | lists of up to 3 sources, nested and not, 4 faults | `AgentSeesSources`, `Starts` |
| `Election` | 3 replicas, 44 Deployments (names from the chart, blank or missing; the switch set, misspelled or unset; durations of 2 and 3 ticks and the default one; namespaces from a setting, a file or neither), 2 faults | `OneLeader`, `RunningHolds`, `Led` |

Why these bounds are enough for what is asked. Three edits cover the
authorization scenarios the code distinguishes, grant, revoke and change of
posture, around one re-admission; a task with storage first needs its Secret, which
leaves two. One fault is enough to lose any
single request, reply or process at any point, a second one meets the retry.
Three sources give one nested pair and a bystander. A lease of three ticks with a
grace of one has a tick in which nothing is due, one in which it must be renewed
and one in which the holder is too late; three replicas give a holder, one that
takes over and one that loses the race. The inputs of `Configuration` are families
that each vary what some of its properties tell apart, not their product. The
theorems below have no bounds; in particular they cover every combination of the
inputs of `Configuration`, and texts, paths and lists of any length.

Deadlock is checked in `Workspace`, `WorkspaceChurn` and the two runs of the
election, where time always passes. It is not where the
system may really stop: a task whose name can never work waits for a change that
the bound on edits rules out; a workspace that is cloned has nothing left to do;
the run of the pure functions stops after one evaluation.

**Stale caches.** `FreshCache` says whether a reconcile may start before the
cache has the operator's own last write. The code gives no guarantee that it has,
so every passing run leaves it `FALSE`. It is `TRUE` only in runs of section 5, to
show that what they find does not depend on a lagging cache. `PinStable` and
`SandboxRunsThePin` say exactly what the lag costs: a reconcile whose copy of
the task is from before the pin may replace the pin, and does so by an admission.

**Fairness.** Weak fairness of `Reconcile`, `WatchTask`/`WatchWorkspace` and
`TimerFires`: kube-rs polls a reconcile it started, a watch delivers (it
reconnects and lists again when it breaks), tokio timers fire. In
`TaskReconcile` also of `ValidateStep` (the Workspace controller runs in the same
process), `ServiceCreated` and `PodReady` (agent-sandbox brings a pod up; without
it no status could ever become Running). No fairness for faults, users or
prospero. In `Handover` also of `Land \/ Lose`: a request under way arrives or is
lost. In `SourceClone`, of the script: kubelet restarts an init container. In
`LeaderElection`, of every step of a process that is scheduled, of `Start`
(kubelet restarts what exited) and of `Tick`; requests return unless a fault is
spent on them. A replica does within a tick what its lease calls for:
the controllers' futures are dropped by the same `select!` that sees the channel,
so a process that stalls for longer than its lease lasts is not covered.
Liveness is stated for executions whose users and faults have stopped, which
their bounds enforce.

## 4. Theorems

`TaskReconcile_proofs`, for all task specs, Workspace specs, Secrets and bounds,
fresh or stale cache, from `BoundsAssumption` (bounds are naturals) and
`DataAssumption` (`None` is not a text, a pin, a Sandbox or a condition; a Secret
may be absent; a posture is one of the two the schema allows):

* `TypeCorrect`, `AuthorityHolds`, `UnattendedSafety`, `Isolation`,
  `ProsperoKept`, `PinKept`, `PinVisibility`, `PersistedFirst`, `PinStability`.

`UnattendedAuthorized` alone is not inductive: it speaks of the status and the
Sandbox, but a reconcile writes from a copy of the task and a config it picked up
several requests ago. `Authority` says the same of every place such a value can
be: the status, the cache, the copy `obj`, the config `resolved` between
admission and the last write, the status body under way, the Sandbox. The
inductive invariant is `IInv == SharedOK /\ ControllerOK /\ RunOK`, the
types and the authority of the API server's objects, of the controller and of
the reconcile under way. Its preservation has one lemma per building block
(`FailKeeps`, `PinOrFetchKeeps`, `ReplyKeeps`, ...) and one step per
action; `AdmitAuthorizes` is the fact about `admit` it rests on. `Isolation` has
an invariant of its own over `pc`, `children` and `sandbox`. The properties of
single writes follow from `TaskChanges`, which lists the four ways the task
object changes in a step. `PersistedFirst` and `PinStability` rest on `PinKnown`:
past admission, a reconcile carries the pin of its own copy of the task or the
one in the status.

`TaskAttention_proofs`: `Attention` (`NeverAbandoned`) and `Quiescence`
(`QuiescentStatus`). The first rests on `Attended`: every copy of the task agrees
on whether its name is usable, and only a reconcile that found it unusable ends
without a timer. The second rests on `Quiet`: unless another run is due, the
reconcile under way works on what the cache holds, the status it is about to write
is the one its copy and the Sandbox call for, and a reconcile that ended left the
status a mirror of the Sandbox.

`TaskRefinement_proofs`: `Refinement`, that `Spec => KeepsPromise`, from
`GrantAssumption` besides (`None` is not a grant). `RememberStep` is the part of
every step that concerns memories; then each action is mapped to the step of
`PinProtocol` it takes, `ApplyPin` to `Persist`, `ApplySandbox` to `Build`, the
admissions to `Choose` and `Recall`, a failure to `Fail`.

`Handover_proofs`: `HandoverAuthority`, `HandoverUnattended` and
`HandoverIsolation`, the invariants above with a former leader's write landing at
any time. The invariant adds that the write under way is authorized (`LateOK`), and
that a Sandbox is under way only when its ServiceAccount and NetworkPolicy exist
(`LateIsolated`).

`WorkspaceReconcile_proofs`, from `WorkspaceBounds`: `TypeCorrect` and
`VerdictTrue` (`VerdictIsOfItsGeneration`). The property speaks of one object; the
invariant says of the object, the cache and the copy a reconcile works on that each
is of the current generation with the current spec, or of an earlier one, and
that each status is justified by the spec of the generation it names.

`SourceClone_proofs`, for every list of distinct sources and any bound, from
`CloneAssumption`: `TypeCorrect`; `ClonesComplete`, that the agent starts only
on complete checkouts *if git itself is not killed* (`~KillsMidClone`). The
invariant: no source is partial unless it is the one being cloned, and every
source the script has passed is a checkout.

`LeaderElection_proofs`, for every set of replicas, every Deployment and any
bound, from `DeploymentAssumption` (pod names, or else the hostnames of pods, tell
replicas apart) and `FaultAssumption`: `TypeCorrect`; `Holding` (`RunningHolds`,
inductive with the types), that a replica that runs or believes to hold the lease is
the holder at the API server for at least as long as it knows of; `AtMostOneLeader`
(`OneLeader`), which follows since two replicas have two identities.

`Configuration_proofs`, for every set of inputs that the API server admits, with
lists, texts, paths and names of any length, and every environment:

* of the Workspace, `Containment` (`SourcesAreContained`), `DocumentedOrder`
  (`FirstProblemWins`), `Binding` (`ReadyResolves`), `Authorization`
  (`OneSwitchAuthorizes`, with the pod's environment);
* of the pod, `TypedPolicy` (`TypedPolicyWins`), `TokenIsKept`
  (`DaemonTokenIsTheOperators`), `StorageOpens` (`StorageIsComplete`),
  `AcceptedPods` (`PodIsAcceptable`);
* of the network, `DeclaredEgress` (`EgressIsDeclared`), `IngressSelection`
  (`IngressIsAsWritten`), `OpenWindow` (`AgentWindowIsOpen`), `PolicySelection`
  (`PolicySelectsItsPod`);
* of names and notes, `ChildNames` (`NamesFit`), `Notes` (`NoteFits`).

The assumptions. `InputAssumption`: a Workspace and a task are as the schema has
them, a selector and a domain are lists of texts, a character takes one to four
bytes; of the other variables nothing is assumed.
`NoneAssumption`: Rust's `None` is none of the values it stands beside; the texts that
the model itself writes are listed (`Literals`), since the provers do not know
that a literal is a `STRING`. `RootAssumption`, `CharacterAssumption` and
`NetworkAssumption`: the root is a path, the characters the operator writes into
names are letters or separators, connections and pods are of the right shape.
`Kinds` states a fact about texts that the provers cannot see: a provider's variables
end in `_BASE_URL` or `_API_KEY`, and none of the operator's own does.

The invariant is `IInv`: the input is one that may occur, and what was computed, if
anything, is `Results` of it (`Evaluation`, `Outcome`). What then has to be proved is
about functions, and those that walk over a list are recursive. The library's
induction theorem takes the predicate as an operator, which these provers cannot
instantiate; `Induction` states it with the predicate as a set, from the
well-foundedness of `<` (`LeastElement`), and `Recursion` that a function
defined step by step along a list exists. On them rest the facts about the three
recursive functions: `FilteredUnfolds` and `SubsequencePicks` (a filter keeps
the chosen elements, in order), `WalkWithoutClimbing` (a path without ".." leads where
its components say), `OffsetUnfolds` and `PrefixBytes` (the bytes of a note).

* *Workspace*. `PassFinds` says when each pass of `validate_workspace` finds nothing,
  `VerdictIsFirst` that the verdict is what the first pass that finds something
  found. `Containment` needs both directions: components are what
  `Path::components` yields, directories are where the kernel walks.
* *Environment of the pod*. It is the concatenation of parts (`EnvParts`), and
  the question is always which parts can hold a name: `Lacks` and `Sole` say
  that a part has no or exactly one entry of a name, `ConcatKeeps` and `SoleEntry`
  carry it to the whole. `TypedPolicy` is then that the raw part lacks every typed
  name (`RawLacks`), and `TokenIsKept` that the token's entry is the last.
  `TypedEntry` says it of any Workspace that resolves, before admission, and
  `Authorization` rests on it: a variable of a power says what its typed field says
  (`ToldIsAsked`), unless that is unset and a raw entry speaks in its place.
* *Settings*. `ValidateFinds` lists what settings that pass `validate` satisfy; the
  port window and the names follow from it. `AcceptedPods` takes the conditions on
  a pod one by one: `AmountsFit`, `MountsFit` and `NamesFilled` say which settings
  each of them comes down to.

Only model-checked: the properties under fairness (`Converges`, `StopsWriting`,
`StatusConverges`, `Starts`, `Led`), since fairness and `ENABLED` are beyond
this prover.

## 5. Where the code and its documentation disagree

Each is a run that TLC refutes.

| run | documented | what the code does |
|---|---|---|
| `TaskSecretRepin` | a pin is set once, Workspace edits don't re-pin a running task | a token Secret that goes away fails the task, which drops the pin; when it is back the running Sandbox is re-applied with the Workspace of the day |
| `TaskUnvalidated` | a task never pins a not-yet-validated Workspace | `admit` looks at the phase, not at the generation it was computed for |
| `TaskAudit` | every unattended admission is recorded by an Event | a pinned task edited to unattended passes the check of the pinned branch, which publishes nothing |
| `WorkspaceChurn` | a status is written only when it differs | the merge patch cannot remove the message of an earlier failure, so a recovered Workspace differs on every pass |
| `CloneKilled` | a source is skipped when it is a checkout | it is skipped when `.git` exists, which git creates first |
| `ElectionRelease` | a clean shutdown releases the lease | the release is left to a task that nobody awaits; the process may end first, and the lease expires instead |

A seventh has no run of its own, and is the exception that `OneSwitchAuthorizes`
states and its proof covers. `docs/crds.md:102-104` says of `allowUnattended`: "One
switch is the whole answer to 'may agents here run unsupervised?', so the same power
cannot be reached through a back door". Admission reads the posture and the typed
settings alone (`controller.rs:250-286`), and `caliband_env` drops a raw entry only
when the typed field of the same variable is set (`resources.rs:203-213`). So a raw
`env` entry for `CALIBAN_NO_PERMISSIONS`, `CALIBAN_AUTO_ALLOW` or
`CALIBAN_DEFAULT_PERMISSION_MODE` whose typed field is unset reaches the pod without
that leave. `UnattendedAuthorized` and `Authority` speak of posture and typed settings.

The three runs of a task use current caches and no faults. In all of them the
authorization invariant holds: a re-pin is an admission, and goes through
`posture_problem` and `policy_problem` again.

More behaviours a reader of the code should know of, which the models show
without contradicting a particular line of it: a reconcile that starts on a
cached task from before its pin admits it again (`PinStable`); a missing token
Secret turns a Completed task into Failed, since storage is checked first; and
a source listed before the one it lies in makes git refuse the outer one on every
start, although the Workspace is Ready (the second half of `Starts`). Settings that
pass `validate` can still make every pod fail: a quantity that is none, a limit
below its request, a claim of nothing, a workspace root that is blank or at or in a
read-only mount, a blank image, Secret or ConfigMap (the exceptions in
`PodIsAcceptable`, which are all there are among the settings as far as they are
modelled). A blank label before the trailing dots of the cluster domain survives
its trimming: "corp. ." becomes "corp. " (`ClusterDomain`, `AgentWindowIsOpen`). A
short task name that begins with a digit or holds a dot is accepted, and its
Service can never be created (the exception in `NamesFit`). A replica that lost the
lease keeps the SIGTERM handler its controllers installed, and ends only when it
is killed (`Terminate`).

## 6. Not modelled

* When Events other than `UnattendedAdmitted` are published: nothing reads them.
  Their notes are in `Events`.
* The texts of problems and conditions beyond which check they are about, and
  fields that are copied from a setting into the pod and decide nothing. Whether a
  text that is not blank is well formed (an image, a path with a colon) and names
  something that exists is not looked at.
* The workspace root that the Workspace controller validates against is the constant
  `WorkspaceRoot`, the one of the settings it was started with; `Configuration`
  varies the root of the environment beside it for the children only, and no property
  relates the two.
* Fields that the schema declares and no code reads (`idleTimeout`, `onDelete`,
  `checkpointRef`, the Draining phase, `worktrees`, `resources.class`).
* `MissingUid`: an object read from an API server has one.
* kube-rs, kube_lease_manager, git, kubelet, agent-sandbox and prospero beyond what
  the code relies on; they are external definitions of the models.
* A process that stalls for longer than the lease lasts and writes when it wakes:
  `Handover` covers requests already sent, not requests sent afterwards.
* The CRD generator, the crate root and the packaging: no state.
* Other tasks: reconciles of different tasks share no object that either writes;
  `PolicySelectsItsPod` covers the one thing that could join them, their labels.

## 7. Plan

Done, in this order: the task reconcile and its authorization and isolation
proofs; the Workspace's pure functions; the Workspace reconcile; the clone
script and its proof; the builders and settings; leader election and its proof;
`PinProtocol` and the refinement, checked and proved; `Handover`; the proofs of
attention, quiescence and of the Workspace's verdict; the proofs about the pure
functions.

What is left would be, in this order:

1. `Operator`: `TaskReconcile` with the steps of `WorkspaceReconcile` in place of
   `ValidateStep`, over shared Workspaces and Secrets, with the generation of the
   verdict in view.
2. `Ownership`: a task deleted and created again under its name while the garbage
   collector still holds the old Sandbox and volume; the clone script over the
   volume of an earlier pin.
3. Two controllers at work at once, for an install that switched election off with
   several replicas: which properties survive.
