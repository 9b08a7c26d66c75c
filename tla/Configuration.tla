--------------------------- MODULE Configuration ---------------------------
(***************************************************************************)
(* The pure part of the operator from end to end: a Workspace is           *)
(* validated, a task is resolved against it and admitted, the operator's   *)
(* environment is read and checked, and the children are built.  The       *)
(* results are compared with what they mean where they are used: to git,   *)
(* to kubelet, to the API server and to the network.                       *)
(*                                                                         *)
(* A behaviour takes one input and evaluates it.                           *)
(***************************************************************************)
EXTENDS WorkspaceConfig, PodSpec, Events, Schema

CONSTANTS
  Families,         \* sets of inputs [spec, present, task, env, message]
  Letter, Digit,    \* the characters of names, by what DNS tells apart
  Connections,      \* what an agent may try to reach: [host, proto, port]
  Pods,             \* who may try to reach an agent: [namespace, labels]
  Neighbours        \* names of other tasks

-----------------------------------------------------------------------------
(* What the API server admits and the operator is started with. *)

Labels == SUBSET (STRING \X STRING)
PortRange == [proto : {"TCP", "UDP"}, first : Int, last : Int]
Cidr == [slash : BOOLEAN, ip : {"v4", "v6", "other"}, prefix : Int,
         hosts : SUBSET { c.host : c \in Connections }]


ASSUME RootAssumption == WorkspaceRoot \in Seq(STRING)

ASSUME CharacterAssumption ==
  /\ {"a", "s", "b", "x", "n", "e", "t", "p", "o", "l"} \subseteq Letter
  /\ {"-", "."} \cap (Letter \cup Digit) = {}

ASSUME NetworkAssumption ==
  /\ \A c \in Connections : c.proto \in {"TCP", "UDP"} /\ c.port \in Int
  /\ \A p \in Pods : p.labels \in Labels

\* What the API server admits as the name of a custom resource: labels that
\* start and end with a letter or a digit, joined by dots.
Character == Letter \cup Digit \cup {"-", "."}
Subdomain(name) ==
  \A i \in DOMAIN name :
    name[i] \in {"-", "."} =>
      /\ i \notin {1, Len(name)}
      /\ name[i] = "." => name[i - 1] \in Letter \cup Digit
      /\ name[i] = "." => name[i + 1] \in Letter \cup Digit
TaskNames == { n \in Seq(Character) : n # <<>> /\ Subdomain(n) }

\* Variables that the operator sets.  A provider's own end in _BASE_URL or
\* _API_KEY, whatever its kind; none of the others does.
StorageVariables ==
  {"CALIBAN_STORAGE_SUBSTRATE", "CALIBAN_STORAGE_REMOTE_URL",
   "CALIBAN_STORAGE_REMOTE_TOKEN_ENV", "GONZALO_TOKEN"}
FixedVariables ==
  StorageVariables
    \cup {"CALIBAN_ROUTER_CONFIG", "CALIBAN_PROVIDER", "CALIBAN_DAEMON_TOKEN"}
    \cup { PolicyVariables[i].name : i \in DOMAIN PolicyVariables }
ProviderVariables(kind) ==
  {EnvPrefix(kind) \o "_BASE_URL", EnvPrefix(kind) \o "_API_KEY"}
Kinds ==
  { k \in [text : STRING, lower : STRING, prefix : STRING] :
      ProviderVariables(k) \cap FixedVariables = {} }

Providers == Provider(STRING, Kinds, STRING, STRING, SecretKeys(STRING, STRING))
Workspaces ==
  WorkspaceSpec(Seq(Source(STRING, [absolute : BOOLEAN, segs : Seq(STRING)])),
                Seq(Providers), STRING, Seq(EnvEntry(STRING, STRING)), STRING,
                Seq(EgressRule(Cidr, Seq(Int))), AnyPolicy)
Tasks ==
  TaskSpec(TaskNames, STRING, {"supervised", "unattended"},
           [text : STRING, blank : BOOLEAN], STRING, StateSpec(STRING), STRING)
\* Selectors and domains are read as lists; of the other variables nothing is
\* assumed.
Readable(env) ==
  /\ env.clusterDomain \in OrNone(Seq(STRING))
  /\ env.ingressPodSelector \in OrNone(Seq([key : STRING, value : OrNone(STRING)]))
  /\ LET entries == Text(env.ingressPodSelector, <<>>) IN
     LabelsAt(entries, Written(entries)) # None
\* A character takes one to four bytes.
Texts == Seq(1 .. 4)

\* The texts the model itself writes: all of them are STRINGs, which the provers
\* do not know of a literal.
Literals ==
  {"source outside the root", "sources share a path", "missing prefix",
   "not an IP address", "prefix out of range", "port out of range",
   "duplicate provider", "defaultProvider names no provider",
   "credential not found", "unattended not allowed", "agentPolicy not allowed",
   "name too long", "unknown mode", "remote needs an endpoint",
   "local ignores the endpoint", "token needs remote storage", "environment",
   "port range", "lease grace", "lease name", "id", "port window",
   "port collision", "unattended", "remote", "local", "fs", "endpoint",
   "GONZALO_TOKEN", "1", "true", "yes", "on", "dontAsk", "bypassPermissions", "", " "}

\* None differs from the values it stands beside.
ASSUME NoneAssumption ==
  None \notin STRING \cup Literals \cup BOOLEAN \cup Cidr \cup Seq(PortRange)
                \cup Providers
                \cup [spec : Workspaces, phase : {"Ready", "Failed"},
                      message : OrNone(Literals)]

ASSUME InputAssumption ==
  \A family \in Families : \A i \in family :
    /\ i.spec \in Workspaces /\ i.task \in Tasks
    /\ Readable(i.env) /\ i.message \in Texts

-----------------------------------------------------------------------------
VARIABLES input, out
vars == <<input, out>>

spec == input.spec
present == input.present
task == input.task
env == input.env
message == input.message

\* What the operator computes from the inputs.
Verdict == ValidateWorkspace(spec, present)
Resolution == ResolveWorkspace(spec, task.providerRef)
Admission ==
  Admit([spec |-> spec, phase |-> Verdict.phase, message |-> Verdict.message],
        task.providerRef, IF task.posture = None THEN "supervised" ELSE task.posture)
Pin == WithModel(Admission.pin, task.model)
Launches ==
  /\ TaskNameProblem(task) = None
  /\ task.state # None => StateProblem(task.state) = None
  /\ Admission.verdict = "Pin"

Results ==
  LET s == FromEnv(env) IN
  [verdict |-> Verdict, resolution |-> Resolution, admission |-> Admission,
   settings |-> s, problem |-> Validate(s),
   launches |-> Launches,
   pin |-> IF Launches THEN Pin ELSE None,
   children |-> IF Launches THEN Plan(task, Pin, s) ELSE None,
   events |-> {PhaseChanged("Provisioning", "Running", message),
               TaskFailed("WorkspaceUnresolved", message),
               UnattendedAdmitted(message), ReconcileError(message)}]

Init == (\E family \in Families : input \in family) /\ out = None
Evaluate == out = None /\ out' = Results /\ UNCHANGED input
Spec == Init /\ [][Evaluate]_vars

-----------------------------------------------------------------------------
(* Workspaces: validation, resolution and admission. *)

Done == out # None

\* Where the kernel is after each of the segments: "." and empty ones stay,
\* ".." climbs.
Stages(segs) ==
  LET at[i \in 0 .. Len(segs)] ==
        IF i = 0 THEN <<>>
        ELSE CASE segs[i] \in {"", "."} -> at[i - 1]
               [] segs[i] = ".." ->
                    IF at[i - 1] = <<>> THEN <<>>
                    ELSE SubSeq(at[i - 1], 1, Len(at[i - 1]) - 1)
               [] OTHER -> Append(at[i - 1], segs[i])
  IN  at
Walk(segs) == Stages(segs)[Len(segs)]

Directory(source) == Walk(source.path.segs)

Beneath(dir) ==
  \E n \in 1 .. Len(dir) : dir = WorkspaceRoot \o SubSeq(dir, n, Len(dir))

\* Every source leads to a directory of its own, strictly beneath the root.
Apart ==
  \A i, j \in DOMAIN spec.sources :
    i # j => Directory(spec.sources[i]) # Directory(spec.sources[j])
Contained == \A i \in DOMAIN spec.sources : Beneath(Directory(spec.sources[i]))

\* The sources of an accepted Workspace are distinct directories strictly
\* beneath the root, wherever ".", ".." and doubled separators would lead; and
\* a path that neither climbs nor is relative is refused only when it is not
\* beneath the root or leads where an earlier one does (workspace.rs:343-368).
SourcesAreContained ==
  LET plain == \A i \in DOMAIN spec.sources :
                 LET path == spec.sources[i].path IN
                 path.absolute /\ \A k \in DOMAIN path.segs : path.segs[k] # ".."
  IN  Done =>
        /\ out.verdict.phase = "Ready" => Apart /\ Contained
        /\ out.verdict.message \in {"source outside the root", "sources share a path"} =>
             ~(plain /\ Apart /\ Contained)

\* The rank of the pass that a message belongs to.
Rank(reason) ==
  CASE reason \in {"source outside the root", "sources share a path"} -> 1
    [] reason \in {"missing prefix", "not an IP address",
                   "prefix out of range", "port out of range"} -> 2
    [] reason = "duplicate provider" -> 3
    [] reason = "defaultProvider names no provider" -> 4
    [] reason = "credential not found" -> 5

\* The first problem in the documented order wins: nothing that an earlier pass
\* looks for is wrong, and repairing the rules, the default and the credentials
\* that later ones look for does not change the verdict (crds.md:139-141).
FirstProblemWins ==
  LET repaired(r) ==
        [spec EXCEPT !.egress = IF r < 2 THEN None ELSE @,
                     !.defaultProvider = IF r < 4 THEN None ELSE @]
      existing(r) == IF r < 5 THEN CredentialsRefs(spec) ELSE present
  IN  Done /\ out.verdict.phase = "Failed" =>
        LET r == Rank(out.verdict.message) IN
        /\ ValidateWorkspace(repaired(r), existing(r)) = out.verdict
        /\ r > 1 => Apart /\ Contained
        /\ r > 2 /\ spec.egress # None =>
             \A i \in DOMAIN spec.egress : RuleProblem(spec.egress[i]) = None
        /\ r > 3 => \A i, j \in DOMAIN spec.providers :
                      i # j => spec.providers[i].name # spec.providers[j].name
        /\ r > 4 /\ spec.defaultProvider # None =>
             \E i \in DOMAIN spec.providers : spec.providers[i].name = spec.defaultProvider

\* A Workspace found Ready binds every task without surprises: the provider is
\* the only one of its name, its credential exists, and the choice fails only
\* for a dangling providerRef or when nothing tells several providers apart
\* (workspace.rs:384-403 against :500-539).
ReadyResolves ==
  Done /\ out.verdict.phase = "Ready" =>
    LET r == out.resolution
        names == { spec.providers[i].name : i \in DOMAIN spec.providers }
        bound == IF task.providerRef # None THEN task.providerRef ELSE spec.defaultProvider
    IN  /\ r.ok <=> IF task.providerRef # None THEN task.providerRef \in names
                    ELSE \/ spec.defaultProvider # None
                         \/ Len(spec.providers) = 1
        /\ r.ok =>
             /\ bound # None => r.pin.provider.name = bound
             /\ Cardinality({ i \in DOMAIN spec.providers :
                                spec.providers[i].name = r.pin.provider.name }) = 1
             /\ r.pin.provider.credentialsRef \in present \cup {None}

\* The variables by which caliban is told to answer its agents' prompts itself,
\* with the typed field of each and the values that say so.
Affirmative == {"1", "true", "yes", "on"}
Powers ==
  { [field |-> "permissionMode", name |-> "CALIBAN_DEFAULT_PERMISSION_MODE",
     on |-> {"dontAsk", "bypassPermissions"}],
    [field |-> "autoAllow", name |-> "CALIBAN_AUTO_ALLOW", on |-> Affirmative],
    [field |-> "noPermissions", name |-> "CALIBAN_NO_PERMISSIONS", on |-> Affirmative] }

\* A task on a Ready Workspace is turned away exactly when, without the leave of
\* allowUnattended, it asks to run unattended or the pod it would get is told so
\* by one of these variables (controller.rs:250-286, resources.rs:183-216, ADR
\* 0006).  The exception is a raw entry of the Workspace's env for a variable
\* whose typed field is unset: nothing reads it, it reaches the pod as it is and
\* needs no leave, though crds.md:102-104 says that the power cannot be reached
\* through a back door.
OneSwitchAuthorizes ==
  Done /\ out.verdict.phase = "Ready" /\ out.resolution.ok =>
    LET p == spec.agentPolicy
        leave == p # None /\ p.allowUnattended
        pod == ContainerEnv(task, out.resolution.pin, out.settings)
        told(v) == \E i \in DOMAIN pod : pod[i].name = v.name /\ pod[i].value \in v.on
        raw(v) == v.name \in Names(spec.env) /\ (p = None \/ p[v.field] = None)
    IN  out.admission.verdict = "Pin" <=>
          \/ leave
          \/ task.posture # "unattended" /\ \A v \in Powers : told(v) => raw(v)

-----------------------------------------------------------------------------
(* Children, where they are used. *)

\* The children of a task that launches under settings that startup accepts.
Applied == IF ~Done THEN FALSE ELSE out.launches /\ out.problem = None
Sandbox == out.children.sandbox
NetworkPolicy == out.children.networkPolicy
Env == Sandbox.container.env

\* The entries of a name; kubelet takes the last.
EntriesOf(name) == { i \in DOMAIN Env : Env[i].name = name }
Effective(name) ==
  Env[CHOOSE i \in EntriesOf(name) : \A j \in EntriesOf(name) : j <= i]

InRange(ports, proto, port) ==
  \/ ports = None
  \/ \E i \in DOMAIN ports : ports[i].proto = proto /\ port \in ports[i].first .. ports[i].last

\* The connections that some egress rule of the policy matches.
Reachable ==
  { c \in Connections :
      \E i \in DOMAIN NetworkPolicy.egress :
        LET rule == NetworkPolicy.egress[i] IN
        /\ rule.to # None => c.host \in rule.to.hosts
        /\ InRange(rule.ports, c.proto, c.port) }

\* The pods that the ingress rule admits.
Admitted ==
  LET from == NetworkPolicy.ingress.from IN
  { p \in Pods : p.namespace = from.namespace /\ from.labels \subseteq p.labels }

\* A typed policy field that is set is what the agent runs under: whatever the
\* Workspace's raw env holds and however a runtime resolves a duplicate name,
\* its variable has one entry, with the typed value (resources.rs:203-212).
TypedPolicyWins ==
  Applied /\ spec.agentPolicy # None =>
    \A i \in DOMAIN PolicyVariables :
      LET v == PolicyVariables[i] IN
      spec.agentPolicy[v.field] # None =>
        /\ Cardinality(EntriesOf(v.name)) = 1
        /\ Effective(v.name).value = spec.agentPolicy[v.field]

\* The token that guards caliband's control port is the operator's, even where
\* the Workspace's env sets that variable (resources.rs:543-557).
DaemonTokenIsTheOperators ==
  Applied => Effective("CALIBAN_DAEMON_TOKEN").from =
               [secretName |-> out.settings.sessionTokenSecret,
                key |-> out.settings.sessionTokenKey]

\* An agent reaches name resolution and exactly what the Workspace declares:
\* everything without an allow-list, nothing with an empty one, every port of a
\* rule that names none (resources.rs:94-119, workspace.rs:212-233).
EgressIsDeclared ==
  Applied =>
    \A c \in Connections :
      c \in Reachable <=>
        \/ c.port = 53
        \/ spec.egress = None
        \/ \E i \in DOMAIN spec.egress :
             /\ c.host \in spec.egress[i].cidr.hosts
             /\ \/ spec.egress[i].ports = <<>>
                \/ c.proto = "TCP" /\ \E k \in DOMAIN spec.egress[i].ports :
                                        spec.egress[i].ports[k] = c.port

\* The entries of the selector's text that are more than blanks.
WrittenEntries ==
  LET es == env.ingressPodSelector IN
  IF es = None THEN {}
  ELSE { i \in DOMAIN es : es[i].key \notin {"", " "} \/ es[i].value # None }
Wellformed(entry) == entry.key \notin {"", " "} /\ entry.value \notin {None, "", " "}
\* What a flag may be set to.
Flags == {"1", "true", "yes", "on", "0", "false", "no", "off"}

\* Who may reach caliband is what the text of the settings says, one namespace
\* and in it the pods with every label written, the last value of a key: a
\* typo stops the operator at startup and never widens or drops the rule
\* (config.rs:331-348, resources.rs:71-92).
IngressIsAsWritten ==
  LET es == env.ingressPodSelector
      wanted == IF env.ingressNamespace \in {None, "", " "} THEN task.namespace
                ELSE env.ingressNamespace
      last == { i \in WrittenEntries :
                  \A j \in WrittenEntries : es[j].key = es[i].key => j <= i }
  IN  Done =>
        /\ out.problem = "environment" <=>
             \/ \E i \in WrittenEntries : ~Wellformed(es[i])
             \/ env.leaderElection \notin OrNone(Flags)
        /\ Applied =>
             \A p \in Pods :
               p \in Admitted <=>
                 /\ p.namespace = wanted
                 /\ \A i \in last : <<es[i].key, es[i].value>> \in p.labels

\* caliband listens and is probed on a port the policy admits and no agent can
\* be handed, hands agents out from the port at which the window of the policy
\* begins, and advertises its Service under a domain that ends in no dot: a blank
\* before the trailing dots stays in it, " corp. ." gives "corp. "
\* (config.rs:243-298, :381-388, :403-412, resources.rs:170-176, :501-541).
AgentWindowIsOpen ==
  Applied =>
    LET ports == NetworkPolicy.ingress.ports
        c == Sandbox.container
        host == c.args.advertiseHost
    IN  /\ {c.port, c.readiness.port, c.startup.port} = {c.args.listen}
        /\ InRange(ports, "TCP", c.args.listen)
        /\ c.args.agentPortBase = ports[2].first
        /\ ports[2].first \in 1 .. ports[2].last /\ ports[2].last <= PortMax
        /\ InPortRange(c.args.listen)
        /\ c.args.listen \notin ports[2].first .. ports[2].last
        /\ SubSeq(host, 1, 3) = <<Sandbox.meta.name, task.namespace, "svc">>
        /\ Len(host) > 3 /\ host[Len(host)] # ""

\* A task whose state is accepted gets storage that caliban can open, if the
\* Workspace's own env leaves its variables alone: a remote substrate with its
\* URL, and the token, wherever one is named, under the variable that caliban is
\* told to read (storage.rs:39-93).
StorageIsComplete ==
  /\ Applied /\ task.state # None
  /\ Names(spec.env) \cap StorageVariables = {}
  =>
    LET remote == /\ EntriesOf("CALIBAN_STORAGE_SUBSTRATE") # {}
                  /\ Effective("CALIBAN_STORAGE_SUBSTRATE").value = "remote"
    IN  /\ remote <=> EntriesOf("CALIBAN_STORAGE_REMOTE_URL") # {}
        /\ task.state.endpoint => remote
        /\ task.state.tokenRef # None =>
             /\ remote
             /\ Effective(Effective("CALIBAN_STORAGE_REMOTE_TOKEN_ENV").value).from
                  = task.state.tokenRef

\* What the API server takes for the name of a Service.
ServiceLabel(name) ==
  /\ Len(name) \in 1 .. 63
  /\ name[1] \in Letter /\ name[Len(name)] \in Letter \cup Digit
  /\ \A i \in DOMAIN name : name[i] \in Letter \cup Digit \cup {"-"}

\* A task name is refused exactly when the Service of its Sandbox would be too
\* long, and one that is accepted gives children whose names and labels the API
\* server takes, but for a name that begins with a digit or holds a dot: its
\* Service can never be created (config.rs:312-329, :391-425).
NamesFit ==
  LET n == task.name
      fits == TaskNameProblem(task) = None
      dns == n[1] \in Letter /\ \A i \in DOMAIN n : n[i] # "."
  IN  /\ fits /\ dns <=> ServiceLabel(SandboxName(task))
      /\ fits => /\ Len(n) <= 63
                 /\ \A name \in {SaName(task), NetpolName(task)} :
                      Subdomain(name) /\ Len(name) <= 253

\* What the API server admits and kubelet starts, as far as the settings and the
\* name of the router's ConfigMap decide it: no root, an image for every
\* container, every mount at a path and backed by a volume or a claim, none hidden
\* by another or inside a volume that is mounted read-only, amounts that are
\* amounts, limits not below requests, a claim for more than nothing.  Whether a
\* text that is not blank is well formed and names what exists is not looked at.
Acceptable ==
  LET containers == {Sandbox.container} \cup Sandbox.initContainers
      mounts == UNION { c.mounts : c \in containers }
      readOnly == { v.name : v \in Sandbox.volumes }
      token == Effective("CALIBAN_DAEMON_TOKEN").from
      amounts == Sandbox.container.resources
  IN  /\ Sandbox.security.runAsUser = "user" /\ Sandbox.security.fsGroup = "user"
      /\ \A c \in containers : c.image \notin Blank
      /\ \A v \in Sandbox.volumes : v.from \notin Blank
      /\ token.secretName \notin Blank /\ token.key \notin Blank
      /\ \A m \in mounts :
           m.path # <<>> /\ m.volume \in readOnly \cup { v.name : v \in Sandbox.claims }
      /\ \A m, n \in mounts :
           /\ m.path = n.path => m = n
           /\ m.volume \in readOnly => ~StrictlyBelow(m.path, n.path)
      /\ \A v \in Sandbox.claims : v.storage > 0
      /\ \A r \in amounts.requests \cup amounts.limits : r[2] >= 0
      /\ \A r \in amounts.requests : \A l \in amounts.limits : r[1] = l[1] => r[2] <= l[2]

\* Settings that startup accepts give a pod that can be admitted and started but
\* for what it does not look at: a quantity that is none, a limit below its
\* request, a claim of nothing, a workspace root that is blank or at or in the
\* mount of the certificate or of the router's configuration, and a blank image,
\* Secret or ConfigMap.  Each of these fails every task, one apply or one pod
\* after the other (config.rs:167-298, resources.rs:163-168, :394-651).
PodIsAcceptable ==
  Applied =>
    LET s == out.settings
        fits(limit, request) ==
          /\ \A q \in {limit, request} \ {None} : q >= 0
          /\ limit # None /\ request # None => request <= limit
        free(mount) == s.workspaceRoot # mount /\ ~StrictlyBelow(mount, s.workspaceRoot)
        named == {s.calibandImage, s.sessionTlsSecret, s.sessionTokenSecret,
                  s.sessionTokenKey, task.routerConfigRef}
                   \cup { s.gitImage : i \in DOMAIN spec.sources }
    IN  Acceptable <=>
          /\ fits(s.cpuLimit, s.cpuRequest) /\ fits(s.memoryLimit, s.memoryRequest)
          /\ s.workspaceStorage > 0
          /\ s.workspaceRoot # <<>> /\ free(TlsMount)
          /\ task.routerConfigRef # None => free(RouterConfigMount)
          /\ named \cap Blank = {}

\* The policy isolates the pod of its own task and no neighbour's, the pod runs
\* as the account made for it, and all three children go with their task
\* (config.rs:414-435, resources.rs:34-62, ADR 0003).
PolicySelectsItsPod ==
  Applied =>
    LET children == {out.children.serviceAccount, NetworkPolicy, Sandbox}
        neighbour(n) == BuildSandbox([task EXCEPT !.name = n], out.pin, out.settings)
    IN  /\ NetworkPolicy.podSelector \subseteq Sandbox.podLabels
        /\ \A n \in Neighbours :
             NetworkPolicy.podSelector \subseteq neighbour(n).podLabels => n = task.name
        /\ Sandbox.serviceAccount = out.children.serviceAccount.meta.name
        /\ \A c \in children : /\ c.meta.owner.uid = task.uid
                               /\ c.meta.namespace = task.namespace

\* A note is cut to the longest run of whole characters that fits, so a message
\* of several-byte characters neither loses its Event nor splits one
\* (events.rs:10-31).
NoteFits ==
  Done =>
    \A event \in out.events :
      LET note == event.note IN
      /\ Bytes(note) <= NoteMax
      /\ note = SubSeq(message, 1, Len(note))
      /\ note # message => Bytes(SubSeq(message, 1, Len(note) + 1)) > NoteMax
=============================================================================
