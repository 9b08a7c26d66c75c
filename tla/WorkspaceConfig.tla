-------------------------- MODULE WorkspaceConfig --------------------------
(***************************************************************************)
(* The pure part of a Workspace (src/workspace.rs): validation of a spec,  *)
(* resolution to the single provider a task binds to, and the agent policy *)
(* that decides which tasks may run without a human.                       *)
(*                                                                         *)
(* Abstraction.  A failure message is the name of the check that failed.   *)
(* A path is kept as the segments its text splits into at "/", so that     *)
(* empty, "." and ".." segments are still visible; a CIDR as the three     *)
(* things its parser looks at; a model name as the text left after         *)
(* trimming plus whether there was blank space around it; a policy flag as *)
(* None or the text it renders to.                                         *)
(***************************************************************************)
EXTENDS Integers, Sequences, FiniteSets, Lists

CONSTANT WorkspaceRoot   \* Settings::workspace_root, as its path components

-----------------------------------------------------------------------------
(* Source paths. *)

\* Path::components: repeated separators and "." segments vanish.
Components(path) ==
  Subsequence(path.segs, { i \in DOMAIN path.segs : path.segs[i] \notin {"", "."} })

\* Path::strip_prefix(root) succeeds and leaves at least one component.
StrictlyBelow(root, comps) ==
  /\ Len(root) < Len(comps)
  /\ SubSeq(comps, 1, Len(root)) = root

\* Mutant: ".." is taken for a name.
UnderRootClimbing(path) ==
  path.absolute /\ StrictlyBelow(WorkspaceRoot, Components(path))

UnderRoot(path) ==
  /\ path.absolute
  /\ \A i \in DOMAIN path.segs : path.segs[i] # ".."
  /\ StrictlyBelow(WorkspaceRoot, Components(path))

-----------------------------------------------------------------------------
(* Egress entries. *)

MaxPrefix(ip) == IF ip = "v4" THEN 32 ELSE 128

\* [slash, ip, prefix]: is there a "/", what the text before it parses to, and
\* the number after it.  The prefix is parsed as a u8, so a number outside
\* 0..255 fails to parse and one above the address length is rejected.
CidrProblem(cidr) ==
  IF ~cidr.slash THEN "missing prefix"
  ELSE IF cidr.ip = "other" THEN "not an IP address"
  ELSE IF cidr.prefix \notin 0 .. MaxPrefix(cidr.ip)
  THEN "prefix out of range" ELSE None

PortProblem(rule) ==
  IF \E i \in DOMAIN rule.ports : rule.ports[i] \notin 1 .. 65535
  THEN "port out of range" ELSE None

-----------------------------------------------------------------------------
(* validate_workspace: five passes over the spec, the first problem wins.  *)

SourceProblem(sources, i) ==
  IF ~UnderRoot(sources[i].path) THEN "source outside the root"
  ELSE IF \E j \in 1 .. i - 1 :
            Components(sources[j].path) = Components(sources[i].path)
  THEN "sources share a path" ELSE None

RuleProblem(rule) ==
  IF CidrProblem(rule.cidr) # None THEN CidrProblem(rule.cidr)
  ELSE PortProblem(rule)

EgressProblems(egress) ==
  IF egress = None THEN <<>>
  ELSE [i \in DOMAIN egress |-> RuleProblem(egress[i])]

DuplicateProblem(providers, i) ==
  IF \E j \in 1 .. i - 1 : providers[j].name = providers[i].name
  THEN "duplicate provider" ELSE None

\* Mutant: any defaultProvider will do.
DefaultUnchecked(spec) == None

DefaultProblem(spec) ==
  IF /\ spec.defaultProvider # None
     /\ \A i \in DOMAIN spec.providers :
          spec.providers[i].name # spec.defaultProvider
  THEN "defaultProvider names no provider" ELSE None

CredentialProblem(provider, present) ==
  IF provider.credentialsRef # None /\ provider.credentialsRef \notin present
  THEN "credential not found" ELSE None

CredentialsRefs(spec) ==
  { spec.providers[i].credentialsRef : i \in DOMAIN spec.providers } \ {None}

Failed(problem) == [phase |-> "Failed", message |-> problem]

\* Mutant: the default is looked up before names are known to be unique.
ValidateDefaultFirst(spec, present) ==
  LET source == FirstProblem([i \in DOMAIN spec.sources |-> SourceProblem(spec.sources, i)])
      rule == FirstProblem(EgressProblems(spec.egress))
      duplicate == FirstProblem([i \in DOMAIN spec.providers |->
                                   DuplicateProblem(spec.providers, i)])
      default == DefaultProblem(spec)
      credential == FirstProblem([i \in DOMAIN spec.providers |->
                                    CredentialProblem(spec.providers[i], present)])
  IN  IF source # None THEN Failed(source)
      ELSE IF rule # None THEN Failed(rule)
      ELSE IF default # None THEN Failed(default)
      ELSE IF duplicate # None THEN Failed(duplicate)
      ELSE IF credential # None THEN Failed(credential)
      ELSE [phase |-> "Ready", message |-> None]

\* present is the set of [secretName, key] pairs that exist.
ValidateWorkspace(spec, present) ==
  LET source == FirstProblem([i \in DOMAIN spec.sources |-> SourceProblem(spec.sources, i)])
      rule == FirstProblem(EgressProblems(spec.egress))
      duplicate == FirstProblem([i \in DOMAIN spec.providers |->
                                   DuplicateProblem(spec.providers, i)])
      default == DefaultProblem(spec)
      credential == FirstProblem([i \in DOMAIN spec.providers |->
                                    CredentialProblem(spec.providers[i], present)])
  IN  IF source # None THEN Failed(source)
      ELSE IF rule # None THEN Failed(rule)
      ELSE IF duplicate # None THEN Failed(duplicate)
      ELSE IF default # None THEN Failed(default)
      ELSE IF credential # None THEN Failed(credential)
      ELSE [phase |-> "Ready", message |-> None]

-----------------------------------------------------------------------------
(* resolve_workspace: explicit providerRef, else defaultProvider, else the *)
(* sole provider.                                                          *)

\* providers.iter().find(|p| p.name == name): the first match.
HasProvider(providers, name) == \E i \in DOMAIN providers : providers[i].name = name
FindProvider(providers, name) ==
  LET first == CHOOSE i \in DOMAIN providers :
                 /\ providers[i].name = name
                 /\ \A j \in 1 .. i - 1 : providers[j].name # name
  IN  providers[first]

\* The pinned form.
Pinned(spec, provider) ==
  [sources |-> spec.sources, provider |-> provider, env |-> spec.env,
   runtimeClass |-> spec.runtimeClass, egress |-> spec.egress,
   agentPolicy |-> spec.agentPolicy]

ResolveError(reason) == [ok |-> FALSE, reason |-> reason]
Resolved(spec, provider) == [ok |-> TRUE, pin |-> Pinned(spec, provider)]

ResolveNamed(spec, name, reason) ==
  IF HasProvider(spec.providers, name)
  THEN Resolved(spec, FindProvider(spec.providers, name))
  ELSE ResolveError(reason)

ResolveWorkspace(spec, providerRef) ==
  IF providerRef # None
  THEN ResolveNamed(spec, providerRef, "providerRef names no provider")
  ELSE IF spec.defaultProvider # None
  THEN ResolveNamed(spec, spec.defaultProvider,
                    "defaultProvider names no provider")
  ELSE IF Len(spec.providers) = 1
  THEN Resolved(spec, spec.providers[1])
  ELSE ResolveError("ambiguous provider")

\* spec.model.name over the provider's model; a blank name selects nothing.
Trim(name) == name.text
WithModel(pin, name) ==
  IF name = None THEN pin
  ELSE IF Trim(name) = "" THEN pin
  ELSE [pin EXCEPT !.provider.model = Trim(name)]

-----------------------------------------------------------------------------
(* The agent policy and the one switch that authorizes unsupervised agents. *)

UnsupervisedModes == {"dontAsk", "bypassPermissions"}

UnsupervisedSettings(policy) ==
  { s \in {"permissionMode", "autoAllow", "noPermissions"} :
      \/ s = "permissionMode" /\ policy.permissionMode \in UnsupervisedModes
      \/ s = "autoAllow" /\ policy.autoAllow = "true"
      \/ s = "noPermissions" /\ policy.noPermissions = "true" }

AllowsUnattended(pin) ==
  /\ pin.agentPolicy # None
  /\ pin.agentPolicy.allowUnattended

\* What the pinned config itself asks for, without the task's posture.
AsksUnsupervised(pin) ==
  /\ pin.agentPolicy # None
  /\ UnsupervisedSettings(pin.agentPolicy) # {}

\* controller.rs posture_problem and policy_problem.
PostureProblem(posture, pin) ==
  IF posture = "unattended" /\ ~AllowsUnattended(pin)
  THEN "unattended not allowed" ELSE None
PolicyProblem(pin) ==
  IF AsksUnsupervised(pin) /\ ~AllowsUnattended(pin)
  THEN "agentPolicy not allowed" ELSE None

-----------------------------------------------------------------------------
(* admit: the decision about an unpinned task, on the Workspace as fetched *)
(* (None when there is none).                                              *)

Decline(reason, problem) == [verdict |-> "Fail", reason |-> reason, problem |-> problem]

\* Mutant: only the task's posture is put to the policy.
AdmitResolvedPostureOnly(r, posture) ==
  IF ~r.ok THEN Decline("WorkspaceUnresolved", r.reason)
  ELSE IF PostureProblem(posture, r.pin) # None
  THEN Decline("PostureNotPermitted", PostureProblem(posture, r.pin))
  ELSE [verdict |-> "Pin", pin |-> r.pin]

AdmitResolved(r, posture) ==
  IF ~r.ok THEN Decline("WorkspaceUnresolved", r.reason)
  ELSE IF PostureProblem(posture, r.pin) # None
  THEN Decline("PostureNotPermitted", PostureProblem(posture, r.pin))
  ELSE IF PolicyProblem(r.pin) # None
  THEN Decline("PostureNotPermitted", PolicyProblem(r.pin))
  ELSE [verdict |-> "Pin", pin |-> r.pin]

Admit(workspace, providerRef, posture) ==
  IF workspace = None THEN Decline("WorkspaceUnresolved", "not found")
  ELSE CASE workspace.phase = "Failed" ->
              Decline("WorkspaceUnresolved", workspace.message)
         [] workspace.phase = "Ready" ->
              AdmitResolved(ResolveWorkspace(workspace.spec, providerRef), posture)
         [] OTHER -> [verdict |-> "Requeue"]
=============================================================================
