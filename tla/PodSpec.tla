------------------------------ MODULE PodSpec ------------------------------
(***************************************************************************)
(* The pure builders (src/resources.rs, src/storage.rs storage_env) that   *)
(* map a task, its pinned Workspace config and the operator's settings to  *)
(* the children a reconcile applies.                                       *)
(*                                                                         *)
(* Abstraction.  A policy field is None or the text it renders to.  A      *)
(* provider kind is [text, lower, prefix]: its text, that in lower case,   *)
(* and that in upper case with "-" and "." replaced.  A mount is [volume,  *)
(* path], a path its components.  The clone script is in SourceClone.      *)
(***************************************************************************)
EXTENDS Integers, Sequences, Lists, Storage, Settings

Optional(condition, entries) == IF condition THEN entries ELSE <<>>

ChildMeta(t, name) ==
  [name |-> name, namespace |-> t.namespace, labels |-> CommonLabels(t),
   owner |-> OwnerRef(t)]

BuildServiceAccount(t) ==
  [meta |-> ChildMeta(t, SaName(t)), automountToken |-> FALSE]

-----------------------------------------------------------------------------
(* Environment: a sequence of entries, of which kubelet lets the last one   *)
(* of a name win.                                                           *)

Plain(name, value) == [name |-> name, value |-> value, from |-> None]
FromSecret(name, ref) == [name |-> name, value |-> None, from |-> ref]

StorageEnv(state) ==
  IF state = None THEN <<>>
  ELSE Optional(Substrate(state) # None,
                << Plain("CALIBAN_STORAGE_SUBSTRATE", Substrate(state)) >>)
       \o Optional(Substrate(state) = "remote" /\ state.endpoint,
                   << Plain("CALIBAN_STORAGE_REMOTE_URL", "endpoint") >>)
       \o Optional(Substrate(state) = "remote" /\ state.tokenRef # None,
                   << Plain("CALIBAN_STORAGE_REMOTE_TOKEN_ENV", "GONZALO_TOKEN"),
                      FromSecret("GONZALO_TOKEN", state.tokenRef) >>)

\* The pairs of caliban-contract, the Azure exception, else the kind's prefix.
EnvPrefix(kind) ==
  CASE kind.lower = "anthropic"             -> "ANTHROPIC"
    [] kind.lower = "openai"                -> "OPENAI"
    [] kind.lower \in {"google", "gemini"}  -> "GEMINI"
    [] kind.lower \in {"azure", "azure-openai", "azure_openai"} -> "AZURE_OPENAI"
    [] OTHER                                -> kind.prefix

ProviderEnv(provider) ==
  << Plain("CALIBAN_PROVIDER", provider.kind.text) >>
  \o Optional(provider.baseUrl # None,
              << Plain(EnvPrefix(provider.kind) \o "_BASE_URL", provider.baseUrl) >>)
  \o Optional(provider.credentialsRef # None,
              << FromSecret(EnvPrefix(provider.kind) \o "_API_KEY",
                            provider.credentialsRef) >>)

PolicyVariables ==
  << [field |-> "permissionMode", name |-> "CALIBAN_DEFAULT_PERMISSION_MODE"],
     [field |-> "autoAllow",      name |-> "CALIBAN_AUTO_ALLOW"],
     [field |-> "noPermissions",  name |-> "CALIBAN_NO_PERMISSIONS"],
     [field |-> "noMcp",          name |-> "CALIBAN_NO_MCP"],
     [field |-> "noHooks",        name |-> "CALIBAN_NO_HOOKS"],
     [field |-> "noSkills",       name |-> "CALIBAN_NO_SKILLS"],
     [field |-> "noSubAgent",     name |-> "CALIBAN_NO_SUB_AGENT"],
     [field |-> "strictKnownMarketplaces",
      name |-> "CALIBAN_STRICT_KNOWN_MARKETPLACES"],
     [field |-> "enabledPlugins", name |-> "CALIBAN_ENABLED_PLUGINS"],
     [field |-> "blockedMarketplaces", name |-> "CALIBAN_BLOCKED_MARKETPLACES"],
     [field |-> "parallelToolLimit",   name |-> "CALIBAN_PARALLEL_TOOL_LIMIT"] >>

\* Only a field that is set is projected, an empty list included.
AgentPolicyEnv(policy) ==
  IF policy = None THEN <<>>
  ELSE LET value(i) == policy[PolicyVariables[i].field] IN
       Subsequence([i \in DOMAIN PolicyVariables |->
                      Plain(PolicyVariables[i].name, value(i))],
                   { i \in DOMAIN PolicyVariables : value(i) # None })

Names(env) == { env[i].name : i \in DOMAIN env }

\* Mutant: the Workspace's own entries follow the typed ones.
CalibandEnvAppended(t, rw) ==
  StorageEnv(t.state)
  \o Optional(t.routerConfigRef # None,
              << Plain("CALIBAN_ROUTER_CONFIG", "/etc/caliban/router/caliban.toml") >>)
  \o ProviderEnv(rw.provider) \o AgentPolicyEnv(rw.agentPolicy) \o rw.env

CalibandEnv(t, rw) ==
  LET policy == AgentPolicyEnv(rw.agentPolicy) IN
  StorageEnv(t.state)
  \o Optional(t.routerConfigRef # None,
              << Plain("CALIBAN_ROUTER_CONFIG", "/etc/caliban/router/caliban.toml") >>)
  \o ProviderEnv(rw.provider)
  \o policy
  \o Subsequence(rw.env, { i \in DOMAIN rw.env : rw.env[i].name \notin Names(policy) })

SessionToken(s) == [secretName |-> s.sessionTokenSecret, key |-> s.sessionTokenKey]

\* Mutant: the token comes first.
ContainerEnvTokenFirst(t, rw, s) ==
  << FromSecret("CALIBAN_DAEMON_TOKEN", SessionToken(s)) >> \o CalibandEnv(t, rw)

ContainerEnv(t, rw, s) ==
  CalibandEnv(t, rw) \o << FromSecret("CALIBAN_DAEMON_TOKEN", SessionToken(s)) >>

-----------------------------------------------------------------------------
(* The NetworkPolicy.  A rule without peers matches every host, one without *)
(* ports every port.                                                        *)

Port(proto, port) == [proto |-> proto, first |-> port, last |-> port]
Window(proto, first, last) == [proto |-> proto, first |-> first, last |-> last]

\* Mutant: an empty list of rules is taken for none.
EgressRulesUnlessEmpty(rw) ==
  << [to |-> None, ports |-> << Port("UDP", 53), Port("TCP", 53) >>] >>
  \o IF rw.egress = None \/ rw.egress = <<>> THEN << [to |-> None, ports |-> None] >>
     ELSE [i \in DOMAIN rw.egress |->
             [to |-> rw.egress[i].cidr,
              ports |-> [k \in DOMAIN rw.egress[i].ports |->
                           Port("TCP", rw.egress[i].ports[k])]]]

EgressRules(rw) ==
  << [to |-> None, ports |-> << Port("UDP", 53), Port("TCP", 53) >>] >>
  \o IF rw.egress = None THEN << [to |-> None, ports |-> None] >>
     ELSE [i \in DOMAIN rw.egress |->
             LET rule == rw.egress[i] IN
             [to |-> rule.cidr,
              ports |-> IF rule.ports = <<>> THEN None
                        ELSE [k \in DOMAIN rule.ports |-> Port("TCP", rule.ports[k])]]]

\* No namespace selector means the policy's own namespace.
IngressPeer(t, s) ==
  [labels |-> s.ingressPodSelector,
   namespace |-> IF s.ingressNamespace = None THEN t.namespace ELSE s.ingressNamespace]

BuildNetworkPolicy(t, rw, s) ==
  [meta |-> ChildMeta(t, NetpolName(t)), podSelector |-> CommonLabels(t),
   ingress |-> [from |-> IngressPeer(t, s),
                ports |-> << Port("TCP", s.calibandPort),
                             Window("TCP", s.agentPortBase, s.agentPortEnd) >>],
   egress |-> EgressRules(rw)]

-----------------------------------------------------------------------------
(* The Sandbox. *)

TlsMount == <<"etc", "caliband", "tls">>
RouterConfigMount == <<"etc", "caliban", "router">>

RouterConfigRef(t) == t.routerConfigRef
WorkspaceMount(s) == [volume |-> "workspace", path |-> s.workspaceRoot]

Mounts(t, s) ==
  { WorkspaceMount(s), [volume |-> "session-tls", path |-> TlsMount] }
    \cup IF RouterConfigRef(t) = None THEN {}
         ELSE { [volume |-> "router-config", path |-> RouterConfigMount] }

\* Mutant: the router's ConfigMap is mounted and not declared.
VolumesTlsOnly(t, s) == { [name |-> "session-tls", from |-> s.sessionTlsSecret] }

Volumes(t, s) ==
  { [name |-> "session-tls", from |-> s.sessionTlsSecret] }
    \cup IF RouterConfigRef(t) = None THEN {}
         ELSE { [name |-> "router-config", from |-> RouterConfigRef(t)] }

WorkspacePvc(s) ==
  [name |-> "workspace", accessModes |-> {"ReadWriteOnce"}, storage |-> s.workspaceStorage]

Quantities(cpu, memory) ==
  { <<"cpu", cpu>>, <<"memory", memory>> } \ { <<"cpu", None>>, <<"memory", None>> }

SandboxResources(s) ==
  [requests |-> Quantities(s.cpuRequest, s.memoryRequest),
   limits |-> Quantities(s.cpuLimit, s.memoryLimit)]

AgentSecurityContext(s) ==
  [runAsUser |-> s.agentUid, runAsGroup |-> s.agentGid, runAsNonRoot |-> TRUE,
   fsGroup |-> s.agentGid]

ControlPortProbe(s, period, failures) ==
  [port |-> s.calibandPort, period |-> period, failures |-> failures]

CloneInitContainer(rw, s) ==
  IF rw.sources = <<>> THEN {}
  ELSE { [name |-> "clone-workspace", image |-> s.gitImage, clones |-> rw.sources,
          mounts |-> {WorkspaceMount(s)}, resources |-> SandboxResources(s)] }

LaunchArgs(t, s) ==
  [listen |-> s.calibandPort, advertiseHost |-> AdvertiseHost(t, s),
   agentPortBase |-> AgentPortBase(s),
   tls |-> [cert |-> TlsMount \o <<"tls.crt">>, key |-> TlsMount \o <<"tls.key">>,
            ca |-> TlsMount \o <<"ca.crt">>, serverName |-> s.sessionServerName],
   token |-> None, root |-> s.workspaceRoot]

CalibandContainer(t, rw, s) ==
  [name |-> "caliband", image |-> s.calibandImage, port |-> s.calibandPort,
   args |-> LaunchArgs(t, s), env |-> ContainerEnv(t, rw, s), mounts |-> Mounts(t, s),
   resources |-> SandboxResources(s),
   readiness |-> ControlPortProbe(s, 5, 3), startup |-> ControlPortProbe(s, 2, 60)]

\* The task's own choice, else the Workspace's.
RuntimeClass(t, rw) == IF t.runtimeClass # None THEN t.runtimeClass ELSE rw.runtimeClass

BuildSandbox(t, rw, s) ==
  [meta |-> ChildMeta(t, SandboxName(t)), podLabels |-> CommonLabels(t),
   container |-> CalibandContainer(t, rw, s),
   initContainers |-> CloneInitContainer(rw, s),
   runtimeClass |-> RuntimeClass(t, rw),
   serviceAccount |-> SaName(t), automountToken |-> FALSE,
   security |-> AgentSecurityContext(s), volumes |-> Volumes(t, s),
   service |-> TRUE, mode |-> "Running", claims |-> {WorkspacePvc(s)}]

Plan(t, rw, s) ==
  [serviceAccount |-> BuildServiceAccount(t),
   networkPolicy |-> BuildNetworkPolicy(t, rw, s),
   sandbox |-> BuildSandbox(t, rw, s)]
=============================================================================
