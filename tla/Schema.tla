------------------------------- MODULE Schema -------------------------------
(***************************************************************************)
(* The custom resources as their schemas admit them (src/workspace.rs,     *)
(* src/crd.rs), over the sets of names and texts that are given.  Display  *)
(* names, prompts and the fields that no code reads are left out, and a    *)
(* flag is the text it renders to.                                         *)
(***************************************************************************)
EXTENDS Integers, Sequences, Option

OrNone(values) == values \cup {None}
UpTo(n, values) == UNION { [1 .. k -> values] : k \in 0 .. n }
Flag == OrNone({"true", "false"})

SecretKeys(secrets, keys) == [secretName : secrets, key : keys]

PermissionMode ==
  {"default", "acceptEdits", "plan", "auto", "dontAsk", "bypassPermissions"}

\* AgentPolicy::default.
UnsetPolicy ==
  [allowUnattended |-> FALSE, permissionMode |-> None, autoAllow |-> None,
   noPermissions |-> None, noMcp |-> None, noHooks |-> None, noSkills |-> None,
   noSubAgent |-> None, strictKnownMarketplaces |-> None, enabledPlugins |-> None,
   blockedMarketplaces |-> None, parallelToolLimit |-> None]

AnyPolicy ==
  [allowUnattended : BOOLEAN, permissionMode : OrNone(PermissionMode),
   autoAllow : Flag, noPermissions : Flag, noMcp : Flag, noHooks : Flag,
   noSkills : Flag, noSubAgent : Flag, strictKnownMarketplaces : Flag,
   enabledPlugins : OrNone(STRING), blockedMarketplaces : OrNone(STRING),
   parallelToolLimit : OrNone(STRING)]

\* A policy over its permission settings, one switch and one list; the others
\* are of the same two kinds.
AgentPolicy(lists) ==
  { [UnsetPolicy EXCEPT !.allowUnattended = allow, !.permissionMode = mode,
                        !.autoAllow = auto, !.noPermissions = none,
                        !.noMcp = mcp, !.enabledPlugins = plugins] :
      allow \in BOOLEAN, mode \in OrNone(PermissionMode), auto \in Flag,
      none \in Flag, mcp \in Flag, plugins \in OrNone(lists) }

EgressRule(cidrs, ports) == [cidr : cidrs, ports : ports]

Provider(names, kinds, urls, models, refs) ==
  [name : names, kind : kinds, baseUrl : OrNone(urls), model : OrNone(models),
   credentialsRef : OrNone(refs)]

EnvEntry(names, values) == [name : names, value : values, from : {None}]

Source(names, paths) == [name : names, path : paths]

WorkspaceSpec(sources, providers, defaults, envs, classes, egresses, policies) ==
  [sources : sources, providers : providers \ {<<>>}, defaultProvider : OrNone(defaults),
   env : envs, runtimeClass : OrNone(classes), egress : OrNone(egresses),
   agentPolicy : OrNone(policies)]

\* A state stored before the schema had the enum may hold any mode.
StateSpec(tokens) ==
  [mode : OrNone({"remote", "local", "other"}), endpoint : BOOLEAN,
   tokenRef : OrNone(tokens)]

TaskSpec(names, providers, postures, models, routers, states, classes) ==
  [name : names, namespace : {"ns"}, uid : {"uid"}, providerRef : OrNone(providers),
   posture : OrNone(postures), model : OrNone(models), routerConfigRef : OrNone(routers),
   state : OrNone(states), runtimeClass : OrNone(classes)]
=============================================================================
