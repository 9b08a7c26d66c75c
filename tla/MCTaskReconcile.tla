-------------------------- MODULE MCTaskReconcile --------------------------
(* Small instances of TaskReconcile for TLC. *)
EXTENDS TaskReconcile

token == [secretName |-> "s", key |-> "k"]

Provider(name, model) == [name |-> name, model |-> model, credentialsRef |-> None]

Policy(allow, mode) ==
  [allowUnattended |-> allow, permissionMode |-> mode,
   autoAllow |-> None, noPermissions |-> None]

WsSpec(providers, default, policy) ==
  [sources |-> <<>>, env |-> <<>>, runtimeClass |-> None, egress |-> None,
   providers |-> providers, defaultProvider |-> default, agentPolicy |-> policy]

Planner == <<Provider("planner", "opus")>>

\* supervised only; allowing; asking for unsupervised agents without leave.
WsSupervised == WsSpec(Planner, None, None)
WsAllowing == WsSpec(Planner, None, Policy(TRUE, "dontAsk"))
WsDenied == WsSpec(Planner, None, Policy(FALSE, "dontAsk"))
\* Fails validation as long as its Secret lacks the key.
WsCredential ==
  WsSpec(<<[Planner[1] EXCEPT !.credentialsRef = token]>>, "planner",
         Policy(TRUE, None))

\* Two providers of one name: never valid, yet it resolves.
WsDuplicate == WsSpec(Planner \o Planner, "planner", None)

TaskSpec(posture, state, providerRef, model) ==
  [posture |-> posture, state |-> state, providerRef |-> providerRef,
   model |-> model]

Remote == [mode |-> None, endpoint |-> TRUE, tokenRef |-> token]
Malformed == [mode |-> "remote", endpoint |-> FALSE, tokenRef |-> None]

Plain == TaskSpec(None, None, None, None)
Unattended == TaskSpec("unattended", None, None, [text |-> "haiku"])

MCTaskSpecs == { Unattended, TaskSpec(None, Remote, None, None) }
MCTaskSpecsPlain == { Plain, Unattended }
MCTaskSpecsLive ==
  { Unattended, TaskSpec(None, Remote, None, None),
    TaskSpec(None, Malformed, None, None), TaskSpec(None, None, "other", None) }
MCTaskRemote == { TaskSpec(None, Remote, None, None) }
MCWorkspaceSpecsOpen == { WsSupervised, WsAllowing }
MCWorkspaceSpecsDuplicate == { WsSupervised, WsDuplicate }
MCWorkspaceSpecs == { WsSupervised, WsAllowing, WsDenied }
MCWorkspaceSpecsLive == { WsDenied, WsCredential }
MCNoSecret == { None }
MCSecret == { None, {}, {"k"} }
MCSecretLive == { None, {"k"} }
MCRoot == <<"work">>
=============================================================================
