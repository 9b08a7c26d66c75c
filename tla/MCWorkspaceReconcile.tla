------------------------ MODULE MCWorkspaceReconcile ------------------------
(* Small instances of WorkspaceReconcile for TLC. *)
EXTENDS WorkspaceReconcile

Ref(secret, key) == [secretName |-> secret, key |-> key]
Provider(name, ref) == [name |-> name, model |-> None, credentialsRef |-> ref]

WsSpec(providers, default) ==
  [sources |-> <<>>, egress |-> None, providers |-> providers,
   defaultProvider |-> default, agentPolicy |-> None]

Keyless == WsSpec(<<Provider("a", None)>>, None)
\* Two Secrets, one of them shared by two providers under two keys.
TwoSecrets ==
  WsSpec(<<Provider("a", Ref("s", "k")), Provider("b", Ref("t", "k")),
           Provider("c", Ref("s", "l"))>>, "a")
Duplicate == WsSpec(<<Provider("a", Ref("s", "k")), Provider("a", None)>>, "a")

MCWorkspaceSpecs == { Keyless, TwoSecrets, Duplicate }
MCRoot == <<"work">>
=============================================================================
