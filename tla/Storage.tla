------------------------------ MODULE Storage ------------------------------
(***************************************************************************)
(* spec.state and its gonzalod token (src/storage.rs).  A state is         *)
(*   [mode, endpoint, tokenRef]                                            *)
(* with mode None or text, endpoint a BOOLEAN (is a URL given) and         *)
(* tokenRef None or a [secretName, key] pair.  A namespace's Secrets are a *)
(* function from names to None or the set of keys of the Secret.           *)
(***************************************************************************)
EXTENDS Option

\* caliban's name for the storage the state selects, None when it selects none.
Substrate(state) ==
  CASE state.mode = "remote"                   -> "remote"
    [] state.mode = "local"                    -> "fs"
    [] state.mode = None /\ state.endpoint     -> "remote"
    [] OTHER                                   -> None

\* Mutant: remote storage is taken without an endpoint.
StateUnaddressed(state) ==
  IF state.mode \notin {None, "remote", "local"} THEN "unknown mode"
  ELSE IF state.mode = "local" /\ state.endpoint
  THEN "local ignores the endpoint"
  ELSE IF state.tokenRef # None /\ Substrate(state) # "remote"
  THEN "token needs remote storage" ELSE None

StateProblem(state) ==
  IF state.mode \notin {None, "remote", "local"} THEN "unknown mode"
  ELSE IF state.mode = "remote" /\ ~state.endpoint
  THEN "remote needs an endpoint"
  ELSE IF state.mode = "local" /\ state.endpoint
  THEN "local ignores the endpoint"
  ELSE IF state.tokenRef # None /\ Substrate(state) # "remote"
  THEN "token needs remote storage" ELSE None

TokenSecretProblem(secret, key) ==
  IF secret = None THEN "token secret not found"
  ELSE IF key \notin secret THEN "token secret has no key" ELSE None
=============================================================================
