------------------------------ MODULE Settings ------------------------------
(***************************************************************************)
(* The operator's settings (src/config.rs): how they are read from the     *)
(* environment, what startup rejects, and what is derived from them and    *)
(* from a task's name.                                                     *)
(*                                                                         *)
(* Abstraction.  An environment is a record of variables, None when unset. *)
(*   - A number is <<n>>, or <<>> for text that does not parse as one; an  *)
(*     id is "root" (or negative), "user" or "beyond" u32 in place of n.   *)
(*   - A quantity is <<q>>, or <<>> for blank text; the size of the claim  *)
(*     has no blank of its own and is q.  A negative q is text that is no  *)
(*     quantity.                                                           *)
(*   - Blank text is "" or " "; other text is taken as already trimmed     *)
(*     and, for a flag, in lower case.                                     *)
(*   - A selector is the sequence its text splits into at ",": entries     *)
(*     [key, value], value None without a "=", "" for blank.               *)
(*   - A domain is the sequence its text splits into at ".", the root its  *)
(*     path components, none of them for blank text.                       *)
(* Settings hold the same values as the fields of Settings; envErrors is   *)
(* the set of variables reported.                                          *)
(***************************************************************************)
EXTENDS Integers, Sequences, Lists

DefaultAgentPortBase == 7100
DefaultClusterDomain == <<"cluster", "local">>
ServiceNameMax == 63
PortMax == 65535
U16Max == 65535
InPortRange(port) == port \in 1 .. PortMax

DefaultSettings ==
  [calibandImage |-> "caliban:latest", calibandPort |-> 8443,
   agentPortBase |-> DefaultAgentPortBase, agentPortEnd |-> 7999,
   workspaceRoot |-> <<"work">>, workspaceStorage |-> 10,
   gitImage |-> "git:latest", agentUid |-> "user", agentGid |-> "user",
   sessionTlsSecret |-> "tls", sessionTokenSecret |-> "session",
   sessionTokenKey |-> "token", sessionServerName |-> "caliband",
   cpuRequest |-> 250, memoryRequest |-> 512, cpuLimit |-> None, memoryLimit |-> None,
   clusterDomain |-> DefaultClusterDomain,
   ingressPodSelector |-> {}, ingressNamespace |-> None,
   leaderElection |-> TRUE, leaseName |-> "caliban-operator", leaseNamespace |-> None,
   leaseDuration |-> 15, leaseGrace |-> 5, envErrors |-> {}]

-----------------------------------------------------------------------------
(* Reading the environment. *)

Unset == [variable \in DOMAIN DefaultSettings \ {"envErrors"} |-> None]

Blank == {"", " "}

\* var(..).unwrap_or(default)
Text(v, default) == IF v = None THEN default ELSE v
\* var(..).trim, blank is None
Trimmed(v) == IF v \in Blank THEN None ELSE v
\* var(..).parse, an unparseable value is the default's
Number(v, default) == IF v \in {None, <<>>} THEN default ELSE v[1]
\* the same for u64
Unsigned(v, default) == LET n == Number(v, default) IN IF n < 0 THEN default ELSE n

OptionalQuantity(v, default) ==
  IF v = None THEN default ELSE IF v = <<>> THEN None ELSE v[1]

\* The text is trimmed once, at its two ends, and then loses its trailing dots:
\* a blank label before a dot stays, as the last one if only dots follow it.
ClusterDomain(v) ==
  LET trimmed == [i \in DOMAIN v |->
                    IF v[i] = " " /\ i \in {1, Len(v)} THEN "" ELSE v[i]]
      kept == { i \in DOMAIN v : trimmed[i] # "" }
      last == CHOOSE i \in kept : \A j \in kept : j <= i
  IN  IF v = None THEN DefaultClusterDomain
      ELSE IF kept = {} THEN DefaultClusterDomain ELSE SubSeq(trimmed, 1, last)

\* Some(b), or None for any other spelling.
ParseBoolFlag(text) ==
  CASE text \in {"1", "true", "yes", "on"}  -> TRUE
    [] text \in {"0", "false", "no", "off"} -> FALSE
    [] OTHER                                -> None

\* Entries of nothing but blanks are dropped; of several values of a key the
\* last one stays.
Malformed(entry) == entry.key \in Blank \/ entry.value \in Blank \cup {None}
Written(es) == { i \in DOMAIN es : es[i].key \notin Blank \/ es[i].value # None }
LabelsAt(es, positions) ==
  { <<es[i].key, es[i].value>> :
      i \in { i \in positions : \A j \in positions : es[j].key = es[i].key => j <= i } }

\* Mutant: a malformed entry is passed over.
ParseSelectorSkipping(es) == LabelsAt(es, { i \in Written(es) : ~Malformed(es[i]) })

\* parse_selector: None for an error.
ParseSelector(es) ==
  IF \E i \in Written(es) : Malformed(es[i]) THEN None ELSE LabelsAt(es, Written(es))

Selector(env) == ParseSelector(Text(env.ingressPodSelector, <<>>))
Election(env) ==
  IF env.leaderElection = None THEN TRUE ELSE ParseBoolFlag(env.leaderElection)

FromEnv(env) ==
  LET d == DefaultSettings IN
  [calibandImage |-> Text(env.calibandImage, d.calibandImage),
   calibandPort |-> Number(env.calibandPort, d.calibandPort),
   agentPortBase |-> Number(env.agentPortBase, d.agentPortBase),
   agentPortEnd |-> Number(env.agentPortEnd, d.agentPortEnd),
   workspaceRoot |-> Text(env.workspaceRoot, d.workspaceRoot),
   workspaceStorage |-> Text(env.workspaceStorage, d.workspaceStorage),
   gitImage |-> Text(env.gitImage, d.gitImage),
   agentUid |-> Number(env.agentUid, d.agentUid),
   agentGid |-> Number(env.agentGid, d.agentGid),
   sessionTlsSecret |-> Text(env.sessionTlsSecret, d.sessionTlsSecret),
   sessionTokenSecret |-> Text(env.sessionTokenSecret, d.sessionTokenSecret),
   sessionTokenKey |-> Text(env.sessionTokenKey, d.sessionTokenKey),
   sessionServerName |-> Text(env.sessionServerName, d.sessionServerName),
   cpuRequest |-> OptionalQuantity(env.cpuRequest, d.cpuRequest),
   memoryRequest |-> OptionalQuantity(env.memoryRequest, d.memoryRequest),
   cpuLimit |-> OptionalQuantity(env.cpuLimit, d.cpuLimit),
   memoryLimit |-> OptionalQuantity(env.memoryLimit, d.memoryLimit),
   clusterDomain |-> ClusterDomain(env.clusterDomain),
   ingressPodSelector |-> IF Selector(env) = None THEN {} ELSE Selector(env),
   ingressNamespace |-> Trimmed(env.ingressNamespace),
   leaderElection |-> IF Election(env) = None THEN d.leaderElection ELSE Election(env),
   leaseName |-> Text(env.leaseName, d.leaseName),
   leaseNamespace |-> Trimmed(env.leaseNamespace),
   leaseDuration |-> Unsigned(env.leaseDuration, d.leaseDuration),
   leaseGrace |-> Unsigned(env.leaseGrace, d.leaseGrace),
   envErrors |->
     (IF Selector(env) = None THEN {"CALIBAN_INGRESS_POD_SELECTOR"} ELSE {})
       \cup (IF Election(env) = None THEN {"CALIBAN_LEADER_ELECTION"} ELSE {})]

\* Mutant: a blank POD_NAME is a name.
LeaderIdentityUntrimmed(podName, hostname) ==
  IF podName # None THEN podName
  ELSE IF hostname \notin {None, ""} THEN hostname ELSE "caliban-operator"

\* The identity a replica claims the lease under.
LeaderIdentity(podName, hostname) ==
  IF Trimmed(podName) # None THEN podName
  ELSE IF hostname \notin {None, ""} THEN hostname ELSE "caliban-operator"

-----------------------------------------------------------------------------
(* What startup rejects. *)

PortsOutOfRange(s) ==
  \E p \in {s.calibandPort, s.agentPortBase, s.agentPortEnd} : ~InPortRange(p)

\* Mutant: the control port may lie in the window.
ValidateNoCollision(s) ==
  FirstProblem(<<
    ProblemIf(s.envErrors # {}, "environment"),
    ProblemIf(PortsOutOfRange(s), "port range"),
    ProblemIf(s.leaseGrace >= s.leaseDuration, "lease grace"),
    ProblemIf(s.leaseName \in Blank, "lease name"),
    ProblemIf({s.agentUid, s.agentGid} # {"user"}, "id"),
    ProblemIf(s.agentPortBase > s.agentPortEnd, "port window") >>)

\* Settings::validate: the first problem is named.
Validate(s) ==
  FirstProblem(<<
    ProblemIf(s.envErrors # {}, "environment"),
    ProblemIf(PortsOutOfRange(s), "port range"),
    ProblemIf(s.leaseGrace >= s.leaseDuration, "lease grace"),
    ProblemIf(s.leaseName \in Blank, "lease name"),
    ProblemIf({s.agentUid, s.agentGid} # {"user"}, "id"),
    ProblemIf(s.agentPortBase > s.agentPortEnd, "port window"),
    ProblemIf(s.calibandPort \in s.agentPortBase .. s.agentPortEnd, "port collision") >>)

\* resources.rs agent_port_base: the u16 the launch contract takes.
AgentPortBase(s) ==
  IF s.agentPortBase \in 0 .. U16Max THEN s.agentPortBase ELSE DefaultAgentPortBase

-----------------------------------------------------------------------------
(* Names and labels of the children.  A task's name is a sequence of        *)
(* characters.                                                              *)

SandboxName(t) == t.name \o <<"-", "s", "b", "x">>
SaName(t) == t.name \o <<"-", "s", "a">>
NetpolName(t) == t.name \o <<"-", "n", "e", "t", "p", "o", "l">>

\* Mutant: the limit is put to the task's own name.
TaskNameUnsuffixed(t) == IF Len(t.name) > ServiceNameMax THEN "name too long" ELSE None

TaskNameProblem(t) ==
  IF Len(SandboxName(t)) > ServiceNameMax THEN "name too long" ELSE None

AdvertiseHost(t, s) == <<SandboxName(t), t.namespace, "svc">> \o s.clusterDomain

\* Mutant: the label that names the task is missing.
CommonLabelsUnkeyed(t) == { <<"app.kubernetes.io/managed-by", "caliban-operator">> }

CommonLabels(t) ==
  { <<"app.kubernetes.io/managed-by", "caliban-operator">>,
    <<"caliban.caliban-ai.dev/task", t.name>> }

OwnerRef(t) == [kind |-> "CalibanTask", name |-> t.name, uid |-> t.uid,
                controller |-> TRUE, blockOwnerDeletion |-> TRUE]
=============================================================================
