-------------------------- MODULE MCConfiguration --------------------------
(***************************************************************************)
(* Inputs for Configuration: families that each vary what some of the      *)
(* properties tell apart.                                                  *)
(***************************************************************************)
EXTENDS Configuration

MCRoot == <<"work">>

-----------------------------------------------------------------------------
(* Workspaces. *)

Keys == SecretKeys({"s"}, {"k", "l"})
Anthropic == [text |-> "Anthropic", lower |-> "anthropic", prefix |-> "ANTHROPIC"]
Azure == [text |-> "azure", lower |-> "azure", prefix |-> "AZURE"]
ProviderOf(name) == [name |-> name, kind |-> Anthropic, baseUrl |-> None, model |-> "m",
                     credentialsRef |-> None]

Base == [sources |-> <<>>, providers |-> <<ProviderOf("a")>>, defaultProvider |-> None,
         env |-> <<>>, runtimeClass |-> None, egress |-> None, agentPolicy |-> None]

\* Paths as their text splits at "/": an absolute one starts with an empty
\* segment.  Up to four more, of which a few make two paths collide.
Segments == {"", ".", "..", "work", "app"}
PathsOf(lengths) ==
  UNION { [absolute : {TRUE}, segs : { <<"">> \o t : t \in [1 .. n -> Segments] }] :
          n \in lengths }
    \cup UNION { [absolute : {FALSE}, segs : [1 .. n -> Segments]] : n \in lengths }
SomePaths == { p \in PathsOf({2, 3}) : p.absolute /\ p.segs[2] = "work" }

OneSource == { [Base EXCEPT !.sources = <<s>>] : s \in Source({"src"}, PathsOf(0 .. 4)) }
TwoSources == { [Base EXCEPT !.sources = ss] : ss \in [1 .. 2 -> Source({"src"}, SomePaths)] }

Hosts == {"git", "llm"}
MCConnections ==
  [host : Hosts \cup {"dns"}, proto : {"TCP", "UDP"}, port : {22, 53, 443}]
MCPods == [namespace : {"ns", "gateway"}, labels : SUBSET ({"app", "tier"} \X {"x", "y"})]
Cidrs == [slash : BOOLEAN, ip : {"v4", "v6", "other"},
          prefix : {-1, 0, 8, 32, 33, 128, 129, 256}, hosts : {{"git"}}]
OneRule ==
  { [Base EXCEPT !.egress = <<r>>] :
      r \in EgressRule(Cidrs, {<<>>, <<1>>, <<65535>>, <<443, 0>>, <<65536>>}) }
Rules == EgressRule([slash : {TRUE}, ip : {"v4"}, prefix : {24}, hosts : SUBSET Hosts \ {{}}],
                    {<<>>, <<443>>, <<443, 53>>})
Egresses == { [Base EXCEPT !.egress = e] : e \in OrNone(UpTo(2, Rules)) }

ProviderSeqs ==
  UpTo(2, Provider({"a", "b"}, {Anthropic}, {}, {"m"}, Keys))
Bindings == { [Base EXCEPT !.providers = ps, !.defaultProvider = d] :
                ps \in ProviderSeqs \ {<<>>}, d \in OrNone({"a", "b"}) }

\* Several passes at fault at once.
Outside == [name |-> "src", path |-> [absolute |-> TRUE, segs |-> <<"", "other">>]]
BadRule == [cidr |-> [slash |-> TRUE, ip |-> "v4", prefix |-> 33, hosts |-> {}],
            ports |-> <<0>>]
Mixed == WorkspaceSpec({<<>>, <<Outside>>}, { ps \in ProviderSeqs : Len(ps) = 2 },
                       {"a", "c"}, {<<>>}, {}, {<<>>, <<BadRule>>}, {})

\* What a Workspace may put in its own env, variables of the operator included.
RawNames == {"CALIBAN_NO_PERMISSIONS", "CALIBAN_ENABLED_PLUGINS",
             "CALIBAN_DAEMON_TOKEN", "OTHER"}
RawEnvs == UpTo(2, EnvEntry(RawNames, {"true"}))
Policies == AgentPolicy({"", "x,y"})
Governed ==
  { [Base EXCEPT !.agentPolicy = p] :
      p \in OrNone({ p \in Policies : p.noMcp = None /\ p.enabledPlugins = None }) }
Projected ==
  { [Base EXCEPT !.agentPolicy = p, !.env = e, !.providers[1].kind = k] :
      p \in { p \in Policies : /\ p.permissionMode \in {None, "dontAsk"}
                               /\ p.autoAllow = None /\ p.noMcp = None },
      e \in RawEnvs, k \in {Anthropic, Azure} }
\* An entry of a power's variable, whatever the typed policy says of it.
Doors ==
  { [w EXCEPT !.env = <<e>>] :
      w \in Governed, e \in EnvEntry({ v.name : v \in Powers }, {"true", "dontAsk"}) }

-----------------------------------------------------------------------------
(* Tasks, texts and environments. *)

MCLetter == {"a", "s", "b", "x", "n", "e", "t", "p", "o", "l"}
MCDigit == {"1"}
Letters(n) == [i \in 1 .. n |-> "a"]
Router == "router"
Task == CHOOSE t \in TaskSpec({Letters(5)}, {}, {}, {}, {}, {}, {}) : TRUE
Models == { [text |-> "", blank |-> TRUE], [text |-> "big", blank |-> FALSE],
            [text |-> "big", blank |-> TRUE] }
Postures == { [Task EXCEPT !.posture = p, !.model = m, !.runtimeClass = c] :
                p \in OrNone({"supervised", "unattended"}), m \in OrNone(Models),
                c \in OrNone({"kata"}) }
Bound == { [Task EXCEPT !.providerRef = p, !.model = m] :
             p \in OrNone({"a", "c"}), m \in {None, [text |-> "big", blank |-> TRUE]} }
Stateful == TaskSpec({Letters(5)}, {}, {}, {}, {Router}, StateSpec({"token"}), {"kata"})
Samples == {"a", "1", "-", "."}
Named == { [Task EXCEPT !.name = n] :
             n \in { Letters(k) : k \in 1 .. 70 }
                     \cup { w \in UpTo(3, Samples) \ {<<>>} : Subdomain(w) } }

\* Up to eleven characters of one to four bytes, around a limit of eight.
Messages ==
  UpTo(4, 1 .. 4)
  \cup { [i \in 1 .. n |-> w] \o tail : n \in 5 .. 9, w \in {1, 2}, tail \in UpTo(2, 1 .. 4) }

Ports == {-1, 0, 1, 7000, 7100, 7999, 65535, 65536}
Numbers(values) == {None, <<>>} \cup { <<n>> : n \in values }
Windows ==
  { [Unset EXCEPT !.calibandPort = c, !.agentPortBase = b, !.agentPortEnd = e] :
      c \in Numbers(Ports), b \in Numbers(Ports), e \in Numbers(Ports) }
MCNeighbours == { Letters(k) : k \in 1 .. 6 }
Entries == [key : {"", "app", "tier"}, value : {None, " ", "x", "y"}]
Selections ==
  { [Unset EXCEPT !.ingressPodSelector = l, !.ingressNamespace = n] :
      l \in OrNone(UpTo(2, Entries)), n \in {None, "", " ", "ns", "gateway"} }
Resources ==
  { [Unset EXCEPT !.cpuRequest = r, !.cpuLimit = l, !.memoryLimit = m,
                  !.workspaceRoot = w] :
      r \in Numbers({-1, 100, 1000}), l \in Numbers({-1, 100, 500}),
      m \in {None, <<-1>>, <<256>>},
      w \in {None, <<>>, <<"etc">>, TlsMount, TlsMount \o <<"x">>, RouterConfigMount} }
Override == {None, "", "own"}
Blanks ==
  { [Unset EXCEPT !.calibandImage = c, !.gitImage = g, !.sessionTlsSecret = t,
                  !.sessionTokenSecret = s, !.sessionTokenKey = k,
                  !.workspaceStorage = q] :
      c \in Override, g \in Override, t \in Override, s \in Override, k \in Override,
      q \in {None, -1, 0, 5} }
Cloned ==
  [Base EXCEPT !.sources =
     << [name |-> "src", path |-> [absolute |-> TRUE, segs |-> <<"", "work", "app">>]] >>]
Others ==
  { [Unset EXCEPT !.clusterDomain = d] :
      d \in OrNone(UpTo(4, {"", " ", "corp"})) }
  \cup { [Unset EXCEPT !.leaderElection = f, !.ingressPodSelector = l] :
           f \in {"on", "no", "maybe", ""}, l \in {None, <<[key |-> "app", value |-> None]>>} }
  \cup { [Unset EXCEPT !.agentUid = u, !.agentGid = g, !.leaseGrace = l] :
           u \in Numbers({"root", "user", "beyond"}), g \in Numbers({"root", "user"}),
           l \in {None, <<15>>, <<-1>>} }

Default == [spec |-> Base, present |-> {}, task |-> Task, env |-> Unset, message |-> <<>>]

MCFamilies ==
  { { [Default EXCEPT !.spec = w] :
        w \in OneSource \cup TwoSources \cup OneRule \cup Projected \cup Egresses },
    { [Default EXCEPT !.spec = w, !.present = p] : w \in Mixed, p \in {{}, Keys} },
    { [Default EXCEPT !.spec = w, !.present = p, !.task = t] :
        w \in Bindings, p \in SUBSET Keys, t \in Bound },
    { [Default EXCEPT !.spec = w, !.task = t] : w \in Governed, t \in Postures },
    { [Default EXCEPT !.spec = w, !.task.posture = p] :
        w \in Doors, p \in {"supervised", "unattended"} },
    { [Default EXCEPT !.task = t] : t \in Named \cup Stateful },
    { [Default EXCEPT !.env = e] : e \in Windows \cup Selections \cup Others },
    { [Default EXCEPT !.task.routerConfigRef = r, !.env = e] :
        r \in {None, Router, ""}, e \in Resources },
    { [Default EXCEPT !.spec = w, !.env = e] : w \in {Base, Cloned}, e \in Blanks },
    { [Default EXCEPT !.message = m] : m \in Messages } }
=============================================================================
