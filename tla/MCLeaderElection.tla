-------------------------- MODULE MCLeaderElection --------------------------
(* Three replicas under the environments a chart or a hand-written Deployment *)
(* can give them.                                                           *)
EXTENDS LeaderElection

MCReplica == {"a", "b", "c"}

\* Pod names from the downward API, or blank ones and the containers' hostnames.
Chart == [podName |-> [r \in MCReplica |-> "pod-" \o r],
          hostname |-> [r \in MCReplica |-> None]]
Unnamed(name) == [podName |-> [r \in MCReplica |-> name],
                  hostname |-> [r \in MCReplica |-> "host-" \o r]]

Of(names, election, duration, grace, namespace, file) ==
  [env |-> [Unset EXCEPT !.leaderElection = election, !.leaseDuration = duration,
                         !.leaseGrace = grace, !.leaseNamespace = namespace],
   podName |-> names.podName, hostname |-> names.hostname, namespaceFile |-> file]

MCDeployments ==
  { Of(names, election, <<3>>, <<1>>, None, "ns") :
      names \in {Chart, Unnamed(""), Unnamed(None)},
      election \in {None, "on", "off", "enabled"} }
  \cup { Of(Chart, "yes", <<3>>, <<1>>, namespace, file) :
           namespace \in {None, " ", "ns"}, file \in {None, "", "ns"} }
  \cup { Of(Chart, election, duration, grace, None, "ns") :
           election \in {None, "no"},
           duration \in {<<-1>>, <<2>>, <<3>>}, grace \in {<<1>>, <<2>>, <<3>>, <<15>>} }

\* For the run that looks for a shutdown only.
Solo == { Of(Chart, None, <<3>>, <<1>>, None, "ns") }
=============================================================================
