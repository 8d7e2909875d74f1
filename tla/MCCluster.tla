----------------------------- MODULE MCCluster -----------------------------
(***************************************************************************)
(* How nodes come together, each way on its own: the bootstrap of nodes a  *)
(* and b, which everyone is given as targets, and c, which joins them;     *)
(* discovery through a registry; and the network they share.               *)
(***************************************************************************)
EXTENDS Bootstrap, Discovery, Transport

CONSTANTS a, b, c

TwoTargets == <<a, b>>

VARIABLE part       \* the part this behaviour is about

clusterVars == <<part, bootVars, discoVars, netVars>>

ClusterInit ==
    /\ part \in {"bootstrap", "discovery", "network"}
    /\ BootInit /\ DiscoInit /\ TransportInit

ClusterNext ==
    /\ UNCHANGED part
    /\ \/ part = "bootstrap" /\ BootNext /\ UNCHANGED <<discoVars, netVars>>
       \/ part = "discovery" /\ DiscoNext /\ UNCHANGED <<bootVars, netVars>>
       \/ part = "network" /\ TransportNext /\ UNCHANGED <<bootVars, discoVars>>

\* BootFairness, DiscoFairness and TransportFairness, each in its part.
ClusterFairness ==
    /\ \A n \in Hosts :
        /\ WF_bootVars(part = "bootstrap" /\ Start(n))
        /\ WF_bootVars(part = "bootstrap" /\ BootStep(n))
        /\ WF_bootVars(part = "bootstrap" /\ ElectLeader(n))
        /\ WF_bootVars(part = "bootstrap" /\ StepDown(n))
        /\ \A m \in Hosts : WF_bootVars(part = "bootstrap" /\ Follow(n, m))
    /\ \A n \in DiscoNodes :
        /\ WF_discoVars(part = "discovery" /\ RegisterStep(n))
        /\ WF_discoVars(part = "discovery" /\ ClusterStep(n))
        /\ WF_discoVars(part = "discovery" /\ Report(n))
        /\ WF_discoVars(part = "discovery" /\ SetLeader(n))
        /\ WF_discoVars(part = "discovery" /\ NewRuler(n))
    /\ \A h \in Services :
        /\ WF_netVars(part = "network" /\ MuxListen(h))
        /\ WF_netVars(part = "network" /\ ServiceOpen(h))
        /\ WF_netVars(part = "network" /\ ServiceStops(h))
    /\ WF_netVars(part = "network" /\ MuxAcceptFails)
    /\ WF_netVars(part = "network" /\ MuxServeReturns)
    /\ \A k \in Conns :
        /\ WF_netVars(part = "network" /\ ReadHeader(k))
        /\ WF_netVars(part = "network" /\ Handler(k))
        /\ WF_netVars(part = "network" /\ \E h \in Services : ListenerAccept(k, h))

ClusterSpec == ClusterInit /\ [][ClusterNext]_clusterVars /\ ClusterFairness

----------------------------------------------------------------------------

\* AllBoot, of the bootstrap: whoever starts comes to be in a cluster with a
\* leader (Bootstrapper.Boot).
BootstrapEnds == part = "bootstrap" => AllBoot

\* AllDiscovered, of the discovery: createCluster comes to an end on every node.
DiscoveryEnds == part = "discovery" => AllDiscovered
=============================================================================
