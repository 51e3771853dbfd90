------------------------- MODULE MCNetworkDiscovery -------------------------
(***************************************************************************)
(* NetworkDiscovery in clusters with at most two plug-ins, in which every  *)
(* source has a CIDR of its own.                                           *)
(***************************************************************************)
EXTENDS NetworkDiscovery, FiniteSets

Absent == [there |-> "no", pods |-> Nil, services |-> Nil]

There(pods, services) == [there |-> "yes", pods |-> pods, services |-> services]

Malformed == [Absent EXCEPT !.there = "malformed"]

MCPlugins ==
    {p \in [openshift : {Absent, Malformed, There("osPods", "osServices"), There(Nil, "osServices")},
            weave     : {Absent, There("weavePods", Nil), There(Blank, Nil)},
            canal     : {Absent, There("canalPods", Nil)},
            ovn       : {Absent, Malformed, There("ovnPods", "ovnServices"), There("ovnPods", Nil)},
            calico    : {Absent, There(Nil, Nil)}] :
        Cardinality({i \in Plugins : p[i] # Absent}) <= 2}

MCSources ==
    [controllerManager : {Blank, Separate, "managerPods"},
     kubeProxy         : {Blank, "proxyPods"},
     nodes             : {Blank, "nodePods"},
     apiserver         : {Blank, "apiServices"},
     createService     : {Blank, "refusedServices"}]

MCGiven == [pods : {Blank, "givenPods"}, services : {Blank, "givenServices"}]

MCClusters == [plugins : MCPlugins, sources : MCSources, given : MCGiven]

MCCIDRs ==
    {"osPods", "osServices", "weavePods", "canalPods", "ovnPods", "ovnServices", "managerPods",
     "proxyPods", "nodePods", "apiServices", "refusedServices", "givenPods", "givenServices"}
=============================================================================
