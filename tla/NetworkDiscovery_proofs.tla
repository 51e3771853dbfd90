----------------------- MODULE NetworkDiscovery_proofs -----------------------
(***************************************************************************)
(* Proofs about NetworkDiscovery, for any CIDRs, clusters and failed reads.*)
(***************************************************************************)
EXTENDS NetworkDiscovery, TLAPS

Network == [plugin : Plugins \cup {"generic", "none"}, pods : Lists, services : Lists]

\* What the discovery may take the cluster for.
Views == {cluster} \cup (IF failed THEN {WithoutOvnConfig(cluster)} ELSE {})

\* The plug-ins that are looked for before another one.
Before ==
    [openshift |-> {}, weave |-> {"openshift"}, canal |-> {"openshift", "weave"},
     ovn |-> {"openshift", "weave", "canal"}, calico |-> {"openshift", "weave", "canal", "ovn"}]

Searching ==
    pc \in Plugins => ~ failed /\ \A p \in Before[pc] : Found(p).there = "no"

\* A network is what the plug-in of a cluster says, or the generic discovery
\* where the plug-in says nothing, which needs the services' CIDR.
Suits(n, c) ==
    /\ n.plugin = PluginOf(c) /\ n.plugin \in Plugins
    /\ c.plugins[n.plugin].there = "yes"
    /\ \/ n.pods = Own(c).pods
       \/ /\ Own(c).pods = Nil /\ GenericServices(c) # Blank
          /\ n.pods = ListOf(GenericPods(c))
    /\ \/ n.services = Own(c).services
       \/ /\ Own(c).services = Nil /\ GenericServices(c) # Blank
          /\ n.services = GenericServices(c)

\* Who asks the generic discovery has found the plug-in of the cluster.
PluginKnown ==
    /\ caller # "none" <=> pc \in PodSources \cup ServiceSources
    /\ pc \in {"ovnService", "ovnConfig"} => PluginOf(cluster) = "ovn" /\ ~ failed
    /\ pc = "ovnConfig" => Found("ovn").there = "yes"
    /\ caller \in {"weave", "canal", "calico"} =>
          PluginOf(cluster) = caller /\ Found(caller).there = "yes" /\ ~ failed
    /\ caller = "generic" => PluginOf(cluster) = "generic" /\ ~ failed
    /\ caller \in {"weave", "canal"} =>
          /\ pc \in ServiceSources
          /\ network = [plugin |-> caller, pods |-> Found(caller).pods, services |-> Nil]
    /\ caller = "completion" =>
          ~ IsComplete(network) /\ \E c \in Views : Suits(network, c)

\* The sources asked before have known nothing.
SourcesRead ==
    /\ pc \in {"kubeProxy", "nodes"} => cluster.sources.controllerManager = Blank
    /\ pc = "nodes" => cluster.sources.kubeProxy = Blank
    /\ pc \in ServiceSources /\ caller \notin {"weave", "canal"} =>
          podIPRange = GenericPods(cluster)
    /\ pc = "createService" => cluster.sources.apiserver = Blank

IInv == TypeOK /\ Searching /\ PluginKnown /\ SourcesRead /\ DiscoversWhatIsThere

-----------------------------------------------------------------------------
\* What a cluster is.

LEMMA ClusterType ==
    ASSUME NEW c \in Clusters
    PROVE  /\ \A p \in Plugins : /\ c.plugins[p].there \in {"yes", "no", "malformed"}
                                 /\ c.plugins[p].pods \in Lists /\ c.plugins[p].services \in Lists
           /\ \A s \in PodSources \cup ServiceSources :
                 c.sources[s] \in CIDRs \cup {Blank, Separate}
           /\ WellFormed(c)
           /\ DOMAIN c.sources = PodSources \cup ServiceSources
           /\ c \in Cluster
  <1>1. c \in Cluster /\ WellFormed(c)
    BY ConstantsAssumption
  <1>2. c.plugins \in [Plugins -> Evidence]
    BY <1>1 DEF Cluster
  <1>3. c.sources \in [PodSources \cup ServiceSources -> CIDRs \cup {Blank, Separate}]
    BY <1>1 DEF Cluster
  <1>4. \A p \in Plugins : c.plugins[p] \in Evidence
    BY <1>2
  <1> QED BY <1>1, <1>3, <1>4 DEF Evidence

LEMMA Fields ==
    \A c \in Clusters :
        /\ c.sources.controllerManager = c.sources["controllerManager"]
        /\ c.sources.kubeProxy = c.sources["kubeProxy"]
        /\ c.sources.nodes = c.sources["nodes"]
        /\ c.sources.apiserver = c.sources["apiserver"]
        /\ c.sources.createService = c.sources["createService"]
  OBVIOUS

\* The preferred plug-in.

LEMMA PreferenceFacts ==
    /\ Preference[1] = "openshift" /\ Preference[2] = "weave" /\ Preference[3] = "canal"
    /\ Preference[4] = "ovn" /\ Preference[5] = "calico"
  BY DEF Preference

LEMMA FirstIs ==
    ASSUME NEW c, NEW i \in Present(c), \A j \in Present(c) : i <= j
    PROVE  PluginOf(c) = Preference[i]
  <1>1. First(c) = i
    <2>1. First(c) \in Present(c) /\ \A j \in Present(c) : First(c) <= j
      BY DEF First
    <2>2. First(c) <= i /\ i <= First(c) /\ First(c) \in 1 .. 5 /\ i \in 1 .. 5
      BY <2>1 DEF Present
    <2> QED BY <2>2
  <1> QED BY <1>1 DEF PluginOf

LEMMA PluginFound ==
    ASSUME NEW c
    PROVE  /\ \A p \in Plugins :
                 /\ c.plugins[p].there # "no"
                 /\ \A q \in Before[p] : c.plugins[q].there = "no"
                 => PluginOf(c) = p
           /\ (\A p \in Plugins : c.plugins[p].there = "no") => PluginOf(c) = "generic"
  <1> DEFINE Here(p) == c.plugins[p].there # "no"
  <1>1. \A i \in 1 .. 5 : i \in Present(c) <=> Here(Preference[i])
    BY DEF Present
  <1>2. Present(c) \subseteq 1 .. 5
    BY DEF Present
  <1>3. /\ 1 \in Present(c) <=> Here("openshift")
        /\ 2 \in Present(c) <=> Here("weave")
        /\ 3 \in Present(c) <=> Here("canal")
        /\ 4 \in Present(c) <=> Here("ovn")
        /\ 5 \in Present(c) <=> Here("calico")
    BY <1>1, PreferenceFacts
  <1>4. ASSUME NEW p \in Plugins, Here(p), \A q \in Before[p] : ~ Here(q)
        PROVE  PluginOf(c) = p
    <2> HIDE DEF Here
    <2>1. CASE p = "openshift"
      <3>1. 1 \in Present(c) /\ \A j \in Present(c) : 1 <= j
        BY <1>2, <1>3, <1>4, <2>1
      <3> QED BY <2>1, <3>1, FirstIs, PreferenceFacts
    <2>2. CASE p = "weave"
      <3>1. ~ Here("openshift")
        BY <1>4, <2>2 DEF Before
      <3>2. 2 \in Present(c) /\ \A j \in Present(c) : 2 <= j
        BY <1>2, <1>3, <1>4, <2>2, <3>1
      <3> QED BY <2>2, <3>2, FirstIs, PreferenceFacts
    <2>3. CASE p = "canal"
      <3>1. ~ Here("openshift") /\ ~ Here("weave")
        BY <1>4, <2>3 DEF Before
      <3>2. 3 \in Present(c) /\ \A j \in Present(c) : 3 <= j
        BY <1>2, <1>3, <1>4, <2>3, <3>1
      <3> QED BY <2>3, <3>2, FirstIs, PreferenceFacts
    <2>4. CASE p = "ovn"
      <3>1. ~ Here("openshift") /\ ~ Here("weave") /\ ~ Here("canal")
        BY <1>4, <2>4 DEF Before
      <3>2. 4 \in Present(c) /\ \A j \in Present(c) : 4 <= j
        BY <1>2, <1>3, <1>4, <2>4, <3>1
      <3> QED BY <2>4, <3>2, FirstIs, PreferenceFacts
    <2>5. CASE p = "calico"
      <3>1. ~ Here("openshift") /\ ~ Here("weave") /\ ~ Here("canal") /\ ~ Here("ovn")
        BY <1>4, <2>5 DEF Before
      <3>2. 5 \in Present(c) /\ \A j \in Present(c) : 5 <= j
        BY <1>2, <1>3, <1>4, <2>5, <3>1
      <3> QED BY <2>5, <3>2, FirstIs, PreferenceFacts
    <2> QED BY <2>1, <2>2, <2>3, <2>4, <2>5 DEF Plugins
  <1>5. ASSUME \A p \in Plugins : ~ Here(p) PROVE PluginOf(c) = "generic"
    <2> HIDE DEF Here
    <2>1. Present(c) = {}
      BY <1>2, <1>3, <1>5 DEF Plugins
    <2> QED BY <2>1 DEF PluginOf
  <1> QED BY <1>4, <1>5

\* While the ConfigMap of OVN cannot be read, only its CIDRs are missing.
LEMMA WithoutOvnConfigIs ==
    ASSUME NEW c \in Clusters
    PROVE  LET v == WithoutOvnConfig(c)
           IN  /\ v.sources = c.sources
               /\ \A p \in Plugins : v.plugins[p].there = c.plugins[p].there
               /\ v.plugins["ovn"].pods = Nil /\ v.plugins["ovn"].services = Nil
               /\ PluginOf(v) = PluginOf(c)
  <1>1. c \in Cluster
    BY ClusterType
  <1>2. /\ WithoutOvnConfig(c).sources = c.sources
        /\ \A p \in Plugins :
              WithoutOvnConfig(c).plugins[p].there = c.plugins[p].there
        /\ WithoutOvnConfig(c).plugins["ovn"].pods = Nil
        /\ WithoutOvnConfig(c).plugins["ovn"].services = Nil
    BY <1>1 DEF WithoutOvnConfig, Cluster, Evidence, Plugins
  <1>3. PluginOf(WithoutOvnConfig(c)) = PluginOf(c)
    <2>1. \A i \in 1 .. 5 : Preference[i] \in Plugins
      BY PreferenceFacts DEF Plugins
    <2>2. Present(WithoutOvnConfig(c)) = Present(c)
      BY <1>2, <2>1 DEF Present
    <2> QED BY <2>2 DEF PluginOf, First
  <1> QED BY <1>2, <1>3

\* The plug-in of a cluster is there.
LEMMA NotNo ==
    ASSUME NEW c, PluginOf(c) # "generic"
    PROVE  c.plugins[PluginOf(c)].there # "no"
  <1>1. Present(c) # {} /\ PluginOf(c) = Preference[First(c)]
    BY DEF PluginOf
  <1>2. PICK i \in Present(c) : \A j \in Present(c) : i <= j
    <2>1. Present(c) \subseteq 1 .. 5
      BY DEF Present
    <2> QED BY <1>1, <2>1
  <1>3. First(c) \in Present(c)
    BY <1>2 DEF First
  <1> QED BY <1>1, <1>3 DEF Present

\* Generic sources.
LEMMA GenericType ==
    ASSUME NEW c \in Clusters
    PROVE  GenericServices(c) # Nil
  BY ClusterType, Fields, ConstantsAssumption DEF GenericServices, FirstOf, PodSources, ServiceSources

LEMMA SameSources ==
    ASSUME NEW c, NEW d, c.sources = d.sources
    PROVE  GenericPods(c) = GenericPods(d) /\ GenericServices(c) = GenericServices(d)
  BY DEF GenericPods, GenericServices

\* What is complete is what there is to discover.
LEMMA SuitsComplete ==
    ASSUME NEW n \in Network, NEW c, Suits(n, c), IsComplete(n)
    PROVE  n = ToDiscover(c)
  <1>1. PluginOf(c) # "generic" /\ c.plugins[PluginOf(c)].there # "malformed"
    BY DEF Suits, Plugins
  <1>2. IsComplete(Own(c)) \/ GenericServices(c) # Blank
    BY DEF Suits, IsComplete
  <1>3. ToDiscover(c) =
           [plugin   |-> PluginOf(c),
            pods     |-> IF Own(c).pods = Nil THEN ListOf(GenericPods(c)) ELSE Own(c).pods,
            services |-> IF Own(c).services = Nil THEN GenericServices(c) ELSE Own(c).services]
    BY <1>1, <1>2 DEF ToDiscover
  <1>4. /\ n.plugin = PluginOf(c)
        /\ n.pods = IF Own(c).pods = Nil THEN ListOf(GenericPods(c)) ELSE Own(c).pods
        /\ n.services = IF Own(c).services = Nil THEN GenericServices(c) ELSE Own(c).services
    BY DEF Suits, IsComplete
  <1> QED BY <1>3, <1>4 DEF Network

-----------------------------------------------------------------------------
\* What several actions do.

Kept == /\ cluster' = cluster
        /\ invalidSvc' \in BOOLEAN /\ failed' \in BOOLEAN /\ faults' \in 0 .. MaxFaults

LEMMA NoNetworkType == NoNetwork \in Network
  BY DEF NoNetwork, Network, Lists

LEMMA Return_Keeps ==
    ASSUME TypeOK, Kept, NEW n \in Network, Return(n),
           \/ failed' /\ n = NoNetwork
           \/ \E c \in Views' : n = ToDiscover(c)
    PROVE  IInv'
  <1>1. /\ pc' = "discovered" /\ network' = n /\ caller' = "none" /\ podIPRange' = Blank
    BY DEF Return
  <1>2. TypeOK'
    BY <1>1 DEF TypeOK, Kept, Network
  <1>3. Searching' /\ PluginKnown' /\ SourcesRead'
    BY <1>1 DEF Searching, PluginKnown, SourcesRead, Plugins, PodSources, ServiceSources
  <1>4. DiscoversWhatIsThere'
    BY <1>1 DEF DiscoversWhatIsThere, Views
  <1> QED BY <1>2, <1>3, <1>4 DEF IInv

\* The generic discovery is left to do the rest.
LEMMA Completion_Keeps ==
    ASSUME TypeOK, Kept, NEW n \in Network, DiscoverNetwork("completion"), network' = n,
           ~ IsComplete(n), NEW c \in Views', Suits(n, c)
    PROVE  IInv'
  <1>1. /\ pc' = "controllerManager" /\ network' = n /\ caller' = "completion"
        /\ podIPRange' = Blank
    BY DEF DiscoverNetwork
  <1>2. TypeOK'
    BY <1>1 DEF TypeOK, Kept, Network, PodSources
  <1>3. Searching' /\ SourcesRead' /\ DiscoversWhatIsThere'
    BY <1>1 DEF Searching, SourcesRead, DiscoversWhatIsThere, Plugins, PodSources, ServiceSources
  <1>4. PluginKnown'
    BY <1>1 DEF PluginKnown, PodSources
  <1> QED BY <1>2, <1>3, <1>4 DEF IInv

LEMMA Complete_Keeps ==
    ASSUME TypeOK, Kept, NEW n \in Network, Complete(n), NEW c \in Views', Suits(n, c)
    PROVE  IInv'
  <1>1. CASE IsComplete(n)
    <2>1. n = ToDiscover(c) /\ Return(n)
      BY <1>1, SuitsComplete DEF Complete
    <2> QED BY <2>1, Return_Keeps
  <1>2. CASE ~ IsComplete(n)
    BY <1>2, Completion_Keeps DEF Complete
  <1> QED BY <1>1, <1>2

\* A discovery begins.
LEMMA Begin_Keeps ==
    ASSUME TypeOK, Begin, UNCHANGED <<cluster, invalidSvc, faults>>
    PROVE  IInv'
  <1>1. /\ pc' = "openshift" /\ caller' = "none" /\ network' = NoNetwork
        /\ podIPRange' = Blank /\ failed' = FALSE
    BY DEF Begin
  <1>2. TypeOK'
    BY <1>1, NoNetworkType DEF TypeOK, Network, Plugins
  <1>3. Searching'
    BY <1>1 DEF Searching, Before
  <1>4. PluginKnown' /\ SourcesRead' /\ DiscoversWhatIsThere'
    BY <1>1 DEF PluginKnown, SourcesRead, DiscoversWhatIsThere, PodSources, ServiceSources
  <1> QED BY <1>2, <1>3, <1>4 DEF IInv

\* What stays when the discovery goes on to another step.
LEMMA Unread_Kept ==
    ASSUME TypeOK, Unread
    PROVE  /\ Kept /\ Views' = Views /\ cluster \in Views'
           /\ failed' = failed /\ cluster' = cluster
  BY DEF TypeOK, Unread, Kept, Views

LEMMA NotFound_Keeps ==
    ASSUME IInv, NEW p \in Plugins, pc = p, NotFound(p), Unread
    PROVE  IInv'
  <1>1. /\ pc' = NextPlugin[p] /\ caller' = IF p = "calico" THEN "generic" ELSE "none"
        /\ Found(p).there = "no"
        /\ UNCHANGED <<network, podIPRange, cluster, invalidSvc, failed, faults>>
    BY DEF NotFound, Unread
  <1>2. ~ failed /\ \A q \in Before[p] : Found(q).there = "no"
    BY DEF IInv, Searching
  <1>3. TypeOK'
    BY <1>1 DEF IInv, TypeOK, NextPlugin, Plugins, PodSources
  <1>4. Searching'
    <2>1. pc' \in Plugins => \A q \in Before[pc'] : q = p \/ q \in Before[p]
      BY <1>1 DEF Plugins, NextPlugin, Before
    <2> QED BY <1>1, <1>2, <2>1 DEF Searching, Found
  <1>5. PluginKnown'
    <2>1. p = "calico" => PluginOf(cluster) = "generic"
      <3> SUFFICES ASSUME p = "calico" PROVE PluginOf(cluster) = "generic"
        OBVIOUS
      <3>1. \A q \in Plugins : cluster.plugins[q].there = "no"
        BY <1>1, <1>2 DEF Before, Plugins, Found
      <3> QED BY <3>1, PluginFound
    <2>2. pc' \in Plugins \cup {"controllerManager"} /\ (caller' # "none" => p = "calico")
      BY <1>1 DEF NextPlugin, Plugins
    <2>3. caller' # "none" <=> pc' = "controllerManager"
      BY <1>1 DEF NextPlugin, Plugins
    <2>4. caller' # "none" <=> pc' \in PodSources \cup ServiceSources
      BY <2>2, <2>3 DEF Plugins, PodSources, ServiceSources
    <2> QED BY <1>1, <1>2, <2>1, <2>2, <2>4 DEF PluginKnown, Plugins
  <1>6. SourcesRead' /\ DiscoversWhatIsThere'
    BY <1>1 DEF SourcesRead, DiscoversWhatIsThere, NextPlugin, Plugins, PodSources, ServiceSources
  <1> QED BY <1>3, <1>4, <1>5, <1>6 DEF IInv

\* The plug-in that is found is the preferred one.
LEMMA Found_Is ==
    ASSUME IInv, pc \in Plugins, Found(pc).there # "no"
    PROVE  PluginOf(cluster) = pc /\ ~ failed
  BY PluginFound DEF IInv, Searching, Found

\* A malformed plug-in: there is nothing to discover.
LEMMA Malformed_Keeps ==
    ASSUME IInv, NEW p \in Plugins, PluginOf(cluster) = p, Found(p).there = "malformed",
           Return(NoNetwork), Unread
    PROVE  IInv'
  <1>1. ToDiscover(cluster) = NoNetwork
    BY DEF ToDiscover, Found, Plugins
  <1> QED BY <1>1, Return_Keeps, NoNetworkType, Unread_Kept DEF IInv

\* A plug-in that says itself what it knows.
LEMMA Own_Suits ==
    ASSUME IInv, NEW p \in {"openshift", "ovn"}, PluginOf(cluster) = p, Found(p).there = "yes"
    PROVE  LET n == [plugin |-> p, pods |-> Found(p).pods, services |-> Found(p).services]
           IN  n \in Network /\ Suits(n, cluster)
  <1>1. Found(p).pods \in Lists /\ Found(p).services \in Lists
    BY ClusterType DEF IInv, TypeOK, Found, Plugins
  <1> QED BY <1>1 DEF Network, Suits, Own, Found, Plugins

-----------------------------------------------------------------------------
\* The plug-ins.

LEMMA OpenShift_Step ==
    ASSUME IInv, DiscoverOpenShift4Network
    PROVE  IInv'
  <1>1. pc = "openshift" /\ Unread
    BY DEF DiscoverOpenShift4Network
  <1>2. "openshift" \in Plugins
    BY DEF Plugins
  <1>3. CASE NotFound("openshift")
    BY <1>1, <1>2, <1>3, NotFound_Keeps
  <1>4. CASE Found("openshift").there = "malformed" /\ Return(NoNetwork)
    <2>1. PluginOf(cluster) = "openshift"
      BY <1>1, <1>2, <1>4, Found_Is
    <2> QED BY <1>1, <1>2, <1>4, <2>1, Malformed_Keeps
  <1>5. CASE /\ Found("openshift").there = "yes"
             /\ Complete([plugin |-> "openshift", pods |-> Found("openshift").pods,
                          services |-> Found("openshift").services])
    <2> DEFINE n == [plugin |-> "openshift", pods |-> Found("openshift").pods,
                     services |-> Found("openshift").services]
    <2>1. PluginOf(cluster) = "openshift"
      BY <1>1, <1>2, <1>5, Found_Is
    <2>2. n \in Network /\ Suits(n, cluster)
      BY <1>5, <2>1, Own_Suits
    <2>3. Complete(n)
      BY <1>5
    <2> HIDE DEF n
    <2> QED BY <1>1, <2>2, <2>3, Complete_Keeps, Unread_Kept DEF IInv
  <1> QED BY <1>3, <1>4, <1>5 DEF DiscoverOpenShift4Network

LEMMA AskForServices_Step ==
    ASSUME IInv, NEW p \in {"weave", "canal"}, AskForServices(p)
    PROVE  IInv'
  <1>1. pc = p /\ Unread /\ p \in Plugins
    BY DEF AskForServices, Plugins
  <1>2. CASE NotFound(p)
    BY <1>1, <1>2, NotFound_Keeps
  <1>3. CASE ~ NotFound(p)
    <2>1. /\ Found(p).there = "yes"
          /\ network' = [plugin |-> p, pods |-> Found(p).pods, services |-> Nil]
          /\ caller' = p /\ pc' = "apiserver"
          /\ UNCHANGED <<podIPRange, cluster, invalidSvc, failed, faults>>
      BY <1>3 DEF AskForServices, Unread
    <2>2. PluginOf(cluster) = p /\ ~ failed
      BY <1>1, <2>1, Found_Is
    <2>3. Found(p).pods \in Lists
      BY <1>1, ClusterType DEF IInv, TypeOK, Found
    <2>4. TypeOK'
      BY <1>1, <2>1, <2>3 DEF IInv, TypeOK, Lists, ServiceSources
    <2>5. Searching' /\ SourcesRead' /\ DiscoversWhatIsThere'
      BY <2>1 DEF Searching, SourcesRead, DiscoversWhatIsThere, Plugins
    <2>6. PluginKnown'
      BY <2>1, <2>2 DEF PluginKnown, Found, ServiceSources
    <2> QED BY <2>4, <2>5, <2>6 DEF IInv
  <1> QED BY <1>2, <1>3

LEMMA Ovn_Step ==
    ASSUME IInv, DiscoverOvnKubernetesNetwork
    PROVE  IInv'
  <1>1. pc = "ovn" /\ Unread /\ "ovn" \in Plugins
    BY DEF DiscoverOvnKubernetesNetwork, Plugins
  <1>2. CASE NotFound("ovn")
    BY <1>1, <1>2, NotFound_Keeps
  <1>3. CASE ~ NotFound("ovn")
    <2>1. /\ Found("ovn").there # "no" /\ pc' = "ovnService"
          /\ UNCHANGED <<network, caller, podIPRange, cluster, invalidSvc, failed, faults>>
      BY <1>3 DEF DiscoverOvnKubernetesNetwork, Unread
    <2>2. PluginOf(cluster) = "ovn" /\ ~ failed /\ caller = "none"
      BY <1>1, <2>1, Found_Is DEF IInv, PluginKnown, PodSources, ServiceSources
    <2>3. TypeOK'
      BY <2>1 DEF IInv, TypeOK
    <2>4. Searching' /\ SourcesRead' /\ DiscoversWhatIsThere' /\ PluginKnown'
      BY <2>1, <2>2 DEF Searching, SourcesRead, DiscoversWhatIsThere, PluginKnown, Plugins,
                        PodSources, ServiceSources
    <2> QED BY <2>3, <2>4 DEF IInv
  <1> QED BY <1>2, <1>3

LEMMA FindOvnService_Step ==
    ASSUME IInv, FindOvnService
    PROVE  IInv'
  <1>1. pc = "ovnService" /\ Unread /\ "ovn" \in Plugins
    BY DEF FindOvnService, Plugins
  <1>2. PluginOf(cluster) = "ovn" /\ ~ failed /\ caller = "none"
    BY <1>1 DEF IInv, PluginKnown, PodSources, ServiceSources
  <1>3. CASE Found("ovn").there = "malformed"
    BY <1>1, <1>2, <1>3, Malformed_Keeps DEF FindOvnService
  <1>4. CASE Found("ovn").there # "malformed"
    <2>1. /\ pc' = "ovnConfig"
          /\ UNCHANGED <<network, caller, podIPRange, cluster, invalidSvc, failed, faults>>
      BY <1>4 DEF FindOvnService, Unread
    <2>2. Found("ovn").there = "yes"
      <3>1. Found("ovn").there # "no"
        BY <1>1, <1>2, NotNo DEF IInv, TypeOK, Found
      <3> QED BY <1>1, <1>4, <3>1, ClusterType DEF IInv, TypeOK, Found
    <2>3. TypeOK'
      BY <2>1 DEF IInv, TypeOK
    <2>4. Searching' /\ SourcesRead' /\ DiscoversWhatIsThere' /\ PluginKnown'
      BY <1>2, <2>1, <2>2 DEF Searching, SourcesRead, DiscoversWhatIsThere, PluginKnown, Plugins,
                        PodSources, ServiceSources, Found
    <2> QED BY <2>3, <2>4 DEF IInv
  <1> QED BY <1>3, <1>4

LEMMA ReadOvnConfig_Step ==
    ASSUME IInv, ReadOvnConfig
    PROVE  IInv'
  <1> DEFINE n == [plugin |-> "ovn", pods |-> Found("ovn").pods,
                   services |-> Found("ovn").services]
  <1>1. pc = "ovnConfig" /\ Unread /\ Complete(n)
    BY DEF ReadOvnConfig
  <1>2. PluginOf(cluster) = "ovn" /\ Found("ovn").there = "yes"
    BY <1>1 DEF IInv, PluginKnown
  <1>3. n \in Network /\ Suits(n, cluster)
    BY <1>2, Own_Suits
  <1> HIDE DEF n
  <1> QED BY <1>1, <1>3, Complete_Keeps, Unread_Kept DEF IInv

LEMMA Calico_Step ==
    ASSUME IInv, DiscoverCalicoNetwork
    PROVE  IInv'
  <1>1. pc = "calico" /\ Unread /\ "calico" \in Plugins
    BY DEF DiscoverCalicoNetwork, Plugins
  <1>2. CASE NotFound("calico")
    BY <1>1, <1>2, NotFound_Keeps
  <1>3. CASE ~ NotFound("calico")
    <2>1. /\ Found("calico").there = "yes" /\ pc' = "controllerManager"
          /\ caller' = "calico" /\ podIPRange' = Blank
          /\ UNCHANGED <<network, cluster, invalidSvc, failed, faults>>
      BY <1>3 DEF DiscoverCalicoNetwork, DiscoverNetwork, Unread
    <2>2. PluginOf(cluster) = "calico" /\ ~ failed
      BY <1>1, <2>1, Found_Is
    <2>3. TypeOK'
      BY <2>1 DEF IInv, TypeOK, PodSources
    <2>4. Searching' /\ SourcesRead' /\ DiscoversWhatIsThere' /\ PluginKnown'
      BY <2>1, <2>2 DEF Searching, SourcesRead, DiscoversWhatIsThere, PluginKnown, Plugins,
                        PodSources, ServiceSources, Found
    <2> QED BY <2>3, <2>4 DEF IInv
  <1> QED BY <1>2, <1>3

-----------------------------------------------------------------------------
\* The generic discovery.

LEMMA SourceType ==
    ASSUME TypeOK, pc \in PodSources \cup ServiceSources
    PROVE  /\ Source \in CIDRs \cup {Blank, Separate}
           /\ Source = Separate => pc \in Arguments
           /\ pc = "controllerManager" => Source = cluster.sources.controllerManager
           /\ pc = "kubeProxy" => Source = cluster.sources.kubeProxy
           /\ pc = "nodes" => Source = cluster.sources.nodes
           /\ pc = "apiserver" => Source = cluster.sources.apiserver
           /\ pc = "createService" => Source = cluster.sources.createService
  <1>1. cluster \in Clusters
    BY DEF TypeOK
  <1>2. /\ cluster.sources[pc] \in CIDRs \cup {Blank, Separate}
        /\ cluster.sources[pc] = Separate => pc \in Arguments
    BY <1>1, ClusterType DEF WellFormed
  <1> QED BY <1>1, <1>2, Fields DEF Source

LEMMA FindPodIPRange_Step ==
    ASSUME IInv, FindPodIPRange
    PROVE  IInv'
  <1>1. /\ pc \in PodSources /\ Source # Separate /\ podIPRange' = Source
        /\ pc' = IF Source # Blank THEN "apiserver" ELSE NextPodSource[pc]
        /\ UNCHANGED <<caller, network, cluster, invalidSvc, failed, faults>>
    BY DEF FindPodIPRange, Unread
  <1>2. TypeOK
    BY DEF IInv
  <1>3. pc' \in {"kubeProxy", "nodes", "apiserver"}
    BY <1>1 DEF NextPodSource, PodSources
  <1>4. TypeOK'
    BY <1>1, <1>2, <1>3, SourceType DEF TypeOK, PodSources, ServiceSources
  <1>5. Searching' /\ DiscoversWhatIsThere'
    BY <1>3 DEF Searching, DiscoversWhatIsThere, Plugins
  <1>6. caller \notin {"weave", "canal"} /\ caller # "none"
    BY <1>1 DEF IInv, PluginKnown, PodSources, ServiceSources
  <1>7. PluginKnown'
    BY <1>1, <1>3, <1>6
    DEF IInv, PluginKnown, PodSources, ServiceSources, Views, Found
  <1>8. SourcesRead'
    <2>1. CASE pc = "controllerManager"
      BY <1>1, <1>2, <2>1, SourceType, ConstantsAssumption
      DEF SourcesRead, NextPodSource, PodSources, ServiceSources, GenericPods, FirstOf
    <2>2. CASE pc = "kubeProxy"
      BY <1>1, <1>2, <2>2, SourceType, ConstantsAssumption
      DEF IInv, SourcesRead, NextPodSource, PodSources, ServiceSources, GenericPods, FirstOf
    <2>3. CASE pc = "nodes"
      BY <1>1, <1>2, <2>3, SourceType, ConstantsAssumption
      DEF IInv, SourcesRead, NextPodSource, PodSources, ServiceSources, GenericPods, FirstOf
    <2> QED BY <1>1, <2>1, <2>2, <2>3 DEF PodSources
  <1> QED BY <1>4, <1>5, <1>7, <1>8 DEF IInv

\* What is asked for a plug-in, and what the plug-in says.
LEMMA CallerFacts ==
    ASSUME IInv, pc \in ServiceSources
    PROVE  /\ caller # "none"
           /\ caller \in {"weave", "canal"} =>
                 network \in Network /\ Suits(network, cluster)
           /\ caller \notin {"weave", "canal"} => podIPRange = GenericPods(cluster)
           /\ caller \in {"weave", "canal", "calico", "generic"} => Own(cluster).services = Nil
           /\ caller \in {"calico", "generic"} => Own(cluster).pods = Nil
           /\ ListOf(podIPRange) \in Lists
  BY DEF IInv, TypeOK, PluginKnown, SourcesRead, Network, Suits, Own, Found, Plugins, ListOf, Lists

LEMMA UseClusterIPRange_Keeps ==
    ASSUME IInv, pc \in ServiceSources, NEW range \in CIDRs, range = GenericServices(cluster),
           UseClusterIPRange(range), Kept, UNCHANGED failed
    PROVE  IInv'
  <1>1. Views' = Views /\ cluster \in Views
    BY DEF Kept, Views
  <1>2. range # Blank /\ range # Nil /\ range \in Lists /\ TypeOK /\ network \in Network
    BY ConstantsAssumption DEF IInv, TypeOK, Lists, Network
  <1>3. CASE caller \in {"weave", "canal"} /\ Complete([network EXCEPT !.services = range])
    <2> DEFINE n == [network EXCEPT !.services = range]
    <2>1. n \in Network /\ n.plugin = network.plugin /\ n.pods = network.pods /\ n.services = range
      BY <1>2 DEF Network
    <2>2. Suits(n, cluster)
      <3> HIDE DEF n
      <3> QED BY <1>2, <1>3, <2>1, CallerFacts DEF Suits
    <2> HIDE DEF n
    <2> QED BY <1>1, <1>2, <1>3, <2>1, <2>2, Complete_Keeps DEF n
  <1>4. CASE /\ caller = "calico"
             /\ Complete([plugin |-> "calico", pods |-> ListOf(podIPRange), services |-> range])
    <2> DEFINE n == [plugin |-> "calico", pods |-> ListOf(podIPRange), services |-> range]
    <2>1. n \in Network
      BY <1>2, CallerFacts DEF Network, Plugins
    <2>2. PluginOf(cluster) = "calico" /\ cluster.plugins["calico"].there = "yes"
      BY <1>4 DEF IInv, PluginKnown, Found
    <2>3. Suits(n, cluster)
      BY <1>2, <1>4, <2>2, CallerFacts DEF Suits, Plugins
    <2> HIDE DEF n
    <2> QED BY <1>1, <1>2, <1>4, <2>1, <2>3, Complete_Keeps DEF n
  <1>5. CASE caller = "completion" /\ Return(Completed(range))
    <2>1. PICK c \in Views : Suits(network, c)
      BY <1>5 DEF IInv, PluginKnown
    <2>2. GenericPods(c) = GenericPods(cluster) /\ GenericServices(c) = GenericServices(cluster)
      <3>1. c.sources = cluster.sources
        BY <1>2, WithoutOvnConfigIs DEF Views, TypeOK
      <3> QED BY <3>1, SameSources
    <2>3. podIPRange = GenericPods(c)
      BY <1>5, <2>2, CallerFacts
    <2> DEFINE n == Completed(range)
    <2>4. /\ n \in Network /\ n.plugin = network.plugin
          /\ n.pods = IF network.pods = Nil THEN ListOf(podIPRange) ELSE network.pods
          /\ n.services = IF network.services = Nil THEN range ELSE network.services
      BY <1>2, CallerFacts DEF Completed, Network
    <2>5. PluginOf(c) # "generic" /\ c.plugins[PluginOf(c)].there # "malformed"
      BY <2>1 DEF Suits, Plugins
    <2>6. ToDiscover(c) =
             [plugin   |-> PluginOf(c),
              pods     |-> IF Own(c).pods = Nil THEN ListOf(GenericPods(c)) ELSE Own(c).pods,
              services |-> IF Own(c).services = Nil THEN GenericServices(c) ELSE Own(c).services]
      BY <1>2, <2>2, <2>5 DEF ToDiscover
    <2> HIDE DEF n
    <2>7. /\ n.plugin = PluginOf(c)
          /\ n.pods = IF Own(c).pods = Nil THEN ListOf(GenericPods(c)) ELSE Own(c).pods
          /\ n.services = IF Own(c).services = Nil THEN GenericServices(c) ELSE Own(c).services
      BY <2>1, <2>2, <2>3, <2>4 DEF Suits
    <2>8. n = ToDiscover(c)
      BY <2>4, <2>6, <2>7 DEF Network
    <2> QED BY <1>1, <1>2, <1>5, <2>4, <2>8, Return_Keeps DEF n
  <1>6. CASE /\ caller = "generic"
             /\ Return([plugin |-> "generic", pods |-> ListOf(podIPRange), services |-> range])
    <2> DEFINE n == [plugin |-> "generic", pods |-> ListOf(podIPRange), services |-> range]
    <2>1. n \in Network
      BY <1>2, CallerFacts DEF Network
    <2>2. PluginOf(cluster) = "generic"
      BY <1>6 DEF IInv, PluginKnown
    <2>3. n = ToDiscover(cluster)
      BY <1>2, <1>6, <2>2, CallerFacts DEF ToDiscover
    <2> HIDE DEF n
    <2> QED BY <1>1, <1>2, <1>6, <2>1, <2>3, Return_Keeps DEF n
  <1> QED BY <1>3, <1>4, <1>5, <1>6 DEF UseClusterIPRange

\* Without the services' CIDR there is nothing to discover, where it is asked for.
LEMMA NothingToDiscover ==
    ASSUME IInv, pc \in ServiceSources, ~ failed, GenericServices(cluster) = Blank
    PROVE  ToDiscover(cluster) = NoNetwork
  <1>1. caller \in {"weave", "canal", "calico", "completion", "generic"}
    BY CallerFacts DEF IInv, TypeOK
  <1>2. ~ IsComplete(Own(cluster))
    <2>1. CASE caller # "completion"
      BY <1>1, <2>1, CallerFacts DEF IsComplete
    <2>2. CASE caller = "completion"
      <3>1. ~ IsComplete(network) /\ Suits(network, cluster)
        BY <2>2 DEF IInv, PluginKnown, Views
      <3> QED BY <3>1 DEF Suits, IsComplete
    <2> QED BY <2>1, <2>2
  <1> QED BY <1>2 DEF ToDiscover

LEMMA UseError_Keeps ==
    ASSUME IInv, pc \in ServiceSources, UseError, Kept,
           failed' \/ (~ failed /\ GenericServices(cluster) = Blank)
    PROVE  IInv'
  <1>1. cluster \in Views' /\ TypeOK
    BY DEF Kept, Views, IInv
  <1>2. CASE caller = "weave"
    BY <1>1, <1>2, CallerFacts, Complete_Keeps DEF UseError
  <1>3. CASE caller # "weave"
    <2>1. Return(NoNetwork)
      BY <1>3 DEF UseError
    <2>2. failed' \/ ToDiscover(cluster) = NoNetwork
      BY <1>3, NothingToDiscover
    <2> QED BY <1>1, <2>1, <2>2, NoNetworkType, Return_Keeps
  <1> QED BY <1>2, <1>3

LEMMA Apiserver_Step ==
    ASSUME IInv, FindClusterIPRangeFromApiserver
    PROVE  IInv'
  <1>1. /\ pc = "apiserver" /\ pc \in ServiceSources /\ Source # Separate /\ TypeOK
        /\ Kept /\ UNCHANGED <<cluster, invalidSvc, failed, faults>>
    BY Unread_Kept DEF FindClusterIPRangeFromApiserver, ServiceSources, IInv, Unread
  <1>2. CASE Source # Blank
    <2>1. UseClusterIPRange(Source)
      BY <1>2 DEF FindClusterIPRangeFromApiserver
    <2>2. Source \in CIDRs /\ Source = GenericServices(cluster)
      BY <1>1, <1>2, SourceType DEF GenericServices, FirstOf
    <2> QED BY <1>1, <2>1, <2>2, UseClusterIPRange_Keeps
  <1>3. CASE Source = Blank
    <2>1. pc' = "createService" /\ UNCHANGED <<caller, network, podIPRange>>
      BY <1>3 DEF FindClusterIPRangeFromApiserver
    <2>2. cluster.sources.apiserver = Blank
      BY <1>1, <1>3, SourceType
    <2>3. TypeOK'
      BY <1>1, <2>1 DEF TypeOK, ServiceSources
    <2>4. Searching' /\ DiscoversWhatIsThere'
      BY <2>1 DEF Searching, DiscoversWhatIsThere, Plugins
    <2>5. PluginKnown'
      BY <1>1, <2>1 DEF IInv, PluginKnown, ServiceSources, Views, Found
    <2>6. SourcesRead'
      BY <1>1, <2>1, <2>2 DEF IInv, SourcesRead, ServiceSources, GenericPods
    <2> QED BY <2>3, <2>4, <2>5, <2>6 DEF IInv
  <1> QED BY <1>2, <1>3

LEMMA ServiceCreation_Step ==
    ASSUME IInv, FindClusterIPRangeFromServiceCreation
    PROVE  IInv'
  <1>1. /\ pc = "createService" /\ pc \in ServiceSources /\ TypeOK
        /\ UNCHANGED <<cluster, failed, faults>>
        /\ cluster.sources.apiserver = Blank
    BY DEF FindClusterIPRangeFromServiceCreation, ServiceSources, IInv, SourcesRead
  <1>2. /\ Kept
        /\ Source # Blank => UseClusterIPRange(Source)
        /\ Source = Blank => UseError
    BY <1>1 DEF FindClusterIPRangeFromServiceCreation, Kept, TypeOK
  <1>3. Source \in CIDRs \cup {Blank} /\ Source = GenericServices(cluster)
    BY <1>1, SourceType DEF GenericServices, FirstOf, Arguments
  <1>4. CASE Source # Blank
    BY <1>1, <1>2, <1>3, <1>4, UseClusterIPRange_Keeps
  <1>5. CASE Source = Blank
    BY <1>1, <1>2, <1>3, <1>5, UseError_Keeps DEF TypeOK
  <1> QED BY <1>4, <1>5

-----------------------------------------------------------------------------
\* Failed reads, and the join.

LEMMA ReadFails_Step ==
    ASSUME IInv, ReadFails
    PROVE  IInv'
  <1>1. Kept /\ failed' /\ TypeOK
    BY ConstantsAssumption DEF ReadFails, Kept, IInv, TypeOK
  <1>2. CASE Return(NoNetwork)
    BY <1>1, <1>2, NoNetworkType, Return_Keeps
  <1>3. CASE /\ pc = "ovnConfig"
             /\ DiscoverNetwork("completion")
             /\ network' = [NoNetwork EXCEPT !.plugin = "ovn"]
    <2> DEFINE n == [NoNetwork EXCEPT !.plugin = "ovn"]
    <2>1. n \in Network /\ n.plugin = "ovn" /\ n.pods = Nil /\ n.services = Nil
      BY DEF NoNetwork, Network, Plugins, Lists
    <2> HIDE DEF n
    <2>2. WithoutOvnConfig(cluster) \in Views'
      BY <1>1 DEF Views, Kept
    <2>3. PluginOf(cluster) = "ovn" /\ Found("ovn").there = "yes"
      BY <1>3 DEF IInv, PluginKnown
    <2>4. Suits(n, WithoutOvnConfig(cluster))
      BY <1>1, <2>1, <2>3, WithoutOvnConfigIs DEF Suits, Own, Found, Plugins, TypeOK
    <2>5. ~ IsComplete(n)
      BY <2>1 DEF IsComplete
    <2> QED BY <1>1, <1>3, <2>1, <2>2, <2>4, <2>5, Completion_Keeps DEF n
  <1>4. CASE pc \in ServiceSources /\ UseError
    BY <1>1, <1>4, UseError_Keeps
  <1> QED BY <1>2, <1>3, <1>4 DEF ReadFails

LEMMA JoinGoesOn_Step ==
    ASSUME IInv, JoinGoesOn
    PROVE  IInv'
  <1>1. /\ pc = "discovered" /\ pc' = "determined"
        /\ UNCHANGED <<cluster, caller, network, podIPRange, invalidSvc, failed, faults>>
    BY DEF JoinGoesOn
  <1>2. TypeOK'
    BY <1>1 DEF IInv, TypeOK
  <1>3. Searching' /\ PluginKnown' /\ SourcesRead' /\ DiscoversWhatIsThere'
    BY <1>1 DEF IInv, Searching, PluginKnown, SourcesRead, DiscoversWhatIsThere, Plugins,
                PodSources, ServiceSources
  <1> QED BY <1>2, <1>3 DEF IInv

LEMMA InitInv == Init => IInv
  <1> SUFFICES ASSUME Init PROVE IInv
    OBVIOUS
  <1>1. TypeOK
    <2>1. network \in Network
      BY NoNetworkType DEF Init
    <2>2. faults \in 0 .. MaxFaults
      BY ConstantsAssumption DEF Init
    <2> QED BY <2>1, <2>2 DEF Init, TypeOK, Network, Plugins
  <1>2. Searching
    BY DEF Init, Searching, Before
  <1>3. PluginKnown /\ SourcesRead /\ DiscoversWhatIsThere
    BY DEF Init, PluginKnown, SourcesRead, DiscoversWhatIsThere, PodSources, ServiceSources
  <1> QED BY <1>1, <1>2, <1>3 DEF IInv

LEMMA NextInv == IInv /\ [Next]_vars => IInv'
  <1> SUFFICES ASSUME IInv, [Next]_vars PROVE IInv'
    OBVIOUS
  <1>1. CASE DiscoverOpenShift4Network
    BY <1>1, OpenShift_Step
  <1>2. CASE DiscoverWeaveNetwork \/ DiscoverCanalFlannelNetwork
    BY <1>2, AskForServices_Step DEF DiscoverWeaveNetwork, DiscoverCanalFlannelNetwork
  <1>3. CASE DiscoverOvnKubernetesNetwork
    BY <1>3, Ovn_Step
  <1>4. CASE FindOvnService
    BY <1>4, FindOvnService_Step
  <1>5. CASE ReadOvnConfig
    BY <1>5, ReadOvnConfig_Step
  <1>6. CASE DiscoverCalicoNetwork
    BY <1>6, Calico_Step
  <1>7. CASE FindPodIPRange
    BY <1>7, FindPodIPRange_Step
  <1>8. CASE FindClusterIPRangeFromApiserver
    BY <1>8, Apiserver_Step
  <1>9. CASE FindClusterIPRangeFromServiceCreation
    BY <1>9, ServiceCreation_Step
  <1>10. CASE Panic \/ ReconcileAgain
    BY <1>10, Begin_Keeps DEF Panic, ReconcileAgain, IInv
  <1>11. CASE ReadFails
    BY <1>11, ReadFails_Step
  <1>12. CASE JoinGoesOn
    BY <1>12, JoinGoesOn_Step
  <1>13. CASE UNCHANGED vars
    BY <1>13 DEF vars, IInv, TypeOK, Searching, PluginKnown, SourcesRead, DiscoversWhatIsThere,
                 Found, Views
  <1> QED
    BY <1>1, <1>2, <1>3, <1>4, <1>5, <1>6, <1>7, <1>8, <1>9, <1>10, <1>11, <1>12, <1>13
    DEF Next, GetNetworkDetails, AtRest

LEMMA Invariance == Spec => []IInv
  BY InitInv, NextInv, PTL DEF Spec

-----------------------------------------------------------------------------
\* The theorems.

\* The discovery of any cluster keeps its types: a list of CIDRs is never an
\* argument that could not be split (network.go, pods.go).
THEOREM TypeCorrect == Spec => []TypeOK
  BY Invariance, PTL DEF IInv

\* A discovery finds what there is, or, when reads have failed, nothing, and
\* never a mixture of two plug-ins (network.go:63-131).
THEOREM DiscoveryFindsWhatIsThere == Spec => []DiscoversWhatIsThere
  BY Invariance, PTL DEF IInv

-----------------------------------------------------------------------------
(***************************************************************************)
(* No read leads back to an earlier one.                                   *)
(***************************************************************************)

Reads == Plugins \cup {"ovnService", "ovnConfig"} \cup PodSources \cup ServiceSources

Onward ==
    /\ pc' \in DOMAIN Position \ {"openshift"} => pc \in DOMAIN Position /\ Progress < Progress'
    /\ pc' = "openshift" => pc = "discovered" \/ (pc \in Arguments /\ Source = Separate)

LEMMA PositionFacts ==
    /\ DOMAIN Position = Reads /\ \A r \in Reads : Position[r] \in 1 .. 12
    /\ Position["openshift"] = 1 /\ Position["weave"] = 2 /\ Position["canal"] = 3
    /\ Position["ovn"] = 4 /\ Position["ovnService"] = 5 /\ Position["ovnConfig"] = 6
    /\ Position["calico"] = 7 /\ Position["controllerManager"] = 8
    /\ Position["kubeProxy"] = 9 /\ Position["nodes"] = 10
    /\ Position["apiserver"] = 11 /\ Position["createService"] = 12
    /\ "discovered" \notin Reads /\ "determined" \notin Reads
  BY DEF Position, Reads, Plugins, PodSources, ServiceSources

LEMMA ReturnsOnward ==
    ASSUME NEW n, Return(n)
    PROVE  Onward
  BY PositionFacts DEF Return, Onward

\* The next read is a later one for the same caller, or for one before the
\* completion.
LEMMA LaterOnward ==
    ASSUME pc \in Reads, pc' \in Reads, Position[pc] < Position[pc'],
           caller' = caller \/ (caller # "completion" /\ caller' # "completion")
    PROVE  Onward
  BY PositionFacts DEF Onward, Progress

\* A completion comes once, after everything else.
LEMMA CompletionOnward ==
    ASSUME pc \in Reads, caller # "completion", DiscoverNetwork("completion")
    PROVE  Onward
  <1>1. pc' = "controllerManager" /\ caller' = "completion"
    BY DEF DiscoverNetwork
  <1>2. Position[pc] \in 1 .. 12 /\ Position[pc'] = 8 /\ pc' # "openshift"
    BY <1>1, PositionFacts
  <1>3. Progress < Progress'
    BY <1>1, <1>2 DEF Progress
  <1> QED BY <1>1, <1>3, PositionFacts DEF Onward

LEMMA CompleteOnward ==
    ASSUME pc \in Reads, caller # "completion", NEW n, Complete(n)
    PROVE  Onward
  BY ReturnsOnward, CompletionOnward DEF Complete

LEMMA NotFoundOnward ==
    ASSUME IInv, NEW p \in Plugins, pc = p, NotFound(p)
    PROVE  Onward
  <1>1. /\ pc' = NextPlugin[p] /\ caller' # "completion" /\ caller = "none"
    BY DEF NotFound, IInv, PluginKnown, Plugins, PodSources, ServiceSources
  <1>2. NextPlugin[p] \in Reads /\ Position[p] < Position[NextPlugin[p]]
    BY PositionFacts DEF NextPlugin, Plugins, Reads, PodSources
  <1> QED BY <1>1, <1>2, LaterOnward DEF Reads

LEMMA UseClusterIPRangeOnward ==
    ASSUME pc \in Reads, NEW range, UseClusterIPRange(range)
    PROVE  Onward
  BY CompleteOnward, ReturnsOnward DEF UseClusterIPRange

LEMMA UseErrorOnward ==
    ASSUME pc \in Reads, UseError
    PROVE  Onward
  BY CompleteOnward, ReturnsOnward DEF UseError

LEMMA NextOnward ==
    ASSUME IInv, Next
    PROVE  Onward \/ UNCHANGED vars
  <1>1. CASE DiscoverOpenShift4Network
    <2>1. pc = "openshift" /\ caller = "none"
      BY <1>1 DEF DiscoverOpenShift4Network, IInv, PluginKnown, PodSources, ServiceSources
    <2>2. pc \in Reads /\ pc \in Plugins
      BY <2>1 DEF Reads, Plugins
    <2> QED BY <1>1, <2>1, <2>2, NotFoundOnward, ReturnsOnward, CompleteOnward
            DEF DiscoverOpenShift4Network
  <1>2. ASSUME NEW p \in {"weave", "canal"}, AskForServices(p) PROVE Onward
    <2>1. p \in Plugins /\ pc = p /\ p \in Reads /\ "apiserver" \in Reads
      BY <1>2 DEF AskForServices, Plugins, Reads, ServiceSources
    <2>2. CASE NotFound(p)
      BY <2>1, <2>2, NotFoundOnward
    <2>3. CASE caller' = p /\ pc' = "apiserver"
      <3>1. caller # "completion"
        BY <2>1 DEF IInv, PluginKnown, PodSources, ServiceSources
      <3>2. Position[pc] < Position[pc']
        BY <2>1, <2>3, PositionFacts
      <3> QED BY <2>1, <2>3, <3>1, <3>2, LaterOnward
    <2> QED BY <1>2, <2>2, <2>3 DEF AskForServices
  <1>3. CASE DiscoverOvnKubernetesNetwork
    <2>1. pc = "ovn" /\ pc \in Plugins
      BY <1>3 DEF DiscoverOvnKubernetesNetwork, Plugins
    <2>2. CASE NotFound("ovn")
      BY <2>1, <2>2, NotFoundOnward
    <2>3. CASE pc' = "ovnService" /\ caller' = caller
      BY <2>1, <2>3, LaterOnward, PositionFacts DEF Reads
    <2> QED BY <1>3, <2>2, <2>3 DEF DiscoverOvnKubernetesNetwork
  <1>4. CASE FindOvnService
    <2>1. pc = "ovnService"
      BY <1>4 DEF FindOvnService
    <2>2. CASE Return(NoNetwork)
      BY <2>2, ReturnsOnward
    <2>3. CASE pc' = "ovnConfig" /\ caller' = caller
      BY <2>1, <2>3, LaterOnward, PositionFacts DEF Reads
    <2> QED BY <1>4, <2>2, <2>3 DEF FindOvnService
  <1>5. CASE ReadOvnConfig
    <2>1. pc = "ovnConfig" /\ caller = "none" /\ pc \in Reads
      BY <1>5 DEF ReadOvnConfig, IInv, PluginKnown, PodSources, ServiceSources, Reads
    <2> QED BY <1>5, <2>1, CompleteOnward DEF ReadOvnConfig
  <1>6. CASE DiscoverCalicoNetwork
    <2>1. pc = "calico" /\ pc \in Plugins /\ caller = "none"
      BY <1>6 DEF DiscoverCalicoNetwork, IInv, PluginKnown, Plugins, PodSources, ServiceSources
    <2>2. CASE NotFound("calico")
      BY <2>1, <2>2, NotFoundOnward
    <2>3. CASE DiscoverNetwork("calico")
      BY <2>1, <2>3, LaterOnward, PositionFacts DEF DiscoverNetwork, Reads, PodSources
    <2> QED BY <1>6, <2>2, <2>3 DEF DiscoverCalicoNetwork
  <1>7. CASE FindPodIPRange
    <2>1. /\ pc \in PodSources /\ caller' = caller
          /\ pc' \in {"apiserver", NextPodSource[pc]}
      BY <1>7 DEF FindPodIPRange
    <2>2. pc' \in Reads /\ Position[pc] < Position[pc']
      BY <2>1, PositionFacts DEF NextPodSource, PodSources, Reads, ServiceSources
    <2> QED BY <2>1, <2>2, LaterOnward DEF Reads
  <1>8. CASE FindClusterIPRangeFromApiserver
    <2>1. pc = "apiserver" /\ pc \in Reads
      BY <1>8 DEF FindClusterIPRangeFromApiserver, Reads, ServiceSources
    <2>2. CASE UseClusterIPRange(Source)
      BY <2>1, <2>2, UseClusterIPRangeOnward
    <2>3. CASE pc' = "createService" /\ caller' = caller
      BY <2>1, <2>3, LaterOnward, PositionFacts DEF Reads, ServiceSources
    <2> QED BY <1>8, <2>2, <2>3 DEF FindClusterIPRangeFromApiserver
  <1>9. CASE FindClusterIPRangeFromServiceCreation
    <2>1. pc \in Reads
      BY <1>9 DEF FindClusterIPRangeFromServiceCreation, Reads, ServiceSources
    <2> QED BY <1>9, <2>1, UseClusterIPRangeOnward, UseErrorOnward
            DEF FindClusterIPRangeFromServiceCreation
  <1>10. CASE Panic \/ ReconcileAgain
    BY <1>10, PositionFacts DEF Panic, ReconcileAgain, Begin, Onward
  <1>11. CASE ReadFails
    <2>1. CASE Return(NoNetwork)
      BY <2>1, ReturnsOnward
    <2>2. CASE pc = "ovnConfig" /\ DiscoverNetwork("completion")
      <3>1. caller = "none" /\ pc \in Reads
        BY <2>2 DEF IInv, PluginKnown, PodSources, ServiceSources, Reads
      <3> QED BY <2>2, <3>1, CompletionOnward
    <2>3. CASE pc \in ServiceSources /\ UseError
      BY <2>3, UseErrorOnward DEF Reads
    <2> QED BY <1>11, <2>1, <2>2, <2>3 DEF ReadFails
  <1>12. CASE JoinGoesOn
    BY <1>12, PositionFacts DEF JoinGoesOn, Onward
  <1> QED
    BY <1>1, <1>2, <1>3, <1>4, <1>5, <1>6, <1>7, <1>8, <1>9, <1>10, <1>11, <1>12
    DEF Next, GetNetworkDetails, AtRest, DiscoverWeaveNetwork, DiscoverCanalFlannelNetwork

\* A discovery of any cluster ends after at most 24 reads, whatever they answer
\* (network.go:65-129, calico.go:27-57, generic.go:34-88).
THEOREM DiscoveryEnds == Spec => ReadsOnward
  <1>1. IInv /\ [Next]_vars => [Onward]_vars
    BY NextOnward
  <1> QED BY <1>1, Invariance, PTL DEF Spec, ReadsOnward, Onward

\* A discovery none of whose reads has failed lets the join go on exactly where
\* the CIDRs are given or there to be discovered: there is nothing a repetition
\* would find in addition (join_broker.go:109-123, 223-262).
THEOREM DeterminedIfDeterminable ==
    Spec => [](pc = "discovered" /\ ~ failed => (Determined <=> Determinable))
  <1>1. IInv => (pc = "discovered" /\ ~ failed => (Determined <=> Determinable))
    BY DEF IInv, DiscoversWhatIsThere, Determined, Determinable
  <1> QED BY <1>1, Invariance, PTL
=============================================================================
