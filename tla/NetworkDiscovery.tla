-------------------------- MODULE NetworkDiscovery --------------------------
(***************************************************************************)
(* What a join learns of the network of its cluster.                       *)
(*                                                                         *)
(* The network plug-ins are looked for one after the other, and the first  *)
(* one that is found is asked for the CIDRs of the pods and the services.  *)
(* Those it does not give come from the generic discovery: the arguments   *)
(* of the control plane's pods, the nodes, and the API server's refusal of *)
(* a Service with an invalid address.  Every read may fail.  A failed      *)
(* discovery is no error of the join, which goes on if the user gives the  *)
(* CIDRs, and is repeated otherwise.                                       *)
(***************************************************************************)
EXTENDS Naturals

CONSTANTS
    CIDRs,
    Nil,            \* an empty list of CIDRs
    Blank,          \* the empty string: what a source knows nothing of
    Separate,       \* an argument of a command whose value is not behind a "="
    Clusters,       \* what there is to be discovered
    MaxFaults       \* bound: reads that fail

\* A list of CIDRs is empty, or its first element counts.
Lists == CIDRs \cup {Blank, Nil}

\* A plug-in: it is there, or not, or there and not as expected.
Evidence == [there : {"yes", "no", "malformed"}, pods : Lists, services : Lists]

Plugins == {"openshift", "weave", "canal", "ovn", "calico"}

Arguments == {"controllerManager", "kubeProxy", "apiserver"}

\* Where the generic discovery looks for the CIDR of the pods, and of services.
PodSources == {"controllerManager", "kubeProxy", "nodes"}
ServiceSources == {"apiserver", "createService"}

Cluster ==
    [plugins : [Plugins -> Evidence],
     sources : [PodSources \cup ServiceSources -> CIDRs \cup {Blank, Separate}],
     given   : [pods : CIDRs \cup {Blank}, services : CIDRs \cup {Blank}]]

\* OpenShift and OVN are what can be malformed; Weave and Canal are there when
\* they give a CIDR.
WellFormed(c) ==
    /\ \A p \in Plugins : c.plugins[p].there = "malformed" => p \in {"openshift", "ovn"}
    /\ \A p \in {"weave", "canal"} : c.plugins[p].there = "yes" => c.plugins[p].pods # Nil
    /\ \A s \in DOMAIN c.sources : c.sources[s] = Separate => s \in Arguments

ASSUME ConstantsAssumption ==
    /\ Nil \notin CIDRs /\ Blank \notin CIDRs /\ Separate \notin CIDRs
    /\ Nil # Blank /\ Nil # Separate /\ Blank # Separate
    /\ Clusters \subseteq Cluster
    /\ \A c \in Clusters : WellFormed(c)
    /\ MaxFaults \in Nat

VARIABLES
    cluster,        \* the cluster, and the CIDRs its user gives
    pc,             \* what is read next
    caller,         \* for which part of the discovery a source is asked
    network,        \* the network of the plug-in, then what has been discovered
    podIPRange,     \* of the generic discovery
    invalidSvc,     \* the Service that should have been refused exists
    failed,         \* a read of this discovery has failed
    faults

vars == <<cluster, pc, caller, network, podIPRange, invalidSvc, failed, faults>>

NoNetwork == [plugin |-> "none", pods |-> Nil, services |-> Nil]

Begin ==
    /\ pc' = "openshift"
    /\ caller' = "none"
    /\ network' = NoNetwork
    /\ podIPRange' = Blank
    /\ failed' = FALSE

Init ==
    /\ cluster \in Clusters
    /\ pc = "openshift" /\ caller = "none"
    /\ network = NoNetwork /\ podIPRange = Blank
    /\ invalidSvc = FALSE /\ failed = FALSE
    /\ faults = 0

-----------------------------------------------------------------------------
IsComplete(n) == n.pods # Nil /\ n.services # Nil

\* The order of networkPluginsDiscovery.
NextPlugin ==
    [openshift |-> "weave", weave |-> "canal", canal |-> "ovn", ovn |-> "calico",
     calico |-> "controllerManager"]

Found(plugin) == cluster.plugins[plugin]

\* discoverNetwork begins: for Calico, to complete what a plug-in has given, or
\* because there is no plug-in.
DiscoverNetwork(for) ==
    /\ pc' = "controllerManager"
    /\ caller' = for
    /\ podIPRange' = Blank

\* Discover returns.
Return(n) ==
    /\ pc' = "discovered"
    /\ network' = n
    /\ caller' = "none"
    /\ podIPRange' = Blank

\* A plug-in has been found: what is missing is left to the generic discovery.
Complete(n) ==
    IF IsComplete(n) THEN Return(n) ELSE DiscoverNetwork("completion") /\ network' = n

\* Nothing of this plug-in: the next one is looked for.
NotFound(plugin) ==
    /\ Found(plugin).there = "no"
    /\ pc' = NextPlugin[plugin]
    /\ caller' = IF plugin = "calico" THEN "generic" ELSE "none"
    /\ UNCHANGED <<network, podIPRange>>

Unread == UNCHANGED <<cluster, invalidSvc, failed, faults>>

\* The plug-in's resource says all it knows of the network; a field that is
\* missing is an error.
DiscoverOpenShift4Network ==
    /\ pc = "openshift"
    /\ \/ NotFound("openshift")
       \/ Found("openshift").there = "malformed" /\ Return(NoNetwork)
       \/ /\ Found("openshift").there = "yes"
          /\ Complete([plugin |-> "openshift", pods |-> Found("openshift").pods,
                       services |-> Found("openshift").services])
    /\ Unread

\* Faulty variant: what the plug-in does not know is not looked for.
AskForPodsOnly(plugin) ==
    /\ pc = plugin
    /\ \/ NotFound(plugin)
       \/ /\ Found(plugin).there = "yes"
          /\ Return([plugin |-> plugin, pods |-> Found(plugin).pods, services |-> Nil])
    /\ Unread

\* Weave and Canal say what the pods' CIDR is, and findClusterIPRange what the
\* services' is.
AskForServices(plugin) ==
    /\ pc = plugin
    /\ \/ NotFound(plugin)
       \/ /\ Found(plugin).there = "yes"
          /\ network' = [plugin |-> plugin, pods |-> Found(plugin).pods, services |-> Nil]
          /\ caller' = plugin
          /\ pc' = "apiserver"
          /\ UNCHANGED podIPRange
    /\ Unread

DiscoverWeaveNetwork == AskForServices("weave")

DiscoverCanalFlannelNetwork == AskForServices("canal")

\* The database's pod, its Service, which has to be there, and a ConfigMap, which
\* need not.
DiscoverOvnKubernetesNetwork ==
    /\ pc = "ovn"
    /\ \/ NotFound("ovn")
       \/ Found("ovn").there # "no" /\ pc' = "ovnService" /\ UNCHANGED <<network, caller, podIPRange>>
    /\ Unread

FindOvnService ==
    /\ pc = "ovnService"
    /\ IF Found("ovn").there = "malformed"
       THEN Return(NoNetwork)
       ELSE pc' = "ovnConfig" /\ UNCHANGED <<network, caller, podIPRange>>
    /\ Unread

ReadOvnConfig ==
    /\ pc = "ovnConfig"
    /\ Complete([plugin |-> "ovn", pods |-> Found("ovn").pods, services |-> Found("ovn").services])
    /\ Unread

DiscoverCalicoNetwork ==
    /\ pc = "calico"
    /\ \/ NotFound("calico")
       \/ Found("calico").there = "yes" /\ DiscoverNetwork("calico") /\ UNCHANGED network
    /\ Unread

-----------------------------------------------------------------------------
\* The generic discovery.

Source == cluster.sources[pc]

\* Faulty variant: the nodes are not asked.
NextPodSourceShort ==
    [controllerManager |-> "kubeProxy", kubeProxy |-> "apiserver", nodes |-> "apiserver"]

\* The order of findPodIPRange; findClusterIPRange follows.
NextPodSource ==
    [controllerManager |-> "kubeProxy", kubeProxy |-> "nodes", nodes |-> "apiserver"]

\* Faulty variant: an argument is taken as it is.
FindPodIPRangeUnchecked ==
    /\ pc \in PodSources
    /\ podIPRange' = Source
    /\ pc' = IF Source # Blank THEN "apiserver" ELSE NextPodSource[pc]
    /\ UNCHANGED <<caller, network>>
    /\ Unread

FindPodIPRange ==
    /\ pc \in PodSources
    /\ Source # Separate
    /\ podIPRange' = Source
    /\ pc' = IF Source # Blank THEN "apiserver" ELSE NextPodSource[pc]
    /\ UNCHANGED <<caller, network>>
    /\ Unread

\* A list without the empty string.
ListOf(cidr) == IF cidr = Blank THEN Nil ELSE cidr

\* Faulty variant: the generic discovery overrides the plug-in.
CompletedOver(range) == [network EXCEPT !.pods = ListOf(podIPRange), !.services = range]

\* What Discover completes the plug-in's network to.
Completed(range) ==
    [network EXCEPT !.pods = IF @ = Nil THEN ListOf(podIPRange) ELSE @,
                    !.services = IF @ = Nil THEN range ELSE @]

\* Faulty variant: what the completion has not found is looked for once more.
UseClusterIPRangeAgain(range) ==
    \/ caller \in {"weave", "canal"} /\ Complete([network EXCEPT !.services = range])
    \/ /\ caller = "calico"
       /\ Complete([plugin |-> "calico", pods |-> ListOf(podIPRange), services |-> range])
    \/ caller = "completion" /\ Complete(Completed(range))
    \/ /\ caller = "generic"
       /\ Return([plugin |-> "generic", pods |-> ListOf(podIPRange), services |-> range])

\* findClusterIPRange has returned a CIDR.
UseClusterIPRange(range) ==
    \/ caller \in {"weave", "canal"} /\ Complete([network EXCEPT !.services = range])
    \/ /\ caller = "calico"
       /\ Complete([plugin |-> "calico", pods |-> ListOf(podIPRange), services |-> range])
    \/ caller = "completion" /\ Return(Completed(range))
    \/ /\ caller = "generic"
       /\ Return([plugin |-> "generic", pods |-> ListOf(podIPRange), services |-> range])

\* It has returned an error, which the discovery of Weave alone survives.
UseError ==
    IF caller = "weave" THEN Complete(network) ELSE Return(NoNetwork)

FindClusterIPRangeFromApiserver ==
    /\ pc = "apiserver"
    /\ Source # Separate
    /\ IF Source # Blank
       THEN UseClusterIPRange(Source)
       ELSE pc' = "createService" /\ UNCHANGED <<caller, network, podIPRange>>
    /\ Unread

\* The Service is refused, in words that name the range; or in other words, for
\* one because an earlier discovery has left it there; or it is accepted, and stays.
FindClusterIPRangeFromServiceCreation ==
    /\ pc = "createService"
    /\ IF Source # Blank
       THEN UseClusterIPRange(Source) /\ UNCHANGED invalidSvc
       ELSE UseError /\ invalidSvc' \in {invalidSvc, TRUE}
    /\ UNCHANGED <<cluster, failed, faults>>

\* strings.Split(arg, "=")[1] is out of range: the operator is started again.
Panic ==
    /\ pc \in Arguments
    /\ Source = Separate
    /\ Begin
    /\ UNCHANGED <<cluster, invalidSvc, faults>>

-----------------------------------------------------------------------------
\* A read fails.  The ConfigMap of OVN is then taken to be absent.
ReadFails ==
    /\ faults < MaxFaults
    /\ faults' = faults + 1
    /\ failed' = TRUE
    /\ \/ /\ pc \in Plugins \cup {"ovnService"} \cup PodSources
          /\ Return(NoNetwork)
       \/ /\ pc = "ovnConfig"
          /\ DiscoverNetwork("completion")
          /\ network' = [NoNetwork EXCEPT !.plugin = "ovn"]
       \/ pc \in ServiceSources /\ UseError
    /\ UNCHANGED <<cluster, invalidSvc>>

\* getServiceCIDR and getPodCIDR: the CIDR the user gives, or else the one that
\* has been discovered; without one the reconcile fails and is repeated.
Determined ==
    /\ cluster.given.services # Blank \/ network.services # Nil
    /\ cluster.given.pods # Blank \/ network.pods # Nil

JoinGoesOn ==
    /\ pc = "discovered"
    /\ Determined
    /\ pc' = "determined"
    /\ UNCHANGED <<cluster, caller, network, podIPRange, invalidSvc, failed, faults>>

ReconcileAgain ==
    /\ pc = "discovered"
    /\ ~ Determined
    /\ Begin
    /\ UNCHANGED <<cluster, invalidSvc, faults>>

GetNetworkDetails ==
    \/ DiscoverOpenShift4Network
    \/ DiscoverWeaveNetwork
    \/ DiscoverCanalFlannelNetwork
    \/ DiscoverOvnKubernetesNetwork
    \/ FindOvnService
    \/ ReadOvnConfig
    \/ DiscoverCalicoNetwork
    \/ FindPodIPRange
    \/ FindClusterIPRangeFromApiserver
    \/ FindClusterIPRangeFromServiceCreation
    \/ Panic

AtRest == pc = "determined" /\ UNCHANGED vars

Next ==
    \/ GetNetworkDetails
    \/ ReadFails
    \/ JoinGoesOn
    \/ ReconcileAgain
    \/ AtRest

Spec == Init /\ [][Next]_vars

\* Requests are answered, and a failed reconcile is repeated.
FairSpec == Spec /\ WF_vars(GetNetworkDetails \/ JoinGoesOn \/ ReconcileAgain)

-----------------------------------------------------------------------------
TypeOK ==
    /\ cluster \in Clusters
    /\ pc \in Plugins \cup {"ovnService", "ovnConfig"} \cup PodSources \cup ServiceSources
              \cup {"discovered", "determined"}
    /\ caller \in {"none", "weave", "canal", "calico", "completion", "generic"}
    /\ network \in [plugin : Plugins \cup {"generic", "none"}, pods : Lists, services : Lists]
    /\ podIPRange \in CIDRs \cup {Blank}
    /\ invalidSvc \in BOOLEAN /\ failed \in BOOLEAN
    /\ faults \in 0 .. MaxFaults

\* The first of some sources that knows a CIDR; the last one's word is final.
FirstOf(a, b) == IF a = Blank THEN b ELSE a

GenericPods(c) ==
    FirstOf(c.sources.controllerManager, FirstOf(c.sources.kubeProxy, c.sources.nodes))

GenericServices(c) == FirstOf(c.sources.apiserver, c.sources.createService)

\* A plug-in that is there while no plug-in that is preferred to it is.
Preference == <<"openshift", "weave", "canal", "ovn", "calico">>

Present(c) == {i \in 1 .. 5 : c.plugins[Preference[i]].there # "no"}

First(c) == CHOOSE i \in Present(c) : \A j \in Present(c) : i <= j

PluginOf(c) == IF Present(c) = {} THEN "generic" ELSE Preference[First(c)]

\* What the plug-in says itself.
Own(c) ==
    LET p == PluginOf(c)
    IN  [pods     |-> IF p \in {"generic", "calico"} THEN Nil ELSE c.plugins[p].pods,
         services |-> IF p \in {"openshift", "ovn"} THEN c.plugins[p].services ELSE Nil]

\* What there is to be discovered in a cluster: CIDRs of the preferred plug-in,
\* completed by the generic ones; nothing, if the plug-in is malformed or there is
\* no way to the services' CIDR where it is asked for.
ToDiscover(c) ==
    LET p == PluginOf(c)
        own == Own(c)
    IN  IF \/ p # "generic" /\ c.plugins[p].there = "malformed"
           \/ ~ IsComplete(own) /\ GenericServices(c) = Blank
        THEN NoNetwork
        ELSE [plugin   |-> p,
              pods     |-> IF own.pods = Nil THEN ListOf(GenericPods(c)) ELSE own.pods,
              services |-> IF own.services = Nil THEN GenericServices(c) ELSE own.services]

\* As it looks while the ConfigMap of OVN cannot be read.
WithoutOvnConfig(c) == [c EXCEPT !.plugins.ovn.pods = Nil, !.plugins.ovn.services = Nil]

\* A discovery with failed reads finds what there is, or nothing; it never mixes
\* the CIDRs of two plug-ins, or falls back on another one, because of a failure.
\* Only the ConfigMap of OVN is taken to be absent when it cannot be read
\* (network.go:63-131, weavenet.go:50-55, ovnkubernetes.go:72-84).
DiscoversWhatIsThere ==
    pc = "discovered" =>
        network \in IF ~ failed THEN {ToDiscover(cluster)}
                    ELSE {NoNetwork, ToDiscover(cluster), ToDiscover(WithoutOvnConfig(cluster))}

\* How far a discovery has come: it may ask the generic sources a second time, to
\* complete what the first time has given.
Position ==
    [openshift |-> 1, weave |-> 2, canal |-> 3, ovn |-> 4, ovnService |-> 5, ovnConfig |-> 6,
     calico |-> 7, controllerManager |-> 8, kubeProxy |-> 9, nodes |-> 10, apiserver |-> 11,
     createService |-> 12]

Progress == Position[pc] + (IF caller = "completion" THEN 12 ELSE 0)

\* A discovery ends, after no more than 24 reads, whatever they answer, although
\* the generic discovery is called for Calico, to complete a plug-in, and where
\* there is none: no read leads back to an earlier one.  It begins again only
\* when it is over, or when the operator has panicked (network.go:65-129,
\* calico.go:27-57, generic.go:34-88).
ReadsOnward ==
    [][ /\ pc' \in DOMAIN Position \ {"openshift"} =>
              pc \in DOMAIN Position /\ Progress < Progress'
        /\ pc' = "openshift" => pc = "discovered" \/ (pc \in Arguments /\ Source = Separate) ]_vars

\* The CIDRs the user does not give are there to be discovered.
Determinable ==
    /\ cluster.given.services # Blank \/ ToDiscover(cluster).services # Nil
    /\ cluster.given.pods # Blank \/ ToDiscover(cluster).pods # Nil

\* A join gets past the discovery if, for services and for pods, the user gives
\* the CIDR or there is one to be discovered, however often reads have failed and
\* whatever an earlier discovery has left behind; unless the operator panics
\* (join_broker.go:109-123, 223-262).
Determines ==
    (\A s \in Arguments : cluster.sources[s] # Separate) /\ Determinable
    => <>(pc = "determined")
=============================================================================
