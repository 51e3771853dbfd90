---------------------------- MODULE GlobalnetJoin ----------------------------
(***************************************************************************)
(* Clusters joining a broker that allocates global CIDRs.                  *)
(*                                                                         *)
(* The broker's operator keeps the ConfigMap submariner-globalnet-info:    *)
(* whether globalnet is enabled, the CIDR range, the default cluster size, *)
(* and the CIDRs recorded for the clusters.  Every joining cluster has an  *)
(* operator of its own, which reads that ConfigMap, picks a CIDR, records  *)
(* it under optimistic concurrency (the API server refuses an update whose *)
(* resourceVersion is not the current one), retries on a conflict, and     *)
(* then creates the local Submariner CR with it.                           *)
(*                                                                         *)
(* One action is one request to an API server with the local computation   *)
(* that follows it.  Between two of them any other operator may act, the   *)
(* request may fail or the operator may stop (Fail), or its answer may get *)
(* lost (UpdateAnswerLost); a reconcile that ends is started again.        *)
(***************************************************************************)
EXTENDS GlobalnetInfo

CONSTANTS
    Clusters,       \* the joining clusters
    BrokerConfigs,  \* values of spec.brokerConfig the broker is deployed with
    BrokerInfos,    \* contents of the submariner-broker-info ConfigMap
    RetrySteps,     \* attempts of retry.RetryOnConflict (5 in client-go)
    MaxDeploys,     \* bound: deployments of the broker that write the ConfigMap
    MaxFaults       \* bound: requests that fail, or whose answer is lost

BrokerInfo == [components : SUBSET {"connectivity", "service-discovery", "globalnet"},
               range : Block \cup {NoBlock}, size : Nat]

ASSUME ConstantsAssumption ==
    /\ BrokerConfigs \subseteq BrokerConfig
    /\ BrokerInfos \subseteq BrokerInfo
    /\ RetrySteps \in Nat \ {0}
    /\ MaxDeploys \in Nat
    /\ MaxFaults \in Nat

VARIABLES
    configMap,      \* submariner-globalnet-info on the broker
    rev,            \* its resourceVersion
    deploys, faults,
    info,           \* per cluster: the broker info it was given
    pc,             \* per cluster: the request its operator makes next
    copy,           \* per cluster: the ConfigMap as it read it, with its version
    cidr,           \* per cluster: netconfig.GlobalnetCIDR
    tries,          \* per cluster: attempts of the conflict retry that failed
    applied         \* per cluster: what the join has deployed

brokerVars  == <<configMap, rev, deploys>>
clusterVars == <<pc, copy, cidr, tries, applied>>
vars == <<brokerVars, faults, info, clusterVars>>

EmptyLedger == [c \in Clusters |-> NoBlock]

NoConfigMap == NoConfigMapData(EmptyLedger)

NoCopy == [rev |-> 0, map |-> NoConfigMap]

Nothing == [kind |-> "none", cidr |-> NoBlock]

Init ==
    /\ configMap = NoConfigMap
    /\ rev = 0
    /\ deploys = 0
    /\ faults = 0
    /\ info \in [Clusters -> BrokerInfos]
    /\ pc = [c \in Clusters |-> "idle"]
    /\ copy = [c \in Clusters |-> NoCopy]
    /\ cidr = [c \in Clusters |-> NoBlock]
    /\ tries = [c \in Clusters |-> 0]
    /\ applied = [c \in Clusters |-> Nothing]

-----------------------------------------------------------------------------
\* The broker.

ValidateExistingGlobalNetworks == ValidGlobalNetworks(configMap)

\* Faulty variant: the recorded CIDRs survive, whatever the new range is.
GeneralGlobalnetConfigMapKeeping(config) == ConfigMapData(config, configMap.clusters)

\* The data GeneralGlobalnetConfigMap gives the ConfigMap: no CIDR is recorded.
GeneralGlobalnetConfigMap(config) == ConfigMapData(config, EmptyLedger)

\* A reconcile of the broker up to CreateGlobalnetConfigMap.  One that does not
\* get so far, or whose CreateOrUpdate fails (its error is dropped) or reads a
\* stale cache, changes nothing the joining clusters see: it is a stuttering
\* step.  CreateOrUpdate sends no update when the data is already as wanted.
DeployBroker(config) ==
    /\ deploys < MaxDeploys
    /\ IsValidGlobalnetConfig(config)
    /\ config.enabled => ValidateExistingGlobalNetworks
    /\ deploys' = deploys + 1
    /\ configMap' = GeneralGlobalnetConfigMap(config)
    /\ rev' = IF configMap' = configMap THEN rev ELSE rev + 1
    /\ UNCHANGED <<faults, info, clusterVars>>

-----------------------------------------------------------------------------
\* A joining cluster.

\* The reconcile returns: its local variables are gone.
Return(c) ==
    /\ pc' = [pc EXCEPT ![c] = "idle"]
    /\ copy' = [copy EXCEPT ![c] = NoCopy]
    /\ cidr' = [cidr EXCEPT ![c] = NoBlock]
    /\ tries' = [tries EXCEPT ![c] = 0]

\* JoinSubmarinerCluster up to the globalnet discovery: netconfig takes the
\* CIDR and the size of the broker info.
StartJoin(c) ==
    /\ pc[c] = "idle"
    /\ pc' = [pc EXCEPT ![c] =
                 IF "globalnet" \in info[c].components THEN "read" ELSE "deploy"]
    /\ cidr' = [cidr EXCEPT ![c] = info[c].range]
    /\ UNCHANGED <<brokerVars, faults, info, copy, tries, applied>>

Others(c) == {configMap.clusters[d] : d \in Clusters \ {c}}

\* Faulty variant: a size that was not asked for is validated too.
OverridesSizeAlways(c) == info[c].size # configMap.size

\* The cluster asks for another size than the default of the ConfigMap.
OverridesSize(c) == info[c].size # 0 /\ info[c].size # configMap.size

\* The size ValidateGlobalnetConfiguration leaves in the globalnet info.  0: the
\* size asked for is invalid.
ValidatedSize(c) ==
    IF OverridesSize(c)
    THEN GetValidClusterSize(configMap.range, info[c].size)
    ELSE configMap.size

\* ValidateGlobalnetConfiguration reports no error.
ConfigurationValid(c) ==
    /\ configMap.enabled => ValidatedSize(c) # 0
    /\ ~ (cidr[c] # NoBlock /\ info[c].size # 0)

\* Faulty variant: a CIDR that netconfig already has is not checked again.
CheckOverlappingCidrsNever(c) == TRUE

CheckOverlappingCidrs(c) == \A o \in Others(c) \ {NoBlock} : ~ Overlapping(o, cidr[c])

\* AssignGlobalnetIPs: the CIDRs it can return, none when it fails.  A recorded
\* CIDR stays; without one, a CIDR that netconfig already has is taken if it
\* overlaps with no other cluster's, and a free one is allocated otherwise.
AssignGlobalnetIPs(c) ==
    IF configMap.clusters[c] # NoBlock
    THEN {configMap.clusters[c]}
    ELSE IF cidr[c] # NoBlock
    THEN {b \in {cidr[c]} : CheckOverlappingCidrs(c)}
    ELSE AllocateGlobalCIDR(configMap.range, Others(c) \ {NoBlock}, ValidatedSize(c))

\* One attempt of the closure of AllocateAndUpdateGlobalCIDRConfigMap, up to the
\* update: the ConfigMap is read, and one of four things follows.

ReadFails(c) ==
    /\ pc[c] = "read"
    /\ \/ ~ configMap.exists
       \/ ~ ConfigurationValid(c)
       \/ configMap.enabled /\ AssignGlobalnetIPs(c) = {}
    /\ Return(c)
    /\ UNCHANGED <<brokerVars, faults, info, applied>>

ReadDisabled(c) ==
    /\ pc[c] = "read"
    /\ configMap.exists /\ ConfigurationValid(c) /\ ~ configMap.enabled
    /\ cidr' = [cidr EXCEPT ![c] = NoBlock]
    /\ pc' = [pc EXCEPT ![c] = "deploy"]
    /\ UNCHANGED <<brokerVars, faults, info, copy, tries, applied>>

ReadRecorded(c) ==
    /\ pc[c] = "read"
    /\ configMap.exists /\ ConfigurationValid(c) /\ configMap.enabled
    /\ configMap.clusters[c] # NoBlock
    /\ \E b \in AssignGlobalnetIPs(c) : cidr' = [cidr EXCEPT ![c] = b]
    /\ pc' = [pc EXCEPT ![c] = "deploy"]
    /\ UNCHANGED <<brokerVars, faults, info, copy, tries, applied>>

ReadAssigns(c) ==
    /\ pc[c] = "read"
    /\ configMap.exists /\ ConfigurationValid(c) /\ configMap.enabled
    /\ configMap.clusters[c] = NoBlock
    /\ \E b \in AssignGlobalnetIPs(c) : cidr' = [cidr EXCEPT ![c] = b]
    /\ copy' = [copy EXCEPT ![c] = [rev |-> rev, map |-> configMap]]
    /\ pc' = [pc EXCEPT ![c] = "update"]
    /\ UNCHANGED <<brokerVars, faults, info, tries, applied>>

\* Faulty variant: the update does not carry the resourceVersion.
UpdateAcceptedBlindly(c) == TRUE

\* The API server's side of UpdateGlobalnetConfigMap: it stores the copy with
\* the cluster's entry added, if the copy has the current resourceVersion.
UpdateAccepted(c) == copy[c].rev = rev

StoreEntry(c) ==
    /\ configMap' = [copy[c].map EXCEPT !.clusters[c] = cidr[c]]
    /\ rev' = rev + 1
    /\ UNCHANGED deploys

UpdateGlobalnetConfigMap(c) ==
    /\ pc[c] = "update"
    /\ UpdateAccepted(c)
    /\ StoreEntry(c)
    /\ pc' = [pc EXCEPT ![c] = "deploy"]
    /\ copy' = [copy EXCEPT ![c] = NoCopy]
    /\ UNCHANGED <<faults, info, cidr, tries, applied>>

\* Faulty variant: one attempt too many.
MayRetryOnceMore(c) == tries[c] < RetrySteps

MayRetry(c) == tries[c] + 1 < RetrySteps

\* Faulty variant: the conflict is dropped, and the join goes on.
UpdateConflictDropped(c) ==
    /\ pc[c] = "update"
    /\ ~ UpdateAccepted(c)
    /\ pc' = [pc EXCEPT ![c] = "deploy"]
    /\ UNCHANGED <<brokerVars, faults, info, copy, cidr, tries, applied>>

\* The update is refused.  RetryOnConflict calls the closure again, with the
\* netconfig the refused attempt has left, or gives up.
UpdateConflict(c) ==
    /\ pc[c] = "update"
    /\ ~ UpdateAccepted(c)
    /\ IF MayRetry(c)
       THEN /\ tries' = [tries EXCEPT ![c] = @ + 1]
            /\ pc' = [pc EXCEPT ![c] = "read"]
            /\ copy' = [copy EXCEPT ![c] = NoCopy]
            /\ UNCHANGED cidr
       ELSE Return(c)
    /\ UNCHANGED <<brokerVars, faults, info, applied>>

\* The rest of JoinSubmarinerCluster: the Submariner CR, or the
\* ServiceDiscovery CR, or nothing, as the broker info's components say.
\* populateSubmarinerSpec falls back on the CIDR range of the broker info.
Deploy(c) ==
    /\ pc[c] = "deploy"
    /\ applied' = [applied EXCEPT ![c] =
          IF "connectivity" \in info[c].components
          THEN [kind |-> "submariner",
                cidr |-> IF cidr[c] # NoBlock THEN cidr[c] ELSE info[c].range]
          ELSE IF "service-discovery" \in info[c].components
          THEN [kind |-> "serviceDiscovery", cidr |-> NoBlock]
          ELSE @]
    /\ Return(c)
    /\ UNCHANGED <<brokerVars, faults, info>>

\* A request fails, or the operator stops, before it has changed anything.
Fail(c) ==
    /\ faults < MaxFaults
    /\ pc[c] # "idle"
    /\ faults' = faults + 1
    /\ Return(c)
    /\ UNCHANGED <<brokerVars, info, applied>>

\* The update is stored, and the operator never learns of it.
UpdateAnswerLost(c) ==
    /\ faults < MaxFaults
    /\ pc[c] = "update"
    /\ UpdateAccepted(c)
    /\ StoreEntry(c)
    /\ faults' = faults + 1
    /\ Return(c)
    /\ UNCHANGED <<info, applied>>

\* What the operator of a cluster does of itself within a reconcile.
Proceed(c) ==
    \/ ReadFails(c)
    \/ ReadDisabled(c)
    \/ ReadRecorded(c)
    \/ ReadAssigns(c)
    \/ UpdateGlobalnetConfigMap(c)
    \/ UpdateConflict(c)
    \/ Deploy(c)

Next ==
    \/ \E config \in BrokerConfigs : DeployBroker(config)
    \/ \E c \in Clusters : StartJoin(c) \/ Proceed(c) \/ Fail(c) \/ UpdateAnswerLost(c)

Spec == Init /\ [][Next]_vars

\* A reconcile runs to its end; the Fabric object of a cluster that has not
\* joined is reconciled again, by its creation or by the retry of a failure;
\* the broker's operator reconciles too.
Fairness ==
    /\ WF_vars(\E config \in BrokerConfigs : DeployBroker(config))
    /\ \A c \in Clusters :
          /\ WF_vars(Proceed(c))
          /\ WF_vars(applied[c] = Nothing /\ StartJoin(c))

FairSpec == Spec /\ Fairness

-----------------------------------------------------------------------------
GlobalnetConfigMap ==
    [exists : BOOLEAN, enabled : BOOLEAN, range : Block \cup {NoBlock}, size : Nat,
     clusters : [Clusters -> Block \cup {NoBlock}]]

TypeOK ==
    /\ configMap \in GlobalnetConfigMap
    /\ rev \in Nat /\ deploys \in Nat /\ faults \in Nat
    /\ info \in [Clusters -> BrokerInfos]
    /\ pc \in [Clusters -> {"idle", "read", "update", "deploy"}]
    /\ copy \in [Clusters -> [rev : Nat, map : GlobalnetConfigMap]]
    /\ cidr \in [Clusters -> Block \cup {NoBlock}]
    /\ tries \in [Clusters -> 0 .. RetrySteps - 1]
    /\ applied \in [Clusters -> [kind : {"none", "submariner", "serviceDiscovery"},
                                 cidr : Block \cup {NoBlock}]]

\* No address is recorded for two clusters, however their joins, retries, lost
\* answers and redeployments of the broker interleave
\* (join_broker.go:189-219, globalcidr_cm.go:91-121).
LedgerDisjoint ==
    \A c, d \in Clusters :
        c # d => Disjoint(configMap.clusters[c], configMap.clusters[d])

\* The ConfigMap implements the ledger of grants: one entry is added at a time,
\* none is changed or lost but by a redeployment (globalcidr_cm.go:44-121).
Grants == INSTANCE GlobalnetLedger WITH grants <- configMap.clusters

LedgerOfGrants == Grants!Spec

\* Every recorded CIDR lies in the range the ConfigMap announces
\* (globalnet.go:109-122, fabric_types.go:72).
LedgerInRange ==
    \A c \in Clusters :
        configMap.clusters[c] # NoBlock => Within(configMap.clusters[c], configMap.range)

\* There is room for two: a cluster that asks for an allocation while at most one
\* other has a CIDR gets one, whatever sizes the two ask for, default or their
\* own, since no valid size is more than half of the range
\* (globalnet.go:199-212, 253-262, 334-348).
RoomForTwo ==
    \A c, d \in Clusters :
        /\ configMap.enabled /\ configMap.clusters[c] = NoBlock
        /\ Others(c) \subseteq {configMap.clusters[d], NoBlock}
        /\ ConfigurationValid(c) /\ cidr[c] = NoBlock
        => AssignGlobalnetIPs(c) # {}

\* A cluster that has joined runs with the CIDR recorded for it
\* (join_broker.go:203-216, 324-328).
AppliedIsRecorded ==
    \A c \in Clusters :
        applied[c].kind = "submariner" => applied[c].cidr = configMap.clusters[c]

\* No address belongs to two clusters that have joined (globalnet.go:236-238).
AppliedDisjoint ==
    \A c, d \in Clusters : c # d => Disjoint(applied[c].cidr, applied[d].cidr)

\* Every cluster joins, in spite of conflicts, failures and lost answers
\* (fabric_controller.go:101-111).
EveryClusterJoins == \A c \in Clusters : <>(applied[c].kind = "submariner")
=============================================================================
