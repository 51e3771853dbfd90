-------------------------- MODULE BrokerDeployment --------------------------
(***************************************************************************)
(* The operator of the broker cluster (deploy-broker): how a reconcile of  *)
(* the Fabric object deploys the broker, and what triggers the next one.   *)
(*                                                                         *)
(* The API server keeps the Fabric object, the Broker CR, the globalnet    *)
(* ConfigMap (the ledger) and the broker info.  The operator reads them    *)
(* through caches that the API server's watches bring up to date some time *)
(* later.  A change of the Fabric object that reaches its cache, whoever   *)
(* made it, and a deletion of the broker info that does, put a request in  *)
(* the work queue.  One worker takes it: one action is one request to the  *)
(* API server.  A request may fail, or its answer be lost, and the         *)
(* operator may be restarted between any two of them.                      *)
(***************************************************************************)
EXTENDS GlobalnetInfo

CONSTANTS
    BrokerConfigs,  \* values of spec.brokerConfig a user sets
    FailingSteps,   \* the steps of a reconcile whose request may fail
    CachesKeepUp,   \* the operator's own writes are in its caches in time
    MaxEdits,       \* bound: edits of a user
    MaxFaults       \* bound: requests that fail, and restarts

Requests == {"accounts", "token", "operator", "broker", "check", "ledger", "info", "status"}

ASSUME ConstantsAssumption ==
    /\ BrokerConfigs \subseteq BrokerConfig
    /\ FailingSteps \subseteq Requests
    /\ CachesKeepUp \in BOOLEAN
    /\ MaxEdits \in Nat
    /\ MaxFaults \in Nat

VARIABLES
    api,            \* the objects: resourceVersion, or that of the deletion, and data
    cache,          \* the operator's view of them
    clock,          \* the latest resourceVersion
    installed,      \* of "accounts", "token", "operator": what is in place
    queued,         \* the work queue holds a request for the Fabric object
    pc,             \* the request the worker makes next
    instance,       \* the Fabric object as the reconcile has read it
    failed,         \* the reconcile returns an error
    edits, faults

serverVars == <<api, clock, installed>>
workerVars == <<pc, instance, failed>>
vars == <<serverVars, workerVars, cache, queued, edits, faults>>

Kinds == {"fabric", "broker", "ledger", "info"}

\* The objects a reconcile writes with CreateOrUpdate.
Written == Kinds \ {"fabric"}

NoObject(rev) == [rev |-> rev, exists |-> FALSE, data |-> <<>>]

Object(rev, data) == [rev |-> rev, exists |-> TRUE, data |-> data]

Init ==
    /\ \E config \in BrokerConfigs :
          api = [k \in Kinds |->
                    IF k = "fabric"
                    THEN Object(1, [spec |-> config, phase |-> "none"])
                    ELSE NoObject(0)]
    /\ cache = api
    /\ clock = 1
    /\ installed = {}
    /\ queued = TRUE
    /\ pc = "idle"
    /\ instance = NoObject(0)
    /\ failed = FALSE
    /\ edits = 0
    /\ faults = 0

-----------------------------------------------------------------------------
\* The API server and the work queue.

Store(k, data) ==
    /\ clock' = clock + 1
    /\ api' = [api EXCEPT ![k] = Object(clock + 1, data)]

\* A user edits spec.brokerConfig.
EditSpec(config) ==
    /\ edits < MaxEdits
    /\ edits' = edits + 1
    /\ Store("fabric", [api["fabric"].data EXCEPT !.spec = config])
    /\ UNCHANGED <<installed, workerVars, cache, queued, faults>>

\* A user deletes the broker info.
DeleteInfo ==
    /\ edits < MaxEdits
    /\ api["info"].exists
    /\ edits' = edits + 1
    /\ clock' = clock + 1
    /\ api' = [api EXCEPT !["info"] = NoObject(clock + 1)]
    /\ UNCHANGED <<installed, workerVars, cache, queued, faults>>

\* The token controller attaches a token to the service account.
AttachToken ==
    /\ "accounts" \in installed
    /\ "token" \notin installed
    /\ installed' = installed \cup {"token"}
    /\ UNCHANGED <<api, clock, workerVars, cache, queued, edits, faults>>

\* Faulty variant: the deletion of the broker info triggers nothing.
TriggersFabricOnly(k) == k = "fabric"

\* SetupWithManager: For(Fabric), and Watches(ConfigMap) with cmPredicates.
Triggers(k) == k = "fabric" \/ (k = "info" /\ ~ api[k].exists)

\* A cache learns of the latest change of an object.
Deliver(k) ==
    /\ cache[k].rev # api[k].rev
    /\ cache' = [cache EXCEPT ![k] = api[k]]
    /\ queued' = (queued \/ Triggers(k))
    /\ UNCHANGED <<serverVars, workerVars, edits, faults>>

-----------------------------------------------------------------------------
\* A reconcile.

MayFail == pc \in FailingSteps /\ faults < MaxFaults

\* The error returned, if any, is in "failed" when the deferred status update
\* runs.
ReturnError == pc' = "status" /\ failed' = TRUE

\* The request has been served, and the reconcile goes on; or its answer is
\* lost, and the reconcile fails.
GoOn(next) ==
    \/ pc' = next /\ UNCHANGED <<failed, faults>>
    \/ MayFail /\ faults' = faults + 1 /\ ReturnError

\* The reconcile fails although no request did.
Reject == ReturnError /\ UNCHANGED faults

\* A request fails and has changed nothing.
RequestFails ==
    /\ MayFail
    /\ pc \in Requests \ {"ledger", "status"}
    /\ faults' = faults + 1
    /\ ReturnError
    /\ UNCHANGED <<serverVars, instance, cache, queued, edits>>

\* Reconcile reads the Fabric object, and isValidGlobalnetConfig checks its
\* configuration.  A size that is neither too large nor positive is invalid
\* without an error: the reconcile ends there, successfully.
Reconcile ==
    /\ pc = "idle" /\ queued
    /\ CachesKeepUp => \A k \in Written : cache[k].rev = api[k].rev
    /\ queued' = FALSE
    /\ instance' = cache["fabric"]
    /\ LET config == instance'.data.spec
       IN  /\ pc' = IF IsValidGlobalnetConfig(config) THEN "accounts" ELSE "status"
           /\ failed' = (config.enabled /\ ClusterSizeFails(config.range, config.size))
    /\ UNCHANGED <<serverVars, cache, edits, faults>>

\* broker.Ensure: the namespace, the service accounts, their roles.
EnsureAccounts ==
    /\ pc = "accounts"
    /\ installed' = installed \cup {"accounts"}
    /\ GoOn("token")
    /\ UNCHANGED <<api, clock, instance, cache, queued, edits>>

\* Faulty variant: nothing waits for the token.
WaitForClientTokenNever ==
    /\ pc = "token"
    /\ GoOn("operator")
    /\ UNCHANGED <<serverVars, instance, cache, queued, edits>>

WaitForClientToken ==
    /\ pc = "token"
    /\ "token" \in installed
    /\ GoOn("operator")
    /\ UNCHANGED <<serverVars, instance, cache, queued, edits>>

\* The ten attempts are used up before the token is there.
WaitTimesOut ==
    /\ pc = "token"
    /\ "token" \notin installed
    /\ Reject
    /\ UNCHANGED <<serverVars, instance, cache, queued, edits>>

\* submarinerop.Ensure
EnsureOperator ==
    /\ pc = "operator"
    /\ installed' = installed \cup {"operator"}
    /\ GoOn("broker")
    /\ UNCHANGED <<api, clock, instance, cache, queued, edits>>

\* ctrl.CreateOrUpdate reads the cache.  It sends nothing when the object there
\* is as wanted, and what it sends is refused when the cache is behind.
AsWanted(k, data) == cache[k].exists /\ cache[k].data = data

Accepted(k) == IF cache[k].exists THEN cache[k].rev = api[k].rev ELSE ~ api[k].exists

CreateOrUpdate(k, data, next) ==
    /\ IF AsWanted(k, data)
       THEN UNCHANGED <<api, clock>> /\ GoOn(next)
       ELSE IF Accepted(k)
       THEN Store(k, data) /\ GoOn(next)
       ELSE UNCHANGED <<api, clock>> /\ Reject
    /\ UNCHANGED <<installed, instance, cache, queued, edits>>

\* brokercr.Ensure.  Globalnet disabled or not, the whole configuration is
\* written; the check of the existing ConfigMap comes after it.
EnsureBroker ==
    /\ pc = "broker"
    /\ CreateOrUpdate("broker", instance.data.spec,
                      IF instance.data.spec.enabled THEN "check" ELSE "ledger")

Ledger == IF api["ledger"].exists THEN api["ledger"].data ELSE NoConfigMapData(<<>>)

\* Faulty variant: the existing ConfigMap is not looked at.
ValidateNothing ==
    /\ pc = "check"
    /\ GoOn("ledger")
    /\ UNCHANGED <<serverVars, instance, cache, queued, edits>>

\* This read does not go through the cache.
ValidateExistingGlobalNetworks ==
    /\ pc = "check"
    /\ IF ValidGlobalNetworks(Ledger) THEN GoOn("ledger") ELSE Reject
    /\ UNCHANGED <<serverVars, instance, cache, queued, edits>>

\* Faulty variant: the ConfigMap is left alone once it exists.
CreateGlobalnetConfigMapOnce ==
    /\ pc = "ledger"
    /\ pc' = "info"
    /\ IF api["ledger"].exists
       THEN UNCHANGED <<api, clock>>
       ELSE Store("ledger", ConfigMapData(instance.data.spec, <<>>))
    /\ UNCHANGED <<installed, instance, failed, cache, queued, edits, faults>>

\* CreateGlobalnetConfigMap drops the error of its CreateOrUpdate.  The CIDRs
\* recorded by the clusters, which every write erases, are left out here.
CreateGlobalnetConfigMap ==
    /\ pc = "ledger"
    /\ pc' = "info"
    /\ LET data == ConfigMapData(instance.data.spec, <<>>)
       IN  \/ /\ ~ AsWanted("ledger", data) /\ Accepted("ledger")
              /\ Store("ledger", data)
              /\ UNCHANGED faults
           \/ /\ AsWanted("ledger", data) \/ ~ Accepted("ledger")
              /\ UNCHANGED <<api, clock, faults>>
           \/ /\ MayFail
              /\ faults' = faults + 1
              /\ UNCHANGED <<api, clock>>
    /\ UNCHANGED <<installed, instance, failed, cache, queued, edits>>

\* Faulty variant: no range where globalnet is disabled.
BrokerInfoDataBlank(config) ==
    [range |-> IF config.enabled THEN config.range ELSE NoBlock, size |-> config.size,
     psk |-> clock]

\* The broker info of a configuration.  The PSK is drawn anew at every call.
BrokerInfoData(config) == [range |-> config.range, size |-> config.size, psk |-> clock]

CreateBrokerInfoConfigMap ==
    /\ pc = "info"
    /\ CreateOrUpdate("info", BrokerInfoData(instance.data.spec), "status")

Phase == IF failed THEN "Failed" ELSE "Running"

\* The deferred status update: it is sent if the phase has changed, refused if
\* the object has, and a failure is logged only.
StatusUpdate ==
    IF instance.data.phase # Phase /\ instance.rev = api["fabric"].rev
    THEN \/ Store("fabric", [api["fabric"].data EXCEPT !.phase = Phase]) /\ UNCHANGED faults
         \/ MayFail /\ faults' = faults + 1 /\ UNCHANGED <<api, clock>>
    ELSE UNCHANGED <<api, clock, faults>>

\* The reconcile is over: its local variables are gone.
Return == pc' = "idle" /\ instance' = NoObject(0) /\ failed' = FALSE

\* Faulty variant: a failed reconcile is not put back in the queue.
FinishForgetting ==
    /\ pc = "status"
    /\ StatusUpdate
    /\ Return
    /\ UNCHANGED <<installed, cache, queued, edits>>

\* The reconcile ends: the controller puts a failed one back in the queue.
Finish ==
    /\ pc = "status"
    /\ StatusUpdate
    /\ queued' = (queued \/ failed)
    /\ Return
    /\ UNCHANGED <<installed, cache, edits>>

\* The operator stops and starts again: the caches are filled, the Fabric
\* object is queued, a deletion nobody has seen is never notified.
Restart ==
    /\ faults < MaxFaults
    /\ faults' = faults + 1
    /\ queued' = TRUE
    /\ cache' = api
    /\ Return
    /\ UNCHANGED <<serverVars, edits>>

Work ==
    \/ Reconcile
    \/ EnsureAccounts
    \/ WaitForClientToken
    \/ WaitTimesOut
    \/ EnsureOperator
    \/ EnsureBroker
    \/ ValidateExistingGlobalNetworks
    \/ CreateGlobalnetConfigMap
    \/ CreateBrokerInfoConfigMap
    \/ Finish

\* The operator waits for the next event.
AtRest ==
    /\ pc = "idle" /\ ~ queued
    /\ \A k \in Kinds : cache[k].rev = api[k].rev
    /\ UNCHANGED vars

Next ==
    \/ Work
    \/ AtRest
    \/ \E k \in Kinds : Deliver(k)
    \/ AttachToken
    \/ RequestFails
    \/ Restart
    \/ DeleteInfo
    \/ \E config \in BrokerConfigs : EditSpec(config)

Spec == Init /\ [][Next]_vars

\* The worker takes what is queued and ends what it has begun, watches deliver,
\* and a service account gets its token.  Users and faults owe nothing.
Fairness ==
    /\ WF_vars(Work)
    /\ \A k \in Kinds : WF_vars(Deliver(k))
    /\ WF_vars(AttachToken)

FairSpec == Spec /\ Fairness

-----------------------------------------------------------------------------
FabricData == [spec : BrokerConfigs, phase : {"none", "Running", "Failed"}]

LedgerData == [exists : {TRUE}, enabled : BOOLEAN, range : Block \cup {NoBlock},
               size : Nat, clusters : {<<>>}]

InfoData == [range : Block, size : Nat, psk : Nat]

DataOf(k) ==
    CASE k = "fabric" -> FabricData
      [] k = "broker" -> BrokerConfig
      [] k = "ledger" -> LedgerData
      [] k = "info"   -> InfoData

IsObject(o, k) ==
    /\ DOMAIN o = {"rev", "exists", "data"}
    /\ o.rev \in Nat
    /\ IF o.exists THEN o.data \in DataOf(k) ELSE o = NoObject(o.rev)

TypeOK ==
    /\ clock \in Nat \ {0}
    /\ DOMAIN api = Kinds /\ DOMAIN cache = Kinds
    /\ \A k \in Kinds : IsObject(api[k], k) /\ IsObject(cache[k], k)
    /\ IsObject(instance, "fabric")
    /\ api["fabric"].exists /\ cache["fabric"].exists
    /\ pc # "idle" => instance.exists
    /\ installed \subseteq {"accounts", "token", "operator"}
    /\ queued \in BOOLEAN /\ failed \in BOOLEAN
    /\ pc \in Requests \cup {"idle"}
    /\ edits \in 0 .. MaxEdits /\ faults \in 0 .. MaxFaults

\* The worker has nothing to do, and nothing that is under way will change that.
Quiet ==
    /\ pc = "idle" /\ ~ queued
    /\ \A k \in Kinds : Triggers(k) => cache[k].rev = api[k].rev

Wanted == api["fabric"].data.spec

\* When the operator has come to rest, the Broker CR and the broker info are
\* those of the configuration the user set last, whatever happened on the way:
\* edits during a reconcile, failures, restarts, a deleted broker info
\* (deploy_broker.go:59-81, fabric_controller.go:57-62).
Settled ==
    Quiet =>
        /\ api["broker"].exists /\ api["broker"].data = Wanted
        /\ api["info"].exists
        /\ api["info"].data.range = Wanted.range /\ api["info"].data.size = Wanted.size

\* When the operator has come to rest, so is the globalnet ConfigMap
\* (deploy_broker.go:72-76).
LedgerSettled ==
    Quiet =>
        /\ api["ledger"].exists
        /\ api["ledger"].data = ConfigMapData(Wanted, <<>>)

\* When the operator has come to rest, the Fabric object says that it runs, in
\* spite of refused status updates that are only logged
\* (fabric_controller.go:79-91).
PhaseSettled == Quiet => api["fabric"].data.phase = "Running"

\* Every change of the globalnet ConfigMap is a deployment with a valid
\* configuration over a ConfigMap that was found valid, though the checks come
\* before in the reconcile (deploy_broker.go:44-76).
LedgerDeployed ==
    [][ api'["ledger"].rev # api["ledger"].rev =>
            \E config \in BrokerConfigs :
                /\ IsValidGlobalnetConfig(config)
                /\ config.enabled => ValidGlobalNetworks(Ledger)
                /\ Ledger' = ConfigMapData(config, <<>>) ]_vars

\* The broker info is never there for a cluster to join before what it needs: the
\* account of the clusters, the broker, and the globalnet ConfigMap, without which
\* no join with globalnet succeeds (deploy_broker.go:49-82, globalnet.go:287-291).
PublishedWhenReady ==
    api["info"].exists =>
        /\ installed = {"accounts", "token", "operator"}
        /\ api["broker"].exists /\ api["ledger"].exists

\* The operator comes to rest once users and faults leave it alone, although
\* its own status updates trigger it (fabric_controller.go:88, 135-136).
Settles == <>[]Quiet

\* The clusters are not larger than the range, and the ConfigMap, if there is one,
\* has a range.
Deployable ==
    Wanted.enabled =>
        /\ ~ ClusterSizeFails(Wanted.range, Wanted.size)
        /\ api["ledger"].exists => api["ledger"].data.range # NoBlock

\* It comes to rest whatever configurations it went through, valid or not, and
\* whatever failed, once it is left with one it can deploy
\* (deploy_broker.go:44-69, fabric_controller.go:88, 135-136).
SettlesIfDeployable == <>[]Deployable => Settles
=============================================================================
