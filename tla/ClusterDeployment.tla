------------------------- MODULE ClusterDeployment -------------------------
(***************************************************************************)
(* The operator of a joining cluster (join-broker): how a reconcile of the *)
(* Fabric object replaces the Submariner CR of its cluster, or updates its *)
(* ServiceDiscovery CR where the broker has no connectivity component.     *)
(*                                                                         *)
(* A user makes the Fabric object and a copy of the broker info.  The      *)
(* operator reads both, and the Submariner CR, through caches that lag     *)
(* behind the API server.  submarinercr.Ensure deletes the CR it finds,    *)
(* waits for the garbage collector, and creates the new one, so that every *)
(* reconcile has a time without a CR in it.                                *)
(*                                                                         *)
(* What is joined with is GlobalnetJoin's subject: here the allocation of  *)
(* a global CIDR, like the discovery of the network, is a request that may *)
(* fail.                                                                   *)
(*                                                                         *)
(* An object is its value: a user's edits are numbered, and the operator   *)
(* writes only what it has seen, so no value of an object comes back while *)
(* a cache holds it from before.                                           *)
(***************************************************************************)
EXTENDS Naturals

CONSTANTS
    Wishes,         \* values of spec.joinConfig a user sets
    Components,     \* of "connectivity", "discovery", "neither": what a broker info enables
    FailingSteps,   \* the steps of a reconcile whose request may fail
    MaxEdits,       \* bound: edits of a user
    MaxFaults       \* bound: requests that fail, waits that time out, restarts

\* spec.joinConfig: it passes the checks (the cluster ID, the custom CoreDNS
\* configuration, the version of the cluster it is for); it asks for a gateway
\* label; an image override names no image of Submariner, or has no "=" in it.
Wish == [valid : BOOLEAN, gateway : BOOLEAN, images : {"known", "unknown", "bare"}]

Requests ==
    {"info", "label", "operator", "account", "token", "submariner", "discovery", "status"}

ASSUME ConstantsAssumption ==
    /\ Wishes \subseteq Wish
    /\ Components \subseteq {"connectivity", "discovery", "neither"}
    /\ FailingSteps \subseteq Requests
    /\ MaxEdits \in Nat
    /\ MaxFaults \in Nat

VARIABLES
    api,            \* the Fabric object, the broker info, the two CRs
    cache,          \* the operator's view of them
    installed,      \* of "label", "operator", "account", "token": what is in place
    queued,         \* the work queue holds a request for the Fabric object
    pc,             \* the request the worker makes next
    instance,       \* the Fabric object as the reconcile has read it
    brokerInfo,     \* the broker info as it has read it
    failed,         \* the reconcile returns an error
    edits, faults

workerVars == <<pc, instance, brokerInfo, failed>>
vars == <<api, cache, installed, queued, workerVars, edits, faults>>

Kinds == {"fabric", "info", "submariner", "discovery"}

\* Broker infos are numbered.
NoInfo == [nr |-> 0, enables |-> "none"]

Info(nr, component) == [nr |-> nr, enables |-> component]

\* What a CR is made from.
NoSpec == [fabric |-> 0, info |-> 0]

NoSubmariner == [state |-> "none", spec |-> NoSpec]

NoInstance ==
    [nr |-> 0, wish |-> [valid |-> FALSE, gateway |-> FALSE, images |-> "known"], phase |-> "none"]

Init ==
    /\ \E wish \in Wishes, info \in {NoInfo} \cup {Info(1, c) : c \in Components} :
          api = [fabric     |-> [nr |-> 1, wish |-> wish, phase |-> "none"],
                 info       |-> info,
                 submariner |-> NoSubmariner,
                 discovery  |-> NoSpec]
    /\ cache = api
    /\ installed = {}
    /\ queued = TRUE
    /\ pc = "idle"
    /\ instance = NoInstance
    /\ brokerInfo = NoInfo
    /\ failed = FALSE
    /\ edits = 0
    /\ faults = 0

-----------------------------------------------------------------------------
\* The user, the API servers and the work queue.

Edit == edits < MaxEdits /\ edits' = edits + 1

Elsewhere == UNCHANGED <<cache, installed, queued, workerVars, faults>>

EditSpec(wish) ==
    /\ Edit
    /\ api' = [api EXCEPT !.fabric.nr = edits + 2, !.fabric.wish = wish]
    /\ Elsewhere

\* A user replaces the broker info by deleting it and creating another one.
DeleteInfo ==
    /\ Edit
    /\ api.info # NoInfo
    /\ api' = [api EXCEPT !.info = NoInfo]
    /\ Elsewhere

CreateInfo(component) ==
    /\ Edit
    /\ api.info = NoInfo
    /\ api' = [api EXCEPT !.info = Info(edits + 2, component)]
    /\ Elsewhere

\* The garbage collector ends a foreground deletion.
CollectSubmariner ==
    /\ api.submariner.state = "deleting"
    /\ api' = [api EXCEPT !.submariner = NoSubmariner]
    /\ UNCHANGED edits
    /\ Elsewhere

\* The token controller of the broker attaches a token to the service account.
AttachToken ==
    /\ "account" \in installed
    /\ "token" \notin installed
    /\ installed' = installed \cup {"token"}
    /\ UNCHANGED <<api, cache, queued, workerVars, edits, faults>>

\* SetupWithManager: For(Fabric), and Watches(ConfigMap) with cmPredicates, which
\* let a deletion through if the copy has kept the labels of the original and
\* the Fabric object its name.
Triggers(k, seen) == k = "fabric" \/ (k = "info" /\ seen = NoInfo)

\* A cache learns of a change of an object.  A broker info that has been
\* replaced is first seen to be deleted.
Deliver(k) ==
    /\ cache[k] # api[k]
    /\ LET seen == IF k = "info" /\ cache.info # NoInfo THEN NoInfo ELSE api[k]
       IN  /\ cache' = [cache EXCEPT ![k] = seen]
           /\ queued' = (queued \/ Triggers(k, seen))
    /\ UNCHANGED <<api, installed, workerVars, edits, faults>>

-----------------------------------------------------------------------------
\* A reconcile.

RequestMayFail(step) == step \in FailingSteps /\ faults < MaxFaults

MayFail == RequestMayFail(pc)

\* The error returned is in "failed" when the deferred status update runs.
ReturnError == pc' = "status" /\ failed' = TRUE

\* The request has been served, and the reconcile goes on; or its answer is
\* lost, and the reconcile fails.
GoOn(next) ==
    \/ pc' = next /\ UNCHANGED <<failed, faults>>
    \/ MayFail /\ faults' = faults + 1 /\ ReturnError

\* A request fails and has changed nothing, or a wait is given up: for the
\* token, or for the deletion of the old Submariner CR.
RequestFails ==
    /\ MayFail
    /\ pc \in Requests \ {"status"}
    /\ faults' = faults + 1
    /\ ReturnError
    /\ UNCHANGED <<api, cache, installed, queued, instance, brokerInfo, edits>>

Reconcile ==
    /\ pc = "idle" /\ queued
    /\ queued' = FALSE
    /\ instance' = cache.fabric
    /\ pc' = "info"
    /\ UNCHANGED <<api, cache, installed, brokerInfo, failed, edits, faults>>

\* NewFromConfigMap, and the checks JoinSubmarinerCluster begins with.
ReadInfo ==
    /\ pc = "info"
    /\ brokerInfo' = cache.info
    /\ IF brokerInfo' # NoInfo /\ instance.wish.valid
       THEN /\ pc' = IF instance.wish.gateway /\ brokerInfo'.enables = "connectivity"
                     THEN "label" ELSE "operator"
            /\ UNCHANGED failed
       ELSE ReturnError
    /\ UNCHANGED <<api, cache, installed, queued, instance, edits, faults>>

\* The three steps that put something in place, and leave it when it is there.
Install(step, next) ==
    /\ pc = step
    /\ installed' = installed \cup {step}
    /\ GoOn(next)
    /\ UNCHANGED <<api, cache, queued, instance, brokerInfo, edits>>

HandleNodeLabels == Install("label", "operator")

\* The ten patches of the label have all been in conflict: the error is
\* shadowed, and the join goes on without a gateway.
LabelConflicts ==
    /\ pc = "label"
    /\ MayFail
    /\ faults' = faults + 1
    /\ pc' = "operator"
    /\ UNCHANGED <<api, cache, installed, queued, instance, brokerInfo, failed, edits>>

\* Network discovery, global CIDR, and submarinerop.Ensure.
EnsureOperator == Install("operator", "account")

\* CreateSAForCluster, at the broker.
CreateSAForCluster == Install("account", "token")

\* Faulty variant: the token is not waited for.
WaitForClientTokenNever ==
    /\ pc = "token"
    /\ GoOn("spec")
    /\ UNCHANGED <<api, cache, installed, queued, instance, brokerInfo, edits>>

WaitForClientToken ==
    /\ "token" \in installed
    /\ Install("token", "spec")

\* Each of the two branches begins with the image overrides.
Populates == pc = "spec" /\ brokerInfo.enables # "neither"

\* The branch that is taken: without any of the components the join is over, and
\* has not failed.
PopulateSpec ==
    /\ pc = "spec"
    /\ \/ /\ Populates => instance.wish.images = "known"
          /\ pc' = CASE brokerInfo.enables = "connectivity" -> "submariner"
                     [] brokerInfo.enables = "discovery"    -> "discovery"
                     [] brokerInfo.enables = "neither"      -> "status"
          /\ UNCHANGED failed
       \/ Populates /\ instance.wish.images = "unknown" /\ ReturnError
    /\ UNCHANGED <<api, cache, installed, queued, instance, brokerInfo, edits, faults>>

\* submarinercr.Ensure: one poll is one of three steps.  In the third, which
\* changes nothing, the CR in the cache is being deleted.

SetSubmariner(cr) == api' = [api EXCEPT !.submariner = cr]

\* A CR that is gone, or is being deleted already, is left as it is.
DeleteSubmariner ==
    /\ pc = "submariner"
    /\ cache.submariner.state = "there"
    /\ api.submariner.state = "there"
    /\ SetSubmariner([api.submariner EXCEPT !.state = "deleting"])
    /\ GoOn("submariner")
    /\ UNCHANGED <<cache, installed, queued, instance, brokerInfo, edits>>

\* Faulty variant: the spec does not depend on the broker info.
PopulateSubmarinerSpecBare == [fabric |-> instance.nr, info |-> 0]

\* Faulty variant: the spec is made from the Fabric object as it is by now.
PopulateSubmarinerSpecLive == [fabric |-> api.fabric.nr, info |-> brokerInfo.nr]

PopulateSubmarinerSpec == [fabric |-> instance.nr, info |-> brokerInfo.nr]

\* Faulty variant: a CR that exists is as good as one that is created.
CreateSubmarinerTolerant ==
    /\ pc = "submariner"
    /\ cache.submariner.state = "none"
    /\ IF api.submariner.state = "none"
       THEN SetSubmariner([state |-> "there", spec |-> PopulateSubmarinerSpec])
       ELSE UNCHANGED api
    /\ GoOn("status")
    /\ UNCHANGED <<cache, installed, queued, instance, brokerInfo, edits>>

\* A CR the cache does not show is AlreadyExists, an error.
CreateSubmariner ==
    /\ pc = "submariner"
    /\ cache.submariner.state = "none"
    /\ IF api.submariner.state = "none"
       THEN SetSubmariner([state |-> "there", spec |-> PopulateSubmarinerSpec]) /\ GoOn("status")
       ELSE UNCHANGED <<api, faults>> /\ ReturnError
    /\ UNCHANGED <<cache, installed, queued, instance, brokerInfo, edits>>

PopulateServiceDiscoverySpec == [fabric |-> instance.nr, info |-> brokerInfo.nr]

\* servicediscoverycr.Ensure, a CreateOrUpdate: nothing is sent when the CR in
\* the cache is as wanted, and what is sent is refused when the cache is behind.
EnsureServiceDiscovery ==
    /\ pc = "discovery"
    /\ IF cache.discovery = PopulateServiceDiscoverySpec
       THEN UNCHANGED api /\ GoOn("status")
       ELSE IF cache.discovery = api.discovery
       THEN api' = [api EXCEPT !.discovery = PopulateServiceDiscoverySpec] /\ GoOn("status")
       ELSE UNCHANGED <<api, faults>> /\ ReturnError
    /\ UNCHANGED <<cache, installed, queued, instance, brokerInfo, edits>>

Phase == IF failed THEN "Failed" ELSE "Running"

\* The deferred status update: it is sent if the phase has changed, refused if
\* the object has, and a failure is logged only.
StatusUpdate ==
    IF instance.phase # Phase /\ instance = api.fabric
    THEN \/ api' = [api EXCEPT !.fabric.phase = Phase] /\ UNCHANGED faults
         \/ RequestMayFail("status") /\ faults' = faults + 1 /\ UNCHANGED api
    ELSE UNCHANGED <<api, faults>>

\* The reconcile is over: its local variables are gone.
Return == pc' = "idle" /\ instance' = NoInstance /\ brokerInfo' = NoInfo /\ failed' = FALSE

\* Faulty variant: a reconcile that has not failed is put back too.
FinishRequeued ==
    /\ pc = "status"
    /\ StatusUpdate
    /\ queued' = TRUE
    /\ Return
    /\ UNCHANGED <<cache, installed, edits>>

\* The reconcile ends: the controller puts a failed one back in the queue.
Finish ==
    /\ pc = "status"
    /\ StatusUpdate
    /\ queued' = (queued \/ failed)
    /\ Return
    /\ UNCHANGED <<cache, installed, edits>>

\* The operator starts again: the caches are filled, the Fabric object is
\* queued, a deletion nobody has seen is never notified.
StartAgain ==
    /\ queued' = TRUE
    /\ cache' = api'
    /\ Return
    /\ UNCHANGED <<installed, edits>>

\* It has been stopped.
Restart ==
    /\ faults < MaxFaults
    /\ faults' = faults + 1
    /\ UNCHANGED api
    /\ StartAgain

\* The value of an image override is looked for behind an "=" that is not there.
Panics == Populates /\ instance.wish.images = "bare"

\* The operator ends in a panic, as often as it gets here.  The deferred status
\* update is sent on the way out of Reconcile, which has returned no error yet.
Panic ==
    /\ Panics
    /\ StatusUpdate
    /\ StartAgain

Work ==
    \/ Reconcile
    \/ ReadInfo
    \/ HandleNodeLabels
    \/ EnsureOperator
    \/ CreateSAForCluster
    \/ WaitForClientToken
    \/ PopulateSpec
    \/ Panic
    \/ DeleteSubmariner
    \/ CreateSubmariner
    \/ EnsureServiceDiscovery
    \/ Finish

\* The operator waits for the next event.
AtRest == pc = "idle" /\ ~ queued /\ cache = api /\ UNCHANGED vars

Next ==
    \/ Work
    \/ AtRest
    \/ \E k \in Kinds : Deliver(k)
    \/ CollectSubmariner
    \/ AttachToken
    \/ RequestFails
    \/ LabelConflicts
    \/ Restart
    \/ DeleteInfo
    \/ \E component \in Components : CreateInfo(component)
    \/ \E wish \in Wishes : EditSpec(wish)

Spec == Init /\ [][Next]_vars

\* The worker takes what is queued and ends what it has begun, watches deliver,
\* a service account gets its token and a deletion ends.  Users and faults owe
\* nothing.
Fairness ==
    /\ WF_vars(Work)
    /\ WF_vars(\E k \in Kinds : Deliver(k))
    /\ WF_vars(AttachToken)
    /\ WF_vars(CollectSubmariner)

FairSpec == Spec /\ Fairness

-----------------------------------------------------------------------------
Fabric == [nr : Nat, wish : Wish, phase : {"none", "Running", "Failed"}]

BrokerInfo == {NoInfo} \cup [nr : Nat \ {0}, enables : Components]

\* A CR is made from a Fabric object and a broker info.
CRSpec == [fabric : Nat \ {0}, info : Nat \ {0}]

SubmarinerCR == {NoSubmariner} \cup [state : {"there", "deleting"}, spec : CRSpec]

Objects ==
    [fabric : Fabric, info : BrokerInfo, submariner : SubmarinerCR, discovery : {NoSpec} \cup CRSpec]

TypeOK ==
    /\ api \in Objects /\ cache \in Objects
    /\ installed \subseteq {"label", "operator", "account", "token"}
    /\ queued \in BOOLEAN /\ failed \in BOOLEAN
    /\ pc \in Requests \cup {"idle", "spec"}
    /\ instance \in Fabric /\ brokerInfo \in BrokerInfo
    /\ edits \in 0 .. MaxEdits /\ faults \in 0 .. MaxFaults

\* The worker has nothing to do, and nothing that is under way will change that.
Quiet ==
    /\ pc = "idle" /\ ~ queued
    /\ cache.fabric = api.fabric
    /\ cache.info # NoInfo => cache.info = api.info

\* The CR of the branch a broker info is for has been made from a Fabric object
\* and that broker info.
MadeFrom(fabric, info) ==
    LET spec == [fabric |-> fabric.nr, info |-> info.nr]
    IN  /\ info.enables = "connectivity" => api.submariner = [state |-> "there", spec |-> spec]
        /\ info.enables = "discovery" => api.discovery = spec

\* When the operator has come to rest, the cluster has the CR its broker is for,
\* made from the configuration and the broker info the user has set last:
\* whatever was edited, replaced or failed while the old CR was being deleted
\* (join_broker.go:159-182, submarinercr/ensure.go:44-77).
JoinSettled == Quiet => api.info # NoInfo /\ MadeFrom(api.fabric, api.info)

\* A reconcile that reports Running has made the CR its broker info is for, and
\* that CR is there when it reports it; a reconcile that panics reports it too
\* (fabric_controller.go:79-91, join_broker.go:159-182, 420).
RunningWhenMade ==
    [][ api.fabric.phase # "Running" /\ api'.fabric.phase = "Running" =>
            Panics \/ (brokerInfo # NoInfo /\ MadeFrom(instance, brokerInfo)) ]_vars

\* When the operator has come to rest, the cluster has a gateway if one is
\* wanted (join_broker.go:101-106).
GatewaySettled ==
    Quiet /\ api.fabric.wish.gateway /\ api.info.enables = "connectivity" =>
        "label" \in installed

\* A Submariner CR is only deleted once its successor can be made and can run: a
\* join that fails earlier, whatever is wrong with its configuration, leaves a
\* connected cluster connected (join_broker.go:62-165, 274-306).
KeptUntilReady ==
    [][ api.submariner.state = "there" /\ api'.submariner.state # "there" =>
            /\ {"operator", "account", "token"} \subseteq installed
            /\ instance.wish.valid /\ instance.wish.images = "known"
            /\ brokerInfo.enables = "connectivity" ]_vars

\* The CR that is made from spec b is no older than the one made from spec a.
NotNewer(a, b) == a.fabric <= b.fabric /\ a.info <= b.info

\* What has been deployed is never rolled back: a CR gives way only to one that
\* is made from a configuration and a broker info that are no older than its own,
\* although both come from caches that lag, and the configuration was read before
\* the broker info (fabric_controller.go:69-104, submarinercr/ensure.go:44-77,
\* servicediscoverycr/ensure.go:31-43).
NeverRolledBack ==
    [][ /\ api.submariner.state = "there" /\ api'.submariner.state # "there" =>
              NotNewer(api.submariner.spec, [fabric |-> instance.nr, info |-> brokerInfo.nr])
        /\ NotNewer(api.discovery, api'.discovery) ]_vars

\* The operator's last creation of a CR is in its cache when it looks for one.
CreationSeen ==
    pc = "submariner" /\ cache.submariner.state = "none" => api.submariner.state = "none"

\* There is a broker to join, with a configuration that is right.
Joinable ==
    /\ api.info # NoInfo /\ api.fabric.wish.valid
    /\ api.info.enables # "neither" => api.fabric.wish.images = "known"

\* The operator comes to rest once there is something to join with and users and
\* faults leave it alone, although its status updates trigger it, those of a
\* reconcile that panics too, it may have gone from one panic to the next, and
\* every reconcile deletes what the one before has created; unless its caches
\* never show it what it has created
\* (fabric_controller.go:79-91, 135-136, submarinercr/ensure.go:54-76).
Settles == <>[]Joinable /\ <>[]CreationSeen => <>[]Quiet
=============================================================================
