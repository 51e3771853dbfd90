# A verification project for the cluster fabric operator

This directory holds TLA+ specifications of the cluster fabric operator
(`controllers/` and `main.go`), the TLC configurations that check them on small
instances, and theorems about them that TLAPS checks for every value of the
constants. Paths below are relative to `src/`; `globalnet.go` and the like stand
for the file of that name under `controllers/`.

## 1. The system

The operator connects Kubernetes clusters with Submariner. One binary, two
roles (`main.go:65-66`): with `--deploy-broker` it deploys the *broker* on its
cluster, with `--join-broker` it joins its cluster to a broker. Both roles are
one reconcile function of one controller with one worker
(`fabric_controller.go:66-114`), driven by the Fabric object of the user.

### Inventory

| component | state it keeps | operations | what makes it correct |
|---|---|---|---|
| CIDR arithmetic (`globalnet.go:72-107, 185-224`) | none | overlap, last address, `nextPowerOf2`, `GetValidClusterSize` | the overlap test, which looks at first addresses only, holds exactly when two blocks share an address; truncation to 32 bits does no harm |
| Global CIDR allocator (`globalnet.go:109-183`) | the candidate of a search | `allocateByCidr`, `allocateByClusterSize` | finds the lowest free block, whatever the map order; gives up only when there is none; returns |
| Globalnet ledger (ConfigMap `submariner-globalnet-info`, `globalcidr_cm.go`) | enabled, range, default size, CIDR per cluster | create or reset, conditional update, read | no address recorded twice, no entry lost, all within the range |
| Join of a cluster (`join_broker.go:62-221`) | `netconfig`, the copy of the ledger, attempts | discover, allocate and record, deploy | a cluster runs with the CIDR recorded for it; every cluster joins |
| Broker deployment (`deploy_broker.go`) | none of its own; the objects it writes | accounts, token, Submariner operator, Broker CR, ledger, broker info | at rest, what is deployed is what the latest configuration says |
| Broker info (ConfigMap `submariner-broker-info`, `brokerinfo_cm.go`) | URL, token, PSK, range, size, components | written by the broker, read by a joining cluster, deleted by a user | comes back when deleted; is there only when the broker is |
| Fabric controller (`fabric_controller.go`) | work queue, caches, status phase | reconcile, watches with predicates, deferred status update | comes to rest; the phase says how the last reconcile ended |
| Broker accounts and client token (`broker/ensure.go`, `rbac.go`, `namespace.go`) | accounts, roles, token secret | create if absent, wait for the token | a late token delays, and does not stop, the deployment |
| Broker CR, ServiceDiscovery CR | one object each | `CreateOrUpdate` | as above |
| Submariner CR (`submarinercr/ensure.go`) | one object, its deletion | delete, wait, create | exists again after a crash between delete and create |
| Submariner operator installation (`operator/submarinerop`, `operator/lighthouse`, `operator/common`) | CRDs, accounts, a Deployment | a sequence of `CreateOrUpdate`, a wait until the Deployment is ready | at rest everything is in place, also when two operators install at once |
| Privileged SCC (`operator/common/scc`) | a user list shared with others | read, append, update | no other user's entry is lost, no account is in it twice |
| Gateway node label (`join_broker.go:459-562`) | a label of one node | list, choose, patch with retries | success means that a node has the label |
| Network discovery (`discovery/network`) | none | reads and parses | the first network plug-in that answers wins |
| String set (`stringset`) | a map, a mutex | set operations | - |
| CRDs, embedded YAML, requirements check, start-up, API types | none | constants, one read each | - |

### Interactions and hard behaviours

- *Broker and joiners share the ledger.* Every cluster has an operator of its
  own; they and the broker's operator read and write one ConfigMap under
  optimistic concurrency (`retry.RetryOnConflict`, `CreateOrUpdate`). A retry
  carries `netconfig` over from the refused attempt, an answer may be lost
  after the update was stored, a redeployed broker empties the ledger.
- *The two roles share a cluster.* The cluster of the broker may join it too, with
  a second process. Both install the Submariner operator first: they write the
  same CRDs, accounts, Deployment and user list of the privileged SCC, which
  OpenShift's administrators and other operators edit as well.
- *The operator reads caches and writes to the API server.* `r.Client` reads
  what watches have delivered so far; only `r.Reader` reads the API server
  (`main.go:86-87`). `CreateOrUpdate` compares with the cache, so it may skip an
  update that is needed, or be refused.
- *A reconcile is a sequence of requests* that can end after any of them. The
  user may edit the Fabric object or delete the broker info meanwhile; what is
  left half-done has to be completed by a later reconcile, which has to be
  triggered by something: a failure, the watch of the Fabric object, a deletion
  of a labelled ConfigMap, a restart. The status update of a reconcile triggers
  the next one.
- *Some errors are dropped*: of the status update, of the write of the ledger,
  and of a configuration that is invalid without an error.
- *A panic* of a reconcile ends the process; the next one runs into it again
  until the configuration changes (`join_broker.go:420`, `pods.go:38`).
- *Numbers*: addresses are computed in 64 bits and truncated to 32; 0 is used
  both for "no address" and for 0.0.0.0; `nextPowerOf2` wraps to 0.

`PROJECT.json` lists these hazards line by line, with the properties that cover
them.

## 2. The modules

| module | models |
|---|---|
| `GlobalCIDR` | the CIDR arithmetic, as operators; no state |
| `GlobalnetAllocator` | the search for a free block, one action per call of `allocateByCidr` |
| `Allocation` | abstract: an allocation as its caller sees it, one answer in one step |
| `GlobalnetInfo` | the contents of the ledger ConfigMap and the configuration it is made from |
| `GlobalnetLedger` | abstract: a ledger of grants that is only added to, or emptied |
| `GlobalnetJoin` | the clusters that join, the broker that is redeployed under them, and the ConfigMap between them |
| `BrokerDeployment` | the broker's operator: work queue, caches, a reconcile request by request, user, faults |
| `ClusterDeployment` | the operator of a joining cluster: a join request by request, the Submariner CR that each join replaces or the ServiceDiscovery CR it updates |
| `OperatorInstallation` | the installation of the Submariner operator by the operators of one cluster, request by request |
| `UserList` | abstract: the user list of an SCC, to which each account is added once |
| `NetworkDiscovery` | what a join learns of its cluster's network, read by read |
| `MC...` | instances for TLC |
| `..._proofs` | theorems and their proofs |

`GlobalnetJoin` and `BrokerDeployment` both extend `GlobalnetInfo`, which extends
`GlobalCIDR`. Three abstract specifications are instantiated by the modules that
implement them: `Allocation` by `GlobalnetAllocator`, `GlobalnetLedger` by
`GlobalnetJoin`, `UserList` by `OperatorInstallation`.
In `BrokerDeployment` and `ClusterDeployment` the installation is one request that
may fail, and `OperatorInstallation` opens it. `ClusterDeployment` stands alone:
the allocation of a global CIDR, the subject of `GlobalnetJoin`, and the discovery
of the network, the subject of `NetworkDiscovery`, are requests that may fail
there.

**GlobalCIDR.** A CIDR is a record of its first address and its size. The sizes
are a constant: the program has 2^0 ... 2^32, and the assumption
`SizesAssumption` (each smaller size divides each larger one, the address space
is itself a size) is all the code relies on. `NextPowerOf2` is modelled by what
the bit operations compute, truncation and wrap included. The
operator `AllocateGlobalCIDR` is what the other modules use of an allocation;
that the search answers as it says is checked and proved in the next module.

**GlobalnetAllocator.** `Probe` is one iteration of the loop of
`allocateByClusterSize`. `next` is the 64-bit `last+1`, truncated when the
candidate is made of it. The recorded blocks come out of a Go map, so which of
several clashing blocks is met first is nondeterministic. `AnswersAtOnce` says that
the search, seen from outside, is the one step of `Allocation`, which justifies the
single step it is in `GlobalnetJoin`; `SearchAdvances` is the reason why it ends.

**GlobalnetJoin.** One action is one request to an API server with the local
computation that follows: `StartJoin`, the read of the ledger with its four
outcomes (`ReadFails`, `ReadDisabled`, `ReadRecorded`, `ReadAssigns`), the update
(`UpdateGlobalnetConfigMap`, `UpdateConflict`, `UpdateAnswerLost`), and `Deploy`.
`copy` is the ConfigMap as read, with its resourceVersion; `cidr` is
`netconfig.GlobalnetCIDR`, which survives a conflict and not a reconcile.
`DeployBroker` is what one reconcile of the broker does to the ConfigMap.
`RoomForTwo` is what the limit of half the range on cluster sizes is for.

**BrokerDeployment.** `api` holds the objects at the API server with their
resourceVersion, `cache` what the operator sees of them. `Deliver(k)` is a watch
event: it brings the cache of an object up to date and queues a request if the
predicates of `SetupWithManager` let it through. The worker's reconcile is
`Reconcile` (dequeue, read the Fabric object, check its configuration), then one
action per step of `DeploySubmerinerBroker`, then `Finish` with the deferred
status update. `RequestFails` is a request that has changed nothing; `GoOn`
includes the request whose answer is lost; `WaitTimesOut` is the end of the ten
polls for the token. The recorded CIDRs are left out: a write of the ledger
erases them, which is the subject of `GlobalnetJoin`. An event that is skipped by
a later one of the same object loses nothing here: a deleted broker info is only
written again by a reconcile that has seen the deletion, and all changes of the
Fabric object trigger alike.

**ClusterDeployment.** The same worker with the other role. `Reconcile` reads the
Fabric object, `ReadInfo` the broker info; then one action per step of
`JoinSubmarinerCluster` that changes something: `HandleNodeLabels`,
`EnsureOperator` (with the discovery of the network and the allocation before
it), `CreateSAForCluster`, `WaitForClientToken`, `PopulateSpec` (which branch
is taken, and the image overrides), and then the polls of
`submarinercr.Ensure`, `DeleteSubmariner` and `CreateSubmariner`, or the one
`EnsureServiceDiscovery`. A broker info that names neither component is the third
outcome of `join_broker.go:159-182`: the join is over, nothing is deployed, and it
has not failed. `Panic` is the end of the process on an image override
without a value; on the way out of `Reconcile` the deferred status update is sent,
with no error returned yet, so it says `Running`. `LabelConflicts` is ten conflicts of the label's patch. A
configuration is what the code distinguishes in it: whether it passes the checks,
the requirements check included, whether it asks for a gateway, what its image
overrides are. What a CR was made from is a pair of numbers,
of the Fabric object and of the broker info the reconcile had read; `NeverRolledBack`
compares them. An object is
its value, without a resourceVersion: the user's edits are numbered, and the
operator writes only a status and a CR of objects it has read, so that no value
comes back. A user replaces the broker info by deleting it and creating another:
an update in place triggers nothing (`cmPredicates`) and is not an edit of the
model. The copy of the broker info is taken to have the labels of the original,
and the Fabric object its name, or its deletion would trigger nothing either.

**OperatorInstallation.** `submarinerop.Ensure` has five parts in a fixed order, and
`pc` is the part a reconcile is in; the part of Lighthouse has the user list of
the SCC in it, with one read and one update per account (`GetSCC`, `UpdateSCC`). The
objects of one part are written one after the other in the same way, and are one
object: an interruption between two of them, after which the next reconcile finds
the first in place, is one between two parts as far as order, refusals and
repetition go. `CreateOrUpdate` compares with the cache and sends a creation or a
conditional update; the spec of the Deployment is replaced as a whole, so it never
compares as equal to what the API server has completed, and is always sent. The
SCC is read and written without a cache. `namespace.Ensure` only looks for the
namespace, so that its creation is an action of somebody else. `RollOut` is the
deployment controller; `Available` is true for pods of an earlier version too, as in
the code. The model starts with a cluster that has nothing, or everything of an
earlier version, with or without the accounts that version has added to the SCC, and
with an SCC that has no list of users, a null one, or a list.
Nobody takes the accounts of the operators out of the list, a list does not
disappear, and pods that run do not stop.

**NetworkDiscovery.** One action per read, in the order of
`networkPluginsDiscovery` and of the generic discovery. A cluster is what each
source would say; `caller` is the function the generic discovery has been called
from, since Weave drops its error, Canal and Calico do not, and Discover uses it to
complete what a plug-in has left out. `ToDiscover` states the result without the
steps, and `Position` numbers the sources in the order of the code: `ReadsOnward`
says that each step goes on to a later one. After `discovered` come `getServiceCIDR` and `getPodCIDR`.
`discoverFlannelNetwork` has no caller in the code and is no plug-in here; the
global CIDR and the plug-in settings that a discovery collects are never used.

## 3. What the runs show

| run | question | result |
|---|---|---|
| `GlobalnetAllocator` | does the search return the lowest free block, fail only when there is none, move on with every clash, and end? Is it the one-step `Allocation`? | holds |
| `JoinOnce` | three clusters that compete for the ledger of a broker deployed once, two attempts each, a fault | the ledger is disjoint, clusters run with what is recorded, the ConfigMap implements `GlobalnetLedger`, and every cluster joins |
| `JoinRedeploy` | two clusters of all kinds join while the broker is redeployed, enabled, disabled, mis-sized, with another default size | the ledger stays disjoint and in range, implements `GlobalnetLedger`, and has room for the second cluster, whatever the two ask for |
| `JoinAfterReset` | are the CIDRs of joined clusters disjoint after a redeployment? | violated |
| `JoinAsDeployed` | does a cluster join with the broker info as the broker writes it? | violated |
| `BrokerSettled` | does the broker's operator come to rest once its configuration can be deployed, and is everything as that says then? | holds |
| `BrokerLedgerLost` | is the ledger right at rest when its write can fail? | violated |
| `BrokerEnabledLater` | does the operator come to rest when globalnet is enabled later? | violated |
| `ClusterSettles` | does a joining cluster's operator come to rest, with the Submariner or ServiceDiscovery CR of the latest configuration and broker info, without disconnecting the cluster in a join that fails early, and without ever rolling a CR back? does it report `Running` only with that CR in place? | holds |
| `ClusterNoGateway` | does the cluster have a gateway at rest? | violated |
| `NetworkDiscovery` | does a discovery find the CIDRs of the preferred plug-in, completed by the generic ones, or nothing, whatever fails? does it read no source twice? does a join get past it? | holds |
| `OperatorInstalled` | do two operators that install on one cluster come to rest with everything in place, brought up to date in one order, and does the SCC keep everybody's entries (`UserList`), also while others edit it? | holds |

### Bounds, and why they are enough

- *Addresses.* 16 for the allocator, with every ledger of up to three disjoint
  blocks of any size inside, outside or around the range; that covers blocks
  larger, equal and smaller than the candidate and a clash at either end of the
  space. 32 for the others, with a range of 16, where four clusters of the
  default size fit and two of the largest.
- *Clusters.* Two conflict; with three, one loses to another while the CIDR it
  keeps is still free, or is not: an attempt that keeps the CIDR a rival has
  recorded is rejected by the overlap check, and only the next reconcile chooses
  another. `RetrySteps` is 2 (five in client-go: more attempts only postpone); with
  the broker redeployed in `JoinRedeploy` a cluster uses both up.
- *`MaxDeploys`.* 1 or 3: before, between and after two joins.
- *Sizes.* In `JoinRedeploy` the default is a quarter of the range, or a size that is
  rounded up to half of it; clusters ask for less, for nothing, for more than half,
  or for a CIDR that is the upper half.
- *`MaxFaults` = 1.* One lost answer or failure per behaviour: each reconcile
  starts from nothing, so what a second one adds is another reconcile. 2 in
  `ClusterSettles`: a lost answer that leaves the CR half replaced, and a restart.
- *`MaxEdits` = 2.* Away from a configuration and back, or an edit and a
  deletion of the broker info. 3 in `ClusterSettles`, where replacing the broker
  info takes two.
- *Configurations.* Of the broker: globalnet with two sizes, disabled, and too
  large a size; the move from disabled to enabled has a run of its own, since it
  goes wrong. Of a cluster: with a gateway, one that the checks
  reject, one with an unknown image and one with an override that has no value;
  broker infos for connectivity, for service discovery and for neither.
- *`FailingSteps`.* In `ClusterSettles` the label, the wait for the token, the requests
  for a CR and the status update. A failure to read the broker info, to install the
  operator or to make the account ends a reconcile as one of the token does, before
  a CR has changed; the theorems are about failures of any steps. In `BrokerSettled`
  the requests whose errors are reported, and not the write of the ledger
  (`BrokerLedgerLost`) and the status update (section 5).
- *Installation.* Two operators, the roles there are, and both accounts; one other
  user and one edit, which can fall between the read and the update of either
  operator; one fault, after which a reconcile starts from the beginning. A
  refusal needs no fault: the operators refuse each other.
- *Clusters to discover.* All combinations of at most two plug-ins, complete and
  incomplete, and of the five generic sources, each with a CIDR of its own so that
  no mix-up goes unnoticed; two reads that fail, in one discovery or in two.

### Fairness and assumptions

- The worker of the controller runs: weak fairness of each cluster's `Proceed`,
  of `Probe`, of `Work` (of each operator), of the steps of a
  discovery. A reconcile has no wait without a time-out.
- A cluster that has not joined is reconciled again, because its failed
  reconcile is put back in the queue; nothing more is asked of `StartJoin`.
- The watches deliver, and the token controller attaches a
  token, the deployment controller replaces pods. Each object has a watch, and
  `BrokerDeployment` asks for fairness object by object; `ClusterDeployment` and each
  operator of `OperatorInstallation` have one weak fairness for all deliveries,
  which asks for less and is enough, since a cache that is up to date has nothing
  left to deliver. No fairness is asked of users, faults, restarts.
- `CachesKeepUp`: when the worker begins a reconcile, its caches hold the
  operator's own earlier writes of the objects a reconcile writes. Watch events
  take milliseconds and a failed reconcile is delayed by the queue's rate limit,
  so this is the normal case; nothing in the code guarantees it, and
  section 5 says what happens otherwise. `SettlesIfDeployable` needs it too: since
  every reconcile draws a new PSK, each writes the broker info, and one whose
  cache is behind is refused and fails; two reconciles can alternate between
  `Running` and `Failed`, and the status updates trigger each other, for as long
  as the caches lag. The cache of the Fabric object may lag at all times.
- In `ClusterDeployment` every cache may lag, for safety. `Settles` has a premise
  instead, `CreationSeen`: from some point on, a reconcile that looks for the CR
  finds the one its predecessor has created. Without it, TLC shows an operator
  that runs into `AlreadyExists` in every second reconcile, alternates between
  `Running` and `Failed` and never rests. The other premise is that there is a
  broker info, a valid configuration and right image overrides in the end (`Joinable`). The garbage collector is
  assumed to end a deletion that it has been asked for.
- `SettlesIfDeployable` has as its premise that the configuration the user ends up
  with can be deployed: its clusters fit in the range, and a ledger that exists has
  a range (the other case is `BrokerEnabledLater`). Invalid configurations on the way
  there are part of the run.
- `Finishes` has as its premise that the namespace exists in the end and the SCC's
  list is not null: the code fails until then. Caches need no premise here: an
  operator that is refused because its cache is behind has a cache that catches up
  and the other operator stops writing when it is done.

## 4. What is proved

All theorems are for every value of the constants that satisfies the modules'
assumptions.

- `GlobalCIDR_proofs`: `OverlappingIsSharing`, `AllocationDecided`,
  `ValidSizeIsRounded`, `SecondClusterFits`. Two blocks are nested or apart
  (`NestedOrApart`), so looking at first addresses is enough, and the lowest free
  block is one block. A size that passes the check is rounded up to a size, in spite
  of both truncations to 32 bits, and is at most half of the range; so of the two
  blocks of the larger size at the start of the range, one is free for the second
  cluster.
- `GlobalnetAllocator_proofs`: `TypeCorrect`, `AllocatesFirstFree`,
  `ExhaustsOnlyWhenFull`, for ranges that do not start at 0.0.0.0
  (`NonzeroRanges`: with one that does, the end of a search and the address
  0.0.0.0 cannot be told apart). The invariant adds that `next` is on a boundary
  of the size within the range or just behind it (`OnBoundary`) and that no free
  block lies below it (`NoneBelow`). A clash keeps both because nested blocks of
  power-of-two sizes end on each other's boundaries. `SearchMovesOn` proves
  `SearchAdvances`, and `ImplementsAllocation` that every answer is the step of
  `Allocation` and every other probe a stutter: `AnswersAtOnce`.
- `GlobalnetJoin_proofs`: `TypeCorrect`, `RecordedDisjoint`, `ImplementsLedger`,
  without any assumption on deployments and faults. The invariant adds that a
  copy with the current resourceVersion *is* the ConfigMap (`CopyFresh`) and that
  the CIDR about to be recorded overlaps with nothing in the copy it was chosen
  from (`ChoiceFits`); so an update that is accepted adds a grant. `JoinedAsRecorded`
  and `JoinedDisjoint` hold where the broker is deployed at most once, with
  globalnet, and every broker info has the globalnet component
  (`DeployedOnce`); without that, `JoinAfterReset` is the counterexample. `RecordedInRange`
  is about brokers whose configurations have one range, which the broker infos do not
  contradict. `RoomForSecond` assumes one range as well, and in addition (`HalfOf`) that
  it does not start at 0.0.0.0, that a CIDR given by a broker info is at most half of
  it, and that default sizes have 32 bits: a default of 2^32 or more is truncated when
  it is checked and not when it is used, so it passes and nothing can be allocated
  (`globalnet.go:199-212`). Its invariant (`HalfInv`) is that every CIDR recorded, and
  every one about to be, is at most half of the range, and that the default size in the
  ConfigMap is one the broker has checked.
- `BrokerDeployment_proofs`: `TypeCorrect` and
  `DeployedAsChecked`, whatever fails and however stale the caches are. The invariant
  adds that a cache with the current resourceVersion holds the current object
  (`Behind`), what the steps before `pc` have established (`StepsDone`), and that a
  broker info has the accounts, the token, the operator and the Broker CR before it
  (`Prepared`). The globalnet ConfigMap is part of `PublishedWhenReady` too, and there
  `PublishedLast` has to assume that no write of it fails (`LedgerWriteFails`): that
  error is dropped, and the broker info is published without the ConfigMap.
  `LedgerFirst` is what it adds to the invariant. `BrokerSettled`,
  `GlobalnetSettled` and `StatusSettled` assume `KeepingUp` (`CachesKeepUp`, and
  no configuration that is invalid without an error); the latter two also that
  the requests whose errors are dropped do not fail. Their invariant
  (`SettleInv`) is that the objects still to be written are in the caches,
  that a reconcile of an outdated Fabric object has a successor in the queue,
  that the steps done have written the configuration of the reconcile, and that
  no broker info is ever found as wanted because its PSK is older than its
  resourceVersion. `NeverEnabledLater` assumes only the second half of `KeepingUp`
  (`NoneIgnored`): its invariant is that no reconcile with globalnet enabled gets past
  the check while the ConfigMap has no range (`EnabledRejected`).

- `OperatorInstallation_proofs`: `TypeCorrect`, `InstalledAtRest`, `InOrder` and
  `ImplementsUserList`, for any number of operators. The invariant adds that what
  has been in a cache is still there (`CachesBehind`), that a copy of the SCC with
  the current resourceVersion has the list of users there is, without the account
  that is about to be added (`CopyFresh`), and that what the steps before `pc` have
  put in place is there (`StepsDone`). `InOrder` is about the steps that bring a part up
  to date, and follows from it, because that is done only by an operator that has got
  to the part (`PutInPlace`) and nothing goes away. An SCC that begins with the accounts
  of an earlier version begins with each of them once (`InitUsers`).
- `ClusterDeployment_proofs`: `TypeCorrect`, `JoinSettledAlways`,
  `ReplacedWhenReady`, `NothingRolledBack` and `RunningReported`, for any broker infos
  (those that name no component included), any failing steps and bounds. `JoinSettled` is not inductive:
  a reconcile may be at work with what has been replaced since. `UpToDate` says
  that, while no request is queued, the reconcile has what the caches hold, and
  after its last step the CR has been made from that. A ServiceDiscovery CR that is
  found as wanted in a lagging cache *is* the one there is, because objects are
  numbered in their order (`Numbered`) and no CR is younger than what a worker has
  or is going to read (`WrittenBefore`). `StepsDone` is what a deletion can rely
  on. `NothingRolledBack` adds that the Submariner CR, too, is never younger than
  what the worker has read or is going to read (`SubmarinerBefore`). `RunningReported`
  rests on `UpToDate` as well: the phase changes at the end of a reconcile only, and a
  reconcile that ends without an error has the CR of what it has read. `GatewayUnlessConflicts` proves
  `GatewaySettled` for the behaviours without ten conflicts in a row, so the error that is
  dropped there is the only way to the violation of `ClusterNoGateway`.
- `NetworkDiscovery_proofs`: `TypeCorrect`, `DiscoveryFindsWhatIsThere`,
  `DiscoveryEnds` and `DeterminedIfDeterminable`, for any clusters. The invariant says which plug-ins have been looked for in vain
  (`Searching`), for whom the generic discovery is asked and what it has been given
  (`PluginKnown`), and which of its sources have known nothing (`SourcesRead`). `DiscoveryEnds` proves
  `ReadsOnward`, and `DeterminedIfDeterminable` that a discovery without failed reads
  has nothing to gain from a repetition.

Every invariant and action property that a passing run checks is the statement of a
theorem. Only model-checked: liveness (`SearchReturns`, `EveryClusterJoins`,
`SettlesIfDeployable`, `Settles`, `Determines`, `Finishes`), which is out of the
prover's reach since fairness is stated with ENABLED, and the violations. For two of
the liveness properties the step they rest on is proved: `SearchAdvances` bounds a
search by the end of the address space, `ReadsOnward` a discovery by the number of
sources.

## 5. Findings

Shown by a run that is violated; `PROJECT.json` has the lines.

- A redeployment of the broker empties the ledger under clusters that run with
  its CIDRs (`JoinAfterReset`).
- The broker info, as the broker writes it, names no component, and a cluster
  that joins with it deploys nothing (`JoinAsDeployed`).
- A failed write of the ledger is logged and dropped (`BrokerLedgerLost`).
- Globalnet cannot be enabled later (`BrokerEnabledLater`): the operator never rests
  again, as `NeverEnabledLater` proves.
- Ten conflicts of the gateway label count as a success (`ClusterNoGateway`): the only
  cause of a missing gateway at rest, as `GatewayUnlessConflicts` proves.

Excluded by the instances, by the assumptions of the theorems or by the properties
themselves, because the properties do not hold there:

- A join that panics on an image override without a "=" reports `Running` before the
  process ends, without having deployed anything (`fabric_controller.go:79-91`,
  `join_broker.go:420`), and none of its next lives corrects that: `RunningWhenMade` makes an
  exception of a reconcile that panics, and without it TLC finds such a status after
  eight states. The panic of a discovery (`pods.go:38`) is in the same position.
- With a broker info that names no component, the only kind the broker writes, an
  operator rests and reports `Running` with no CR (`join_broker.go:159-182`):
  `JoinSettled` and `RunningWhenMade` ask for the CR of the branch that is taken, and
  here there is none. `JoinAsDeployed` shows the case; in `JoinOnce` every broker info
  names a component.
- A write of the ledger that fails lets the broker info be published without it
  (`globalcidr_cm.go:56`): `PublishedWhenReady` is checked and proved without such
  failures, `BrokerLedgerLost` has them.

- A search in a full 0.0.0.0/0 never ends (`globalnet.go:151`): ranges start
  above 0.0.0.0.
- A retry keeps the CIDR of the refused attempt, which may lie outside of a range
  that has changed meanwhile (`join_broker.go:203`): the range does not change.
- A broker info with both a range and a size, and the globalnet component, is
  rejected by every join (`join_broker.go:138`): the clusters of `JoinOnce` have one
  or neither.
- With globalnet disabled, a cluster gets the whole globalnet range of the broker
  info as its global CIDR (`join_broker.go:324`): the invariants are about
  globalnet.
- An argument `--cluster-cidr <value>` in a control plane pod makes the operator
  panic (`pods.go:38`), whatever the user gives: `Determines` excludes it.
- A cluster size of 0 is reported as running with nothing deployed
  (`deploy_broker.go:110`): no such configuration.
- A lost status update leaves the phase of an earlier reconcile
  (`fabric_controller.go:88`): status updates do not fail in `BrokerSettled`.
- A broker info that enables service discovery only leaves the Submariner CR of an
  earlier join in place (`join_broker.go:170`): `JoinSettled` asks for the CR of the
  branch that is taken.
- The wait for the Deployment ends with the pods of an earlier version
  (`deployments/utils.go:45`): `Installed` asks for pods, of whichever version.
- A stale cache can leave the old Broker CR in place (`brokercr/ensure.go:44`):
  `CachesKeepUp`.

## 6. What is not modelled

- IPv6 (the code handles 32-bit addresses only), the textual forms of CIDRs and
  the encoding of the ConfigMaps beyond which fields can be empty.
- Deletion of the Fabric object, several Fabric objects in one cluster, a user
  who edits the Broker CR or the ledger by hand.
- The roles together in one process (two processes on one cluster are in
  `OperatorInstallation`); what the requirements check parses, YAML, flags and
  leader election: no state of their own.
- The CRDs of the broker (`lighthouse/crds.go`, `gateway/crds.go`): constants that
  are created or updated, by a branch that the deployment of the broker skips.
- `submarinerop/scc`, which adds four more accounts to the SCC, and
  `lighthouse/crds`: they have no caller.
- The string set: the program uses the plain one, in one goroutine, to ask which
  components a broker info names. The
  synchronized one, whose `Difference` takes the locks of two sets, is never
  constructed.
- What a join has installed at one broker, or for one cluster ID, when the user then turns to
  another: `installed` in `ClusterDeployment` says that the label, the operator, the
  account and the token are there, not at which broker or for whom, and nothing takes
  them away. A join that skipped one of these steps for a second broker would go unnoticed.
- Which node gets the gateway label, and the fields of a CR that only copy what
  the configuration says.

## 7. Plan

1. `ClusterSizes`: the bit operations of `nextPowerOf2` against `NextPowerOf2`
   over all small arguments (checked only: `Bitwise`).
2. Composition: `BrokerDeployment` with joiners, the PSK and the recorded CIDRs
   (`DeployBroker` of `GlobalnetJoin` implemented by a reconcile).
