------------------------ MODULE OperatorInstallation ------------------------
(***************************************************************************)
(* submarinerop.Ensure: the operators of a cluster install the Submariner  *)
(* operator on it.                                                         *)
(*                                                                         *)
(* Deploying a broker and joining one both begin with this installation,   *)
(* and a cluster that does both may have a process for each, at work on    *)
(* the same objects at the same time.  CRDs, accounts and the Deployment   *)
(* are written with CreateOrUpdate, from caches that lag behind the API    *)
(* server; the user list of the privileged security context (SCC) of       *)
(* OpenShift is read and written without a cache, while others edit it.    *)
(*                                                                         *)
(* A group of manifests is one object here: a reconcile that fails within  *)
(* a group goes on with the rest of it when it is repeated, as one that    *)
(* fails between two groups does.                                          *)
(***************************************************************************)
EXTENDS Naturals, Sequences, SequencesExt

CONSTANTS
    Operators,      \* the processes that install
    Accounts,       \* the service accounts of Lighthouse: "agent" and "coredns"
    OtherUsers,     \* who else is a user of the SCC
    MaxEdits,       \* bound: edits by others
    MaxFaults       \* bound: requests that fail, restarts

ASSUME ConstantsAssumption ==
    /\ Accounts = {"agent", "coredns"}
    /\ OtherUsers \cap Accounts = {}
    /\ MaxEdits \in Nat
    /\ MaxFaults \in Nat

VARIABLES
    api,            \* the objects, with their resourceVersions
    cache,          \* per operator: its view of them
    scc,            \* the privileged SCC
    pc,             \* per operator: the request its reconcile makes next
    copy,           \* per operator: the SCC as it has read it, to be updated
    queued,         \* per operator: its work queue holds a request
    edits, faults

operatorVars == <<pc, copy, queued>>
vars == <<api, cache, scc, operatorVars, edits, faults>>

Kinds == {"crds", "namespace", "accounts", "deployment"}

Requests == Kinds \cup Accounts \cup {"ready"}

\* An object is not there, as an earlier version has left it, or as wanted; and
\* so are the pods of the Deployment.
Object(rev, spec, pods) == [rev |-> rev, spec |-> spec, pods |-> pods]

\* An SCC that is not there, as outside of OpenShift, and one that has no list of
\* users are the same here.  The list may be null.
SCC(rev, list, users) == [rev |-> rev, list |-> list, users |-> users]

NoCopy == SCC(0, "none", <<>>)

\* An earlier version may have granted the accounts their use of the SCC.
EarlierGrants(earlier) ==
    {<<>>} \cup (IF earlier = "old" THEN {<<"agent", "coredns">>} ELSE {})

Init ==
    /\ \E earlier \in {"none", "old"}, namespace \in {"none", "new"} :
          /\ earlier = "old" => namespace = "new"
          /\ api = [k \in Kinds |->
                       CASE k = "deployment" -> Object(0, earlier, earlier)
                         [] k = "namespace"  -> Object(0, namespace, "none")
                         [] OTHER            -> Object(0, earlier, "none")]
          /\ \/ \E list \in {"none", "null"} : scc = SCC(1, list, <<>>)
             \/ \E others \in {<<>>} \cup {<<u>> : u \in OtherUsers},
                   grants \in EarlierGrants(earlier) :
                   scc = SCC(1, "there", others \o grants)
    /\ cache = [o \in Operators |-> api]
    /\ pc = [o \in Operators |-> "idle"]
    /\ copy = [o \in Operators |-> NoCopy]
    /\ queued = [o \in Operators |-> TRUE]
    /\ edits = 0
    /\ faults = 0

-----------------------------------------------------------------------------
\* Everybody else.

Edit == edits < MaxEdits /\ edits' = edits + 1

\* The Fabric object of an operator changes.
Trigger(o) ==
    /\ Edit
    /\ queued' = [queued EXCEPT ![o] = TRUE]
    /\ UNCHANGED <<api, cache, scc, pc, copy, faults>>

CreateNamespace ==
    /\ Edit
    /\ api["namespace"].spec = "none"
    /\ api' = [api EXCEPT !["namespace"] = Object(1, "new", "none")]
    /\ UNCHANGED <<cache, scc, operatorVars, faults>>

SetUsers(users) == scc' = SCC(scc.rev + 1, "there", users)

AddOther(u) ==
    /\ Edit
    /\ scc.list \in {"null", "there"}
    /\ SetUsers(Append(scc.users, u))
    /\ UNCHANGED <<api, cache, operatorVars, faults>>

RemoveOther(i) ==
    /\ Edit
    /\ scc.users[i] \in OtherUsers
    /\ SetUsers(RemoveAt(scc.users, i))
    /\ UNCHANGED <<api, cache, operatorVars, faults>>

\* The deployment controller replaces the pods.  Those of an earlier version are
\* there until the new ones are.
RollOut ==
    /\ api["deployment"].pods # api["deployment"].spec
    /\ api' = [api EXCEPT !["deployment"] = Object(@.rev + 1, @.spec, @.spec)]
    /\ UNCHANGED <<cache, scc, operatorVars, edits, faults>>

Deliver(o, k) ==
    /\ cache[o][k] # api[k]
    /\ cache' = [cache EXCEPT ![o][k] = api[k]]
    /\ UNCHANGED <<api, scc, operatorVars, edits, faults>>

-----------------------------------------------------------------------------
\* The reconcile of an operator.

\* The reconcile returns an error: the controller puts it back in the queue.
ReturnError(o) ==
    /\ pc' = [pc EXCEPT ![o] = "idle"]
    /\ copy' = [copy EXCEPT ![o] = NoCopy]
    /\ queued' = [queued EXCEPT ![o] = TRUE]

Fault == faults < MaxFaults /\ faults' = faults + 1

\* The request has been served, and the reconcile goes on; or its answer is
\* lost, and the reconcile fails.
GoOn(o, next) ==
    \/ /\ pc' = [pc EXCEPT ![o] = next]
       /\ copy' = [copy EXCEPT ![o] = NoCopy]
       /\ UNCHANGED <<queued, faults>>
    \/ Fault /\ ReturnError(o)

\* A request fails and has changed nothing.
RequestFails(o) ==
    /\ pc[o] # "idle"
    /\ Fault
    /\ ReturnError(o)
    /\ UNCHANGED <<api, cache, scc, edits>>

\* The operator stops and starts again: its caches are filled.
Restart(o) ==
    /\ Fault
    /\ ReturnError(o)
    /\ cache' = [cache EXCEPT ![o] = api]
    /\ UNCHANGED <<api, scc, edits>>

Reconcile(o) ==
    /\ pc[o] = "idle" /\ queued[o]
    /\ pc' = [pc EXCEPT ![o] = "crds"]
    /\ queued' = [queued EXCEPT ![o] = FALSE]
    /\ UNCHANGED <<api, cache, scc, copy, edits, faults>>

\* ctrl.CreateOrUpdate of what the manifest says, over what the cache holds.
\* The spec of the Deployment is replaced as a whole, the defaults of the API
\* server with it, so it never is as wanted and an update is always sent.
AsWanted(o, k) == k # "deployment" /\ cache[o][k].spec = "new"

\* Faulty variant: an object that is there is created again.
AcceptedOnce(o, k) == api[k].spec = "none"

\* A creation is refused if the object exists, an update if it has changed.
Accepted(o, k) ==
    IF cache[o][k].spec = "none" THEN api[k].spec = "none" ELSE cache[o][k].rev = api[k].rev

\* An update that changes nothing does not change the resourceVersion.
Stored(x) == IF x.spec = "new" THEN x ELSE Object(x.rev + 1, "new", x.pods)

CreateOrUpdate(o, k, next) ==
    /\ pc[o] = k
    /\ IF AsWanted(o, k)
       THEN UNCHANGED api /\ GoOn(o, next)
       ELSE IF Accepted(o, k)
       THEN api' = [api EXCEPT ![k] = Stored(@)] /\ GoOn(o, next)
       ELSE UNCHANGED <<api, faults>> /\ ReturnError(o)
    /\ UNCHANGED <<cache, scc, edits>>

EnsureCRDs(o) == CreateOrUpdate(o, "crds", "namespace")

\* The namespace is not created, only looked for.
EnsureNamespace(o) ==
    /\ pc[o] = "namespace"
    /\ IF cache[o]["namespace"].spec = "none"
       THEN ReturnError(o) /\ UNCHANGED faults
       ELSE GoOn(o, "accounts")
    /\ UNCHANGED <<api, cache, scc, edits>>

\* The accounts, roles and bindings of Submariner, then those of Lighthouse.
EnsureServiceAccounts(o) == CreateOrUpdate(o, "accounts", "agent")

IsUser(account, users) == \E i \in DOMAIN users : users[i] = account

\* Faulty variant: the error of a list that is null is not looked at.
GetSCCUnchecked(o, account, next) ==
    /\ pc[o] = account /\ copy[o] = NoCopy
    /\ \/ /\ scc.list = "none" \/ IsUser(account, scc.users)
          /\ GoOn(o, next)
       \/ /\ scc.list # "none" /\ ~ IsUser(account, scc.users)
          /\ copy' = [copy EXCEPT ![o] = scc]
          /\ UNCHANGED <<pc, queued, faults>>
    /\ UNCHANGED <<api, cache, scc, edits>>

\* UpdateSCC: the SCC is read.  Without an SCC, or a list of users in it, there
\* is nothing to do; a list that is null is an error.
GetSCC(o, account, next) ==
    /\ pc[o] = account /\ copy[o] = NoCopy
    /\ \/ /\ scc.list = "none" \/ IsUser(account, scc.users)
          /\ GoOn(o, next)
       \/ /\ scc.list = "null"
          /\ ReturnError(o)
          /\ UNCHANGED faults
       \/ /\ scc.list = "there" /\ ~ IsUser(account, scc.users)
          /\ copy' = [copy EXCEPT ![o] = scc]
          /\ UNCHANGED <<pc, queued, faults>>
    /\ UNCHANGED <<api, cache, scc, edits>>

\* Faulty variant: the update does not carry the resourceVersion.
UpdateAcceptedBlindly(o) == TRUE

UpdateAccepted(o) == copy[o].rev = scc.rev

\* Faulty variant: a conflict is no error.
UpdateSCCTolerant(o, account, next) ==
    /\ pc[o] = account /\ copy[o] # NoCopy
    /\ IF UpdateAccepted(o) THEN SetUsers(Append(copy[o].users, account)) ELSE UNCHANGED scc
    /\ GoOn(o, next)
    /\ UNCHANGED <<api, cache, edits>>

\* It is written back with the account in the list.  The error of a conflict is
\* wrapped, so RetryOnConflict does not know it and the reconcile fails.
UpdateSCC(o, account, next) ==
    /\ pc[o] = account /\ copy[o] # NoCopy
    /\ IF UpdateAccepted(o)
       THEN SetUsers(Append(copy[o].users, account)) /\ GoOn(o, next)
       ELSE UNCHANGED <<scc, faults>> /\ ReturnError(o)
    /\ UNCHANGED <<api, cache, edits>>

EnsureSCC(o, account, next) == GetSCC(o, account, next) \/ UpdateSCC(o, account, next)

EnsureAgentSCC(o) == EnsureSCC(o, "agent", "coredns")

EnsureCoreDNSSCC(o) == EnsureSCC(o, "coredns", "deployment")

EnsureDeployment(o) == CreateOrUpdate(o, "deployment", "ready")

\* The Deployment has the condition Available, whichever version its pods are.
Available(d) == d.pods # "none"

\* The first read ends the wait if the cache has not got the Deployment yet.
WaitForReady(o) ==
    /\ pc[o] = "ready"
    /\ LET d == cache[o]["deployment"]
       IN  \/ d.spec = "none" /\ ReturnError(o) /\ UNCHANGED faults
           \/ Available(d) /\ GoOn(o, "idle")
    /\ UNCHANGED <<api, cache, scc, edits>>

\* Ten minutes are over.
WaitTimesOut(o) ==
    /\ pc[o] = "ready"
    /\ cache[o]["deployment"].spec # "none" /\ ~ Available(cache[o]["deployment"])
    /\ ReturnError(o)
    /\ UNCHANGED <<api, cache, scc, edits, faults>>

Work(o) ==
    \/ Reconcile(o)
    \/ EnsureCRDs(o)
    \/ EnsureNamespace(o)
    \/ EnsureServiceAccounts(o)
    \/ EnsureAgentSCC(o)
    \/ EnsureCoreDNSSCC(o)
    \/ EnsureDeployment(o)
    \/ WaitForReady(o)
    \/ WaitTimesOut(o)

AtRest(o) == pc[o] = "idle" /\ ~ queued[o]

\* Nobody has anything to do.
Stutter == (\A o \in Operators : AtRest(o) /\ cache[o] = api) /\ UNCHANGED vars

Next ==
    \/ \E o \in Operators : \/ Work(o)
                            \/ RequestFails(o)
                            \/ Restart(o)
                            \/ Trigger(o)
                            \/ \E k \in Kinds : Deliver(o, k)
    \/ CreateNamespace
    \/ \E u \in OtherUsers : AddOther(u)
    \/ \E i \in DOMAIN scc.users : RemoveOther(i)
    \/ RollOut
    \/ Stutter

Spec == Init /\ [][Next]_vars

\* Every operator goes on with its reconcile, watches deliver, and pods are
\* replaced.  Others and faults owe nothing.
Fairness ==
    /\ \A o \in Operators :
          /\ WF_vars(Work(o))
          /\ WF_vars(\E k \in Kinds : Deliver(o, k))
    /\ WF_vars(RollOut)

FairSpec == Spec /\ Fairness

-----------------------------------------------------------------------------
Objects ==
    [Kinds -> [rev : Nat, spec : {"none", "old", "new"}, pods : {"none", "old", "new"}]]

SCCs(lists) == [rev : Nat, list : lists, users : Seq(OtherUsers \cup Accounts)]

TypeOK ==
    /\ api \in Objects
    /\ cache \in [Operators -> Objects]
    /\ scc \in SCCs({"none", "null", "there"})
    /\ scc.list # "there" => scc.users = <<>>
    /\ pc \in [Operators -> Requests \cup {"idle"}]
    /\ copy \in [Operators -> {NoCopy} \cup SCCs({"there"})]
    /\ queued \in [Operators -> BOOLEAN]
    /\ edits \in 0 .. MaxEdits /\ faults \in 0 .. MaxFaults

\* When an operator has come to rest everything is in place: whatever another
\* operator, the other users of the SCC, faults and lagging caches did meanwhile
\* (submarinerop/ensure.go:32-60, common/scc/utils.go:46-79).
Installed ==
    \A o \in Operators :
        AtRest(o) =>
            /\ \A k \in Kinds : api[k].spec = "new"
            /\ api["deployment"].pods # "none"
            /\ scc.list = "there" =>
                   \A account \in Accounts : IsUser(account, scc.users)

\* An upgrade goes in one order, at any moment and whichever operator makes which
\* part of it: the accounts of this version come after its CRDs, a grant after
\* those accounts, and the Deployment after every grant there is to make, although
\* each part may have been skipped because of what a lagging cache says, or of what
\* an earlier version has left (submarinerop/ensure.go:32-60,
\* common/scc/utils.go:46-79).
UpgradedInOrder ==
    [][ /\ api["accounts"].spec # "new" /\ api'["accounts"].spec = "new" =>
              api["crds"].spec = "new" /\ api["namespace"].spec = "new"
        /\ \A account \in Accounts :
              ~ IsUser(account, scc.users) /\ IsUser(account, scc'.users) =>
                  api["accounts"].spec = "new"
        /\ api["deployment"].spec # "new" /\ api'["deployment"].spec = "new" =>
              /\ api["accounts"].spec = "new"
              /\ scc.list # "none" => \A account \in Accounts : IsUser(account, scc.users) ]_vars

\* The SCC implements the list of users: two operators and the other writers
\* never lose each other's entries, and no account is in it twice
\* (common/scc/utils.go:47-77).
Users == INSTANCE UserList WITH users <- scc.users

UserListKept == Users!Spec

\* The operators come to rest once the namespace exists, the list of users is
\* not null, and others and faults leave them alone: they fail on each other's
\* writes, but not for ever (submarinerop/ensure.go:38-56).
Finishes ==
    <>[](api["namespace"].spec = "new" /\ scc.list # "null")
        => <>[](\A o \in Operators : AtRest(o))
=============================================================================
