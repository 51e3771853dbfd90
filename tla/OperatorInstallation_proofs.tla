--------------------- MODULE OperatorInstallation_proofs ---------------------
(***************************************************************************)
(* Proofs about OperatorInstallation, for any operators, other users and   *)
(* bounds.                                                                 *)
(***************************************************************************)
EXTENDS OperatorInstallation, SequenceTheorems, TLAPS

\* The invariant.

\* What has been in a cache is still there.
CachesBehind ==
    /\ api["namespace"].spec # "old"
    /\ \A k \in Kinds : api[k].spec = "none" => api[k].pods = "none"
    /\ \A o \in Operators :
          /\ cache[o]["namespace"].spec # "old"
          /\ \A k \in Kinds :
                /\ cache[o][k].spec = "new" => api[k].spec = "new"
                /\ cache[o][k].pods # "none" => api[k].pods # "none"

\* A copy with the current resourceVersion has the list of users there is, and
\* the account that is to be added is not in it.
CopyFresh ==
    \A o \in Operators :
        copy[o] # NoCopy =>
            /\ pc[o] \in Accounts /\ ~ IsUser(pc[o], copy[o].users)
            /\ scc.list = "there" /\ copy[o].rev <= scc.rev
            /\ copy[o].rev = scc.rev => copy[o].users = scc.users

\* Without a list of users there is nothing to grant.
Granted(account) == scc.list = "none" \/ IsUser(account, scc.users)

\* The reconcile of an operator has got to one of some steps, or to its end.
Past(o, steps) == pc[o] \in steps \/ AtRest(o)

\* What the earlier steps of a reconcile have put in place is there.
StepsDoneBy(o) ==
    /\ Past(o, Requests \ {"crds"}) => api["crds"].spec = "new"
    /\ Past(o, Requests \ {"crds", "namespace"}) => api["namespace"].spec = "new"
    /\ Past(o, {"agent", "coredns", "deployment", "ready"}) => api["accounts"].spec = "new"
    /\ Past(o, {"coredns", "deployment", "ready"}) => Granted("agent")
    /\ Past(o, {"deployment", "ready"}) => Granted("coredns")
    /\ Past(o, {"ready"}) => api["deployment"].spec = "new"
    /\ AtRest(o) => api["deployment"].pods # "none"

StepsDone == \A o \in Operators : StepsDoneBy(o)

IInv == TypeOK /\ CachesBehind /\ CopyFresh /\ StepsDone

-----------------------------------------------------------------------------
\* Lists of users.

LEMMA Appended ==
    ASSUME NEW S, NEW s \in Seq(S), NEW u \in S
    PROVE  /\ Append(s, u) \in Seq(S)
           /\ \A account : IsUser(account, Append(s, u)) <=> IsUser(account, s) \/ account = u
  <1>1. /\ Append(s, u) \in Seq(S)
        /\ DOMAIN s = 1 .. Len(s) /\ Len(s) \in Nat
        /\ DOMAIN Append(s, u) = 1 .. Len(s) + 1
        /\ \A i \in 1 .. Len(s) : Append(s, u)[i] = s[i]
        /\ Append(s, u)[Len(s) + 1] = u
    OBVIOUS
  <1> QED BY <1>1 DEF IsUser

LEMMA Removed ==
    ASSUME NEW S, NEW s \in Seq(S), NEW i \in DOMAIN s
    PROVE  /\ RemoveAt(s, i) \in Seq(S)
           /\ DOMAIN RemoveAt(s, i) = 1 .. Len(s) - 1
           /\ \A j \in 1 .. Len(s) - 1 : RemoveAt(s, i)[j] = IF j < i THEN s[j] ELSE s[j + 1]
  <1> DEFINE front == SubSeq(s, 1, i - 1)
             rest  == SubSeq(s, i + 1, Len(s))
  <1>1. /\ Len(s) \in Nat /\ i \in 1 .. Len(s)
        /\ \A j \in 1 .. Len(s) : s[j] \in S
    OBVIOUS
  <1>2. /\ front \in Seq(S) /\ Len(front) = i - 1
        /\ \A j \in 1 .. i - 1 : front[j] = s[j]
    BY <1>1
  <1>3. /\ rest \in Seq(S) /\ Len(rest) = Len(s) - i
        /\ \A j \in 1 .. Len(s) - i : rest[j] = s[i + j]
    BY <1>1
  <1>4. RemoveAt(s, i) = front \o rest
    BY DEF RemoveAt
  <1> HIDE DEF front, rest
  <1> DEFINE whole == front \o rest
  <1>5. /\ whole \in Seq(S)
        /\ Len(whole) = Len(front) + Len(rest)
        /\ \A j \in 1 .. Len(front) + Len(rest) :
              whole[j] = IF j <= Len(front) THEN front[j] ELSE rest[j - Len(front)]
    BY <1>2, <1>3, ConcatProperties
  <1>6. Len(front) + Len(rest) = Len(s) - 1
    BY <1>1, <1>2, <1>3
  <1> HIDE DEF whole
  <1>7. /\ whole \in Seq(S)
        /\ Len(whole) = Len(s) - 1
        /\ \A j \in 1 .. Len(s) - 1 :
              whole[j] = IF j <= i - 1 THEN front[j] ELSE rest[j - (i - 1)]
    BY <1>5, <1>6, <1>2
  <1>8. DOMAIN whole = 1 .. Len(s) - 1
    BY <1>7
  <1>9. ASSUME NEW j \in 1 .. Len(s) - 1
        PROVE  whole[j] = IF j < i THEN s[j] ELSE s[j + 1]
    <2>1. CASE j < i
      BY <2>1, <1>1, <1>2, <1>7
    <2>2. CASE ~ j < i
      <3>1. j - (i - 1) \in 1 .. Len(s) - i /\ i + (j - (i - 1)) = j + 1
        BY <2>2, <1>1
      <3>2. rest[j - (i - 1)] = s[j + 1]
        BY <3>1, <1>3
      <3> QED BY <3>2, <2>2, <1>1, <1>7
    <2> QED BY <2>1, <2>2
  <1> QED BY <1>4, <1>7, <1>8, <1>9 DEF whole

\* An account that is not the one taken out stays in the list.
LEMMA RemovedOther ==
    ASSUME NEW S, NEW s \in Seq(S), NEW i \in DOMAIN s, NEW account, account # s[i]
    PROVE  IsUser(account, RemoveAt(s, i)) <=> IsUser(account, s)
  <1>1. DOMAIN s = 1 .. Len(s) /\ Len(s) \in Nat
    OBVIOUS
  <1> DEFINE t == RemoveAt(s, i)
  <1>2. /\ DOMAIN t = 1 .. Len(s) - 1
        /\ \A j \in 1 .. Len(s) - 1 : t[j] = IF j < i THEN s[j] ELSE s[j + 1]
    BY Removed
  <1> HIDE DEF t
  <1>3. ASSUME NEW j \in DOMAIN t, t[j] = account
        PROVE  \E k \in DOMAIN s : s[k] = account
    <2>1. j \in DOMAIN s /\ j + 1 \in DOMAIN s
      BY <1>1, <1>2, <1>3
    <2> QED BY <2>1, <1>1, <1>2, <1>3
  <1>4. ASSUME NEW k \in DOMAIN s, s[k] = account
        PROVE  \E j \in DOMAIN t : t[j] = account
    <2>1. CASE k < i
      BY <2>1, <1>1, <1>2, <1>4
    <2>2. CASE k > i
      <3>1. k - 1 \in 1 .. Len(s) - 1 /\ ~ k - 1 < i /\ (k - 1) + 1 = k
        BY <2>2, <1>1
      <3> QED BY <3>1, <1>2, <1>4
    <2>3. k # i
      BY <1>4
    <2> QED BY <2>1, <2>2, <2>3, <1>1
  <1> QED BY <1>3, <1>4 DEF IsUser, t

-----------------------------------------------------------------------------
\* Types.

Specs == {"none", "old", "new"}

LEMMA ObjectType ==
    ASSUME NEW rev \in Nat, NEW spec \in Specs, NEW pods \in Specs
    PROVE  Object(rev, spec, pods) \in [rev : Nat, spec : Specs, pods : Specs]
  BY DEF Object

LEMMA ObjectsType == Objects = [Kinds -> [rev : Nat, spec : Specs, pods : Specs]]
  BY DEF Objects, Specs

\* What the worker does with its own variables when a request is over: it goes
\* on, or returns an error.
Moves(o, next) ==
    /\ pc' = [pc EXCEPT ![o] = pc'[o]]
    /\ queued' = [queued EXCEPT ![o] = queued'[o]]
    /\ copy' = [copy EXCEPT ![o] = NoCopy]
    /\ \/ pc'[o] = next /\ queued'[o] = queued[o]
       \/ pc'[o] = "idle" /\ queued'[o] = TRUE
    /\ faults' \in 0 .. MaxFaults

LEMMA ReturnErrorMoves ==
    ASSUME TypeOK, NEW o \in Operators, NEW next, ReturnError(o),
           UNCHANGED faults \/ Fault
    PROVE  Moves(o, next)
  BY ConstantsAssumption DEF TypeOK, ReturnError, Fault, Moves

LEMMA GoOnMoves ==
    ASSUME TypeOK, NEW o \in Operators, NEW next, GoOn(o, next)
    PROVE  Moves(o, next)
  <1>1. CASE ReturnError(o) /\ Fault
    BY <1>1, ReturnErrorMoves
  <1>2. CASE /\ pc' = [pc EXCEPT ![o] = next]
             /\ copy' = [copy EXCEPT ![o] = NoCopy]
             /\ UNCHANGED <<queued, faults>>
    BY <1>2 DEF TypeOK, Moves
  <1> QED BY <1>1, <1>2 DEF GoOn

LEMMA MovesType ==
    ASSUME TypeOK, NEW o \in Operators, NEW next \in Requests \cup {"idle"}, Moves(o, next)
    PROVE  /\ pc' \in [Operators -> Requests \cup {"idle"}]
           /\ copy' \in [Operators -> {NoCopy} \cup SCCs({"there"})]
           /\ queued' \in [Operators -> BOOLEAN]
           /\ faults' \in 0 .. MaxFaults
  <1>1. pc'[o] \in Requests \cup {"idle"} /\ queued'[o] \in BOOLEAN
    BY DEF Moves, TypeOK
  <1> QED BY <1>1 DEF Moves, TypeOK

\* Each part of the installation, as what it does to the objects and where the
\* worker goes.
LEMMA CreateOrUpdateMoves ==
    ASSUME TypeOK, CachesBehind, NEW o \in Operators, NEW k \in Kinds, NEW next,
           CreateOrUpdate(o, k, next)
    PROVE  /\ pc[o] = k /\ UNCHANGED <<cache, scc, edits>> /\ Moves(o, next)
           /\ UNCHANGED api \/ api' = [api EXCEPT ![k] = Stored(@)]
           /\ pc'[o] = next /\ next # "idle" => api'[k].spec = "new"
  <1>1. CASE AsWanted(o, k) /\ UNCHANGED api /\ GoOn(o, next)
    <2>1. api'[k].spec = "new"
      BY <1>1 DEF AsWanted, CachesBehind
    <2> QED BY <1>1, <2>1, GoOnMoves DEF CreateOrUpdate
  <1>2. CASE api' = [api EXCEPT ![k] = Stored(@)] /\ GoOn(o, next)
    <2>1. api'[k] = Stored(api[k])
      BY <1>2 DEF TypeOK, Objects
    <2>2. api'[k].spec = "new"
      BY <2>1 DEF Stored, Object
    <2> QED BY <1>2, <2>2, GoOnMoves DEF CreateOrUpdate
  <1>3. CASE UNCHANGED <<api, faults>> /\ ReturnError(o)
    <2>1. pc'[o] = "idle"
      BY <1>3 DEF ReturnError, TypeOK
    <2> QED BY <1>3, <2>1, ReturnErrorMoves DEF CreateOrUpdate
  <1> QED BY <1>1, <1>2, <1>3 DEF CreateOrUpdate

\* The users of the SCC: whoever changes them.
LEMMA SetUsersType ==
    ASSUME TypeOK, NEW users \in Seq(OtherUsers \cup Accounts), SetUsers(users)
    PROVE  /\ scc' \in SCCs({"none", "null", "there"})
           /\ scc'.list = "there" /\ scc'.users = users /\ scc'.rev = scc.rev + 1
  BY DEF TypeOK, SCCs, SetUsers, SCC

\* GetSCC changes nothing but the worker's variables.
LEMMA GetSCCMoves ==
    ASSUME TypeOK, NEW o \in Operators, NEW account \in Accounts, NEW next,
           GetSCC(o, account, next)
    PROVE  /\ pc[o] = account /\ UNCHANGED <<api, cache, scc, edits>>
           /\ \/ /\ Moves(o, next)
                 /\ pc'[o] = next /\ next # "idle" => Granted(account)
              \/ /\ copy' = [copy EXCEPT ![o] = scc]
                 /\ UNCHANGED <<pc, queued, faults>>
                 /\ scc.list = "there" /\ ~ IsUser(account, scc.users)
  <1>1. CASE (scc.list = "none" \/ IsUser(account, scc.users)) /\ GoOn(o, next)
    BY <1>1, GoOnMoves DEF GetSCC, Granted
  <1>2. CASE ReturnError(o) /\ UNCHANGED faults
    <2>1. pc'[o] = "idle"
      BY <1>2 DEF ReturnError, TypeOK
    <2> QED BY <1>2, <2>1, ReturnErrorMoves DEF GetSCC
  <1>3. CASE /\ scc.list = "there" /\ ~ IsUser(account, scc.users)
             /\ copy' = [copy EXCEPT ![o] = scc]
             /\ UNCHANGED <<pc, queued, faults>>
    BY <1>3 DEF GetSCC
  <1> QED BY <1>1, <1>2, <1>3 DEF GetSCC

\* An update that is accepted adds the account to the list there is.
LEMMA UpdateSCCMoves ==
    ASSUME TypeOK, CopyFresh, NEW o \in Operators, NEW account \in Accounts, NEW next,
           UpdateSCC(o, account, next)
    PROVE  /\ pc[o] = account /\ UNCHANGED <<api, cache, edits>> /\ Moves(o, next)
           /\ scc.list = "there"
           /\ \/ UNCHANGED scc /\ pc'[o] = "idle"
              \/ SetUsers(Append(scc.users, account)) /\ ~ IsUser(account, scc.users)
  <1>1. /\ pc[o] = account /\ copy[o] # NoCopy /\ UNCHANGED <<api, cache, edits>>
        /\ scc.list = "there" /\ ~ IsUser(account, copy[o].users)
        /\ UpdateAccepted(o) => copy[o].users = scc.users
    BY DEF UpdateSCC, CopyFresh, UpdateAccepted
  <1>2. CASE UpdateAccepted(o)
    BY <1>1, <1>2, GoOnMoves DEF UpdateSCC
  <1>3. CASE ~ UpdateAccepted(o)
    <2>1. UNCHANGED <<scc, faults>> /\ ReturnError(o)
      BY <1>3 DEF UpdateSCC
    <2>2. pc'[o] = "idle"
      BY <2>1 DEF ReturnError, TypeOK
    <2> QED BY <1>1, <2>1, <2>2, ReturnErrorMoves
  <1> QED BY <1>2, <1>3

\* The other steps of the worker.
LEMMA EnsureNamespaceMoves ==
    ASSUME TypeOK, CachesBehind, NEW o \in Operators, EnsureNamespace(o)
    PROVE  /\ pc[o] = "namespace" /\ UNCHANGED <<api, cache, scc, edits>>
           /\ Moves(o, "accounts")
           /\ pc'[o] = "accounts" => api["namespace"].spec = "new"
  <1>1. CASE cache[o]["namespace"].spec = "none"
    <2>1. ReturnError(o) /\ UNCHANGED faults
      BY <1>1 DEF EnsureNamespace
    <2>2. pc'[o] = "idle"
      BY <2>1 DEF ReturnError, TypeOK
    <2> QED BY <2>1, <2>2, ReturnErrorMoves DEF EnsureNamespace
  <1>2. CASE cache[o]["namespace"].spec # "none"
    <2>1. "namespace" \in Kinds /\ cache[o]["namespace"].spec \in {"none", "old", "new"}
      BY DEF Kinds, TypeOK, Objects
    <2>2. api["namespace"].spec = "new"
      BY <1>2, <2>1 DEF CachesBehind
    <2> QED BY <1>2, <2>2, GoOnMoves DEF EnsureNamespace
  <1> QED BY <1>1, <1>2

LEMMA WaitForReadyMoves ==
    ASSUME TypeOK, CachesBehind, NEW o \in Operators, WaitForReady(o) \/ WaitTimesOut(o)
    PROVE  /\ pc[o] = "ready" /\ UNCHANGED <<api, cache, scc, edits>>
           /\ Moves(o, "idle") /\ pc'[o] = "idle"
           /\ ~ queued'[o] => api["deployment"].pods # "none"
  <1>1. pc[o] = "ready" /\ UNCHANGED <<api, cache, scc, edits>>
    BY DEF WaitForReady, WaitTimesOut
  <1>2. CASE ReturnError(o) /\ UNCHANGED faults
    <2>1. pc'[o] = "idle" /\ queued'[o]
      BY <1>2 DEF ReturnError, TypeOK
    <2> QED BY <1>1, <1>2, <2>1, ReturnErrorMoves
  <1>3. CASE Available(cache[o]["deployment"]) /\ GoOn(o, "idle")
    <2>1. api["deployment"].pods # "none"
      BY <1>3 DEF Available, CachesBehind, Kinds
    <2>2. Moves(o, "idle")
      BY <1>3, GoOnMoves
    <2>3. pc'[o] = "idle"
      BY <2>2 DEF Moves
    <2> QED BY <1>1, <2>1, <2>2, <2>3
  <1> QED BY <1>2, <1>3 DEF WaitForReady, WaitTimesOut

-----------------------------------------------------------------------------
\* What a step does to the objects and to the SCC: nothing that is in place
\* goes away.
ApiKept ==
    /\ api' \in Objects
    /\ api'["namespace"].spec # "old"
    /\ \A k \in Kinds :
          /\ api'[k].spec = "none" => api'[k].pods = "none"
          /\ api[k].spec = "new" => api'[k].spec = "new"
          /\ api[k].pods # "none" => api'[k].pods # "none"

SCCKept ==
    \/ UNCHANGED scc
    \/ /\ scc.list # "none"
       /\ scc' \in SCCs({"none", "null", "there"})
       /\ scc'.list = "there" /\ scc'.rev = scc.rev + 1
       /\ \A account \in Accounts : IsUser(account, scc.users) => IsUser(account, scc'.users)

LEMMA ApiUnchanged ==
    ASSUME TypeOK, CachesBehind, UNCHANGED api
    PROVE  ApiKept
  BY DEF TypeOK, CachesBehind, ApiKept

LEMMA ApiChanged ==
    ASSUME TypeOK, CachesBehind, NEW k \in Kinds, NEW x \in [rev : Nat, spec : Specs, pods : Specs],
           api' = [api EXCEPT ![k] = x],
           x.spec # "none", k = "namespace" => x.spec = "new",
           api[k].spec = "new" => x.spec = "new",
           api[k].pods # "none" => x.pods # "none"
    PROVE  ApiKept
  <1>1. api \in [Kinds -> [rev : Nat, spec : Specs, pods : Specs]]
    BY ObjectsType DEF TypeOK
  <1>2. api' \in Objects
    BY <1>1, ObjectsType
  <1>3. "namespace" \in Kinds
    BY DEF Kinds
  <1> QED BY <1>1, <1>2, <1>3 DEF ApiKept, CachesBehind

LEMMA StoredKept ==
    ASSUME TypeOK, CachesBehind, NEW k \in Kinds, api' = [api EXCEPT ![k] = Stored(@)]
    PROVE  ApiKept
  <1>1. api[k] \in [rev : Nat, spec : Specs, pods : Specs]
    BY ObjectsType DEF TypeOK
  <1>2. /\ Stored(api[k]) \in [rev : Nat, spec : Specs, pods : Specs]
        /\ Stored(api[k]).spec = "new" /\ Stored(api[k]).pods = api[k].pods
    BY <1>1 DEF Stored, Object, Specs
  <1> QED BY <1>2, ApiChanged

LEMMA CreateNamespaceKept ==
    ASSUME TypeOK, CachesBehind, CreateNamespace
    PROVE  ApiKept
  <1> DEFINE x == Object(1, "new", "none")
  <1>1. "namespace" \in Kinds /\ api["namespace"].spec = "none"
    BY DEF Kinds, CreateNamespace
  <1>2. x \in [rev : Nat, spec : Specs, pods : Specs] /\ x.spec = "new" /\ x.pods = "none"
    BY DEF Object, Specs
  <1>3. api["namespace"].pods = "none"
    BY <1>1 DEF CachesBehind
  <1>4. api' = [api EXCEPT !["namespace"] = x]
    BY DEF CreateNamespace
  <1> QED BY <1>1, <1>2, <1>3, <1>4, ApiChanged

LEMMA RollOutKept ==
    ASSUME TypeOK, CachesBehind, RollOut
    PROVE  ApiKept
  <1> DEFINE d == api["deployment"]
             x == Object(d.rev + 1, d.spec, d.spec)
  <1>1. "deployment" \in Kinds /\ d \in [rev : Nat, spec : Specs, pods : Specs]
    BY ObjectsType DEF Kinds, TypeOK
  <1>2. d.spec # "none"
    BY <1>1 DEF RollOut, CachesBehind
  <1>3. x \in [rev : Nat, spec : Specs, pods : Specs] /\ x.spec = d.spec /\ x.pods = d.spec
    BY <1>1 DEF Object
  <1>4. api' = [api EXCEPT !["deployment"] = x]
    BY DEF RollOut
  <1> QED BY <1>1, <1>2, <1>3, <1>4, ApiChanged

\* The SCC loses nobody but others.
LEMMA AppendKept ==
    ASSUME TypeOK, scc.list # "none", NEW u \in OtherUsers \cup Accounts,
           SetUsers(Append(scc.users, u))
    PROVE  SCCKept
  <1>1. scc.users \in Seq(OtherUsers \cup Accounts)
    BY DEF TypeOK, SCCs
  <1>2. /\ Append(scc.users, u) \in Seq(OtherUsers \cup Accounts)
        /\ \A account \in Accounts :
              IsUser(account, scc.users) => IsUser(account, Append(scc.users, u))
    BY <1>1, Appended
  <1> QED BY <1>2, SetUsersType DEF SCCKept

LEMMA RemoveOtherKept ==
    ASSUME TypeOK, NEW i \in DOMAIN scc.users, RemoveOther(i)
    PROVE  SCCKept
  <1>1. scc.users \in Seq(OtherUsers \cup Accounts)
    BY DEF TypeOK, SCCs
  <1>2. RemoveAt(scc.users, i) \in Seq(OtherUsers \cup Accounts)
    BY <1>1, Removed
  <1>3. SetUsers(RemoveAt(scc.users, i)) /\ scc.users[i] \in OtherUsers
    BY DEF RemoveOther
  <1>4. ASSUME NEW account \in Accounts, IsUser(account, scc.users)
        PROVE  IsUser(account, RemoveAt(scc.users, i))
    <2>1. account # scc.users[i]
      BY <1>3, ConstantsAssumption
    <2> QED BY <1>1, <1>4, <2>1, RemovedOther
  <1>5. scc.users # <<>>
    OBVIOUS
  <1>6. scc.list # "none"
    BY <1>5 DEF TypeOK
  <1> QED BY <1>2, <1>3, <1>4, <1>6, SetUsersType DEF SCCKept

-----------------------------------------------------------------------------
\* The parts of the invariant after a step.

LEMMA CachesBehindKept ==
    ASSUME CachesBehind, ApiKept, UNCHANGED cache
    PROVE  CachesBehind'
  BY DEF CachesBehind, ApiKept

LEMMA CopyFreshKept ==
    ASSUME TypeOK, CopyFresh, SCCKept, UNCHANGED <<pc, copy>>
    PROVE  CopyFresh'
  <1> SUFFICES ASSUME NEW o \in Operators, copy[o] # NoCopy
               PROVE  /\ pc[o] \in Accounts /\ ~ IsUser(pc[o], copy[o].users)
                      /\ scc'.list = "there" /\ copy[o].rev <= scc'.rev
                      /\ copy[o].rev = scc'.rev => copy[o].users = scc'.users
    BY DEF CopyFresh
  <1>1. /\ pc[o] \in Accounts /\ ~ IsUser(pc[o], copy[o].users)
        /\ scc.list = "there" /\ copy[o].rev <= scc.rev
        /\ copy[o].rev = scc.rev => copy[o].users = scc.users
    BY DEF CopyFresh
  <1>2. copy[o].rev \in Nat /\ scc.rev \in Nat
    BY DEF TypeOK, SCCs
  <1> QED BY <1>1, <1>2 DEF SCCKept

LEMMA CopyFreshMoved ==
    ASSUME TypeOK, CopyFresh, SCCKept, NEW o \in Operators, NEW next, Moves(o, next)
    PROVE  CopyFresh'
  <1> SUFFICES ASSUME NEW p \in Operators, copy'[p] # NoCopy
               PROVE  /\ pc'[p] \in Accounts /\ ~ IsUser(pc'[p], copy'[p].users)
                      /\ scc'.list = "there" /\ copy'[p].rev <= scc'.rev
                      /\ copy'[p].rev = scc'.rev => copy'[p].users = scc'.users
    BY DEF CopyFresh
  <1>1. p # o /\ copy'[p] = copy[p] /\ pc'[p] = pc[p]
    BY DEF Moves, TypeOK
  <1>2. /\ pc[p] \in Accounts /\ ~ IsUser(pc[p], copy[p].users)
        /\ scc.list = "there" /\ copy[p].rev <= scc.rev
        /\ copy[p].rev = scc.rev => copy[p].users = scc.users
    BY <1>1 DEF CopyFresh
  <1>3. copy[p].rev \in Nat /\ scc.rev \in Nat
    BY <1>1 DEF TypeOK, SCCs
  <1> QED BY <1>1, <1>2, <1>3 DEF SCCKept

LEMMA GrantedKept ==
    ASSUME SCCKept, NEW account \in Accounts, Granted(account)
    PROVE  Granted(account)'
  BY DEF SCCKept, Granted, IsUser

LEMMA StepsDoneKept ==
    ASSUME ApiKept, SCCKept, NEW o \in Operators, StepsDoneBy(o),
           pc'[o] = pc[o], queued'[o] \in {queued[o], TRUE}
    PROVE  StepsDoneBy(o)'
  <1>1. /\ AtRest(o)' => AtRest(o)
        /\ \A steps : pc'[o] \in steps => pc[o] \in steps
    BY DEF AtRest
  <1>2. \A k \in Kinds : api[k].spec = "new" => api'[k].spec = "new"
    BY DEF ApiKept
  <1>3. api["deployment"].pods # "none" => api'["deployment"].pods # "none"
    BY DEF ApiKept, Kinds
  <1>4. (Granted("agent") => Granted("agent")') /\ (Granted("coredns") => Granted("coredns")')
    BY GrantedKept, ConstantsAssumption
  <1> QED BY <1>1, <1>2, <1>3, <1>4 DEF StepsDoneBy, Past, Kinds

LEMMA StepsDoneReturned ==
    ASSUME NEW o \in Operators, pc'[o] = "idle", queued'[o] = TRUE
    PROVE  StepsDoneBy(o)'
  BY ConstantsAssumption DEF StepsDoneBy, Past, AtRest, Requests, Kinds

\* A worker that goes on has to show for its own operator what it has done.
LEMMA StepsDoneMoved ==
    ASSUME TypeOK, ApiKept, SCCKept, StepsDone, NEW o \in Operators, NEW next, Moves(o, next),
           pc'[o] = next /\ queued'[o] = queued[o] => StepsDoneBy(o)'
    PROVE  StepsDone'
  <1> SUFFICES ASSUME NEW p \in Operators
               PROVE  StepsDoneBy(p)'
    BY DEF StepsDone
  <1>1. CASE p # o
    <2>1. pc'[p] = pc[p] /\ queued'[p] = queued[p]
      BY <1>1 DEF Moves, TypeOK
    <2> QED BY <2>1, StepsDoneKept DEF StepsDone
  <1>2. CASE p = o /\ pc'[o] = "idle" /\ queued'[o] = TRUE
    BY <1>2, StepsDoneReturned
  <1> QED BY <1>1, <1>2 DEF Moves

LEMMA TypeKept ==
    ASSUME TypeOK, ApiKept, SCCKept, edits' \in 0 .. MaxEdits,
           \/ UNCHANGED cache
           \/ \E o \in Operators : cache' = [cache EXCEPT ![o] = api]
           \/ \E o \in Operators, k \in Kinds : cache' = [cache EXCEPT ![o][k] = api[k]],
           /\ pc' \in [Operators -> Requests \cup {"idle"}]
           /\ copy' \in [Operators -> {NoCopy} \cup SCCs({"there"})]
           /\ queued' \in [Operators -> BOOLEAN]
           /\ faults' \in 0 .. MaxFaults
    PROVE  TypeOK'
  <1>1. cache' \in [Operators -> Objects]
    <2>1. CASE UNCHANGED cache \/ \E o \in Operators : cache' = [cache EXCEPT ![o] = api]
      BY <2>1 DEF TypeOK
    <2>2. ASSUME NEW o \in Operators, NEW k \in Kinds, cache' = [cache EXCEPT ![o][k] = api[k]]
          PROVE  cache' \in [Operators -> Objects]
      <3>1. api[k] \in [rev : Nat, spec : Specs, pods : Specs]
        BY ObjectsType DEF TypeOK
      <3>2. [cache[o] EXCEPT ![k] = api[k]] \in Objects
        BY <3>1, ObjectsType DEF TypeOK
      <3>3. cache' = [cache EXCEPT ![o] = [cache[o] EXCEPT ![k] = api[k]]]
        BY <2>2 DEF TypeOK
      <3> QED BY <3>2, <3>3 DEF TypeOK
    <2> QED BY <2>1, <2>2
  <1>2. scc' \in SCCs({"none", "null", "there"}) /\ (scc'.list # "there" => scc'.users = <<>>)
    BY DEF SCCKept, TypeOK
  <1>3. api' \in Objects
    BY DEF ApiKept
  <1> QED BY <1>1, <1>2, <1>3 DEF TypeOK

\* A request that is over, whatever it was.
LEMMA RequestKept ==
    ASSUME IInv, ApiKept, SCCKept, NEW o \in Operators, NEW next \in Requests \cup {"idle"},
           Moves(o, next), UNCHANGED <<cache, edits>>,
           pc'[o] = next /\ queued'[o] = queued[o] => StepsDoneBy(o)'
    PROVE  IInv'
  <1>1. TypeOK'
    BY MovesType, TypeKept DEF IInv, TypeOK
  <1> QED BY <1>1, CachesBehindKept, CopyFreshMoved, StepsDoneMoved DEF IInv

\* A step that leaves the operators where they are.
LEMMA OthersKept ==
    ASSUME IInv, ApiKept, SCCKept, edits' \in 0 .. MaxEdits,
           UNCHANGED <<cache, operatorVars, faults>>
    PROVE  IInv'
  <1>1. TypeOK'
    BY TypeKept DEF IInv, TypeOK, operatorVars
  <1>2. CachesBehind' /\ CopyFresh'
    BY CachesBehindKept, CopyFreshKept DEF IInv, operatorVars
  <1>3. StepsDone'
    BY StepsDoneKept DEF IInv, StepsDone, operatorVars
  <1> QED BY <1>1, <1>2, <1>3 DEF IInv

-----------------------------------------------------------------------------
\* The invariant holds in the initial states, and every step keeps it.

\* The users the SCC begins with.
LEMMA InitUsers ==
    ASSUME Init
    PROVE  /\ scc.users \in Seq(OtherUsers \cup Accounts)
           /\ \A account \in Accounts : \A i, j \in DOMAIN scc.users :
                 scc.users[i] = account /\ scc.users[j] = account => i = j
  <1>1. "agent" \in Accounts /\ "coredns" \in Accounts
    BY ConstantsAssumption
  <1>2. CASE scc.users = <<>>
    BY <1>2
  <1>3. ASSUME NEW others \in {<<>>} \cup {<<u>> : u \in OtherUsers},
               NEW grants \in {<<>>, <<"agent", "coredns">>}, scc.users = others \o grants
        PROVE  /\ scc.users \in Seq(OtherUsers \cup Accounts)
               /\ \A account \in Accounts : \A i, j \in DOMAIN scc.users :
                     scc.users[i] = account /\ scc.users[j] = account => i = j
    <2>1. /\ others \in Seq(OtherUsers) /\ grants \in Seq(Accounts)
          /\ Len(others) \in {0, 1} /\ Len(grants) \in {0, 2}
          /\ Len(grants) = 2 => grants[1] = "agent" /\ grants[2] = "coredns"
      <3>1. others \in Seq(OtherUsers) /\ Len(others) \in {0, 1}
        <4>1. CASE others = <<>>
          BY <4>1
        <4>2. ASSUME NEW u \in OtherUsers, others = <<u>>
              PROVE  others \in Seq(OtherUsers) /\ Len(others) \in {0, 1}
          BY <4>2
        <4> QED BY <4>1, <4>2
      <3>2. CASE grants = <<>>
        BY <3>1, <3>2
      <3>3. CASE grants = <<"agent", "coredns">>
        BY <1>1, <3>1, <3>3
      <3> QED BY <3>2, <3>3
    <2>2. /\ others \in Seq(OtherUsers \cup Accounts) /\ grants \in Seq(OtherUsers \cup Accounts)
          /\ \A i \in 1 .. Len(others) : others[i] \in OtherUsers
      BY <2>1
    <2> DEFINE users == others \o grants
    <2>3. /\ users \in Seq(OtherUsers \cup Accounts)
          /\ Len(users) = Len(others) + Len(grants)
          /\ \A i \in 1 .. Len(others) + Len(grants) :
                users[i] = IF i <= Len(others) THEN others[i] ELSE grants[i - Len(others)]
      BY <2>2, ConcatProperties
    <2> HIDE DEF users
    <2>4. DOMAIN users = 1 .. Len(others) + Len(grants)
      BY <2>3
    <2>5. ASSUME NEW account \in Accounts, NEW i \in DOMAIN users, users[i] = account
          PROVE  /\ i > Len(others) /\ Len(grants) = 2
                 /\ \/ account = "agent" /\ i = Len(others) + 1
                    \/ account = "coredns" /\ i = Len(others) + 2
      <3>1. i > Len(others)
        BY <2>1, <2>2, <2>3, <2>4, <2>5, ConstantsAssumption
      <3>2. i - Len(others) \in 1 .. Len(grants) /\ grants[i - Len(others)] = account
        BY <3>1, <2>1, <2>3, <2>4, <2>5
      <3>3. Len(grants) = 2 /\ i - Len(others) \in {1, 2}
        BY <3>2, <2>1
      <3>4. /\ i - Len(others) = 1 => account = "agent"
            /\ i - Len(others) = 2 => account = "coredns"
        BY <3>2, <3>3, <2>1
      <3> QED BY <3>1, <3>3, <3>4, <2>1, <2>4
    <2>6. \A account \in Accounts : \A i, j \in DOMAIN users :
             users[i] = account /\ users[j] = account => i = j
      BY <2>5
    <2> QED BY <1>3, <2>3, <2>6 DEF users
  <1>4. \/ scc.users = <<>>
        \/ \E others \in {<<>>} \cup {<<u>> : u \in OtherUsers},
              grants \in {<<>>, <<"agent", "coredns">>} : scc.users = others \o grants
    <2>1. \A earlier : EarlierGrants(earlier) \subseteq {<<>>, <<"agent", "coredns">>}
      BY DEF EarlierGrants
    <2>2. \/ \E list \in {"none", "null"} : scc = SCC(1, list, <<>>)
          \/ \E others \in {<<>>} \cup {<<u>> : u \in OtherUsers},
                grants \in {<<>>, <<"agent", "coredns">>} : scc = SCC(1, "there", others \o grants)
      BY <2>1, Zenon DEF Init
    <2>3. \A list, users : scc = SCC(1, list, users) => scc.users = users
      BY DEF SCC
    <2> QED BY <2>2, <2>3
  <1> QED BY <1>2, <1>3, <1>4

LEMMA InitInv == Init => IInv
  <1> SUFFICES ASSUME Init PROVE IInv
    OBVIOUS
  <1> PICK earlier \in {"none", "old"}, namespace \in {"none", "new"} :
          api = [k \in Kinds |->
                    CASE k = "deployment" -> Object(0, earlier, earlier)
                      [] k = "namespace"  -> Object(0, namespace, "none")
                      [] OTHER            -> Object(0, earlier, "none")]
    BY DEF Init
  <1>1. \A k \in Kinds : api[k] \in [rev : Nat, spec : Specs, pods : Specs]
    BY DEF Object, Specs
  <1>2. api \in Objects
    BY <1>1, ObjectsType
  <1>3. \A k \in Kinds : /\ k = "namespace" => api[k].spec # "old"
                         /\ api[k].spec = "none" => api[k].pods = "none"
    BY DEF Object
  <1>4. \A o \in Operators : cache[o] = api
    BY DEF Init
  <1>5. CachesBehind
    BY <1>3, <1>4 DEF CachesBehind, Kinds
  <1>6. /\ scc \in SCCs({"none", "null", "there"})
        /\ scc.list # "there" => scc.users = <<>>
    <2>1. scc.rev = 1 /\ scc = SCC(scc.rev, scc.list, scc.users)
      BY DEF Init, SCC
    <2>2. /\ scc.list \in {"none", "null", "there"}
          /\ scc.list # "there" => scc.users = <<>>
      BY DEF Init, SCC
    <2>3. scc.users \in Seq(OtherUsers \cup Accounts)
      BY InitUsers
    <2> QED BY <2>1, <2>2, <2>3 DEF SCC, SCCs
  <1>7. TypeOK
    <2>1. /\ cache = [o \in Operators |-> api] /\ pc = [o \in Operators |-> "idle"]
          /\ copy = [o \in Operators |-> NoCopy] /\ queued = [o \in Operators |-> TRUE]
          /\ edits = 0 /\ faults = 0
      BY DEF Init
    <2>2. /\ cache \in [Operators -> Objects]
          /\ pc \in [Operators -> Requests \cup {"idle"}]
          /\ copy \in [Operators -> {NoCopy} \cup SCCs({"there"})]
          /\ queued \in [Operators -> BOOLEAN]
      BY <1>2, <2>1
    <2>3. edits \in 0 .. MaxEdits /\ faults \in 0 .. MaxFaults
      BY <2>1, ConstantsAssumption
    <2> QED BY <1>2, <1>6, <2>2, <2>3 DEF TypeOK
  <1>8. CopyFresh
    BY DEF Init, CopyFresh
  <1>9. StepsDone
    BY ConstantsAssumption
       DEF Init, StepsDone, StepsDoneBy, Past, AtRest, Requests, Kinds
  <1> QED BY <1>5, <1>7, <1>8, <1>9 DEF IInv

\* The facts about earlier steps, where a worker goes on.
LEMMA EarlierKept ==
    ASSUME ApiKept, SCCKept, NEW o \in Operators, StepsDoneBy(o)
    PROVE  /\ pc[o] \in Requests \ {"crds"} => api'["crds"].spec = "new"
           /\ pc[o] \in Requests \ {"crds", "namespace"} => api'["namespace"].spec = "new"
           /\ pc[o] \in {"agent", "coredns", "deployment", "ready"} => api'["accounts"].spec = "new"
           /\ pc[o] \in {"coredns", "deployment", "ready"} => Granted("agent")'
           /\ pc[o] \in {"deployment", "ready"} => Granted("coredns")'
           /\ pc[o] \in {"ready"} => api'["deployment"].spec = "new"
  <1>1. \A k \in Kinds : api[k].spec = "new" => api'[k].spec = "new"
    BY DEF ApiKept
  <1>2. (Granted("agent") => Granted("agent")') /\ (Granted("coredns") => Granted("coredns")')
    BY GrantedKept, ConstantsAssumption
  <1> QED BY <1>1, <1>2 DEF StepsDoneBy, Past, Kinds

LEMMA CreateOrUpdateKept ==
    ASSUME IInv, NEW o \in Operators, NEW k \in Kinds, NEW next \in Requests,
           CreateOrUpdate(o, k, next)
    PROVE  /\ pc[o] = k /\ UNCHANGED <<cache, edits>> /\ Moves(o, next)
           /\ ApiKept /\ SCCKept
           /\ pc'[o] = next => api'[k].spec = "new"
  <1>1. next # "idle"
    BY ConstantsAssumption DEF Requests, Kinds
  <1>2. /\ pc[o] = k /\ UNCHANGED <<cache, scc, edits>> /\ Moves(o, next)
        /\ UNCHANGED api \/ api' = [api EXCEPT ![k] = Stored(@)]
        /\ pc'[o] = next => api'[k].spec = "new"
    BY <1>1, CreateOrUpdateMoves DEF IInv
  <1>3. ApiKept
    BY <1>2, ApiUnchanged, StoredKept DEF IInv
  <1>4. SCCKept
    BY <1>2 DEF SCCKept
  <1> QED BY <1>2, <1>3, <1>4

LEMMA EnsureCRDsInv ==
    ASSUME IInv, NEW o \in Operators, EnsureCRDs(o)
    PROVE  IInv'
  <1>1. "crds" \in Kinds /\ "namespace" \in Requests /\ CreateOrUpdate(o, "crds", "namespace")
    BY DEF Kinds, Requests, EnsureCRDs
  <1>2. /\ pc[o] = "crds" /\ UNCHANGED <<cache, edits>> /\ Moves(o, "namespace")
        /\ ApiKept /\ SCCKept
        /\ pc'[o] = "namespace" => api'["crds"].spec = "new"
    BY <1>1, CreateOrUpdateKept
  <1>3. ASSUME pc'[o] = "namespace"
        PROVE  StepsDoneBy(o)'
    BY <1>2, <1>3 DEF StepsDoneBy, Past, AtRest
  <1> QED BY <1>1, <1>2, <1>3, RequestKept

LEMMA EnsureServiceAccountsInv ==
    ASSUME IInv, NEW o \in Operators, EnsureServiceAccounts(o)
    PROVE  IInv'
  <1>1. /\ "accounts" \in Kinds /\ "agent" \in Requests
        /\ CreateOrUpdate(o, "accounts", "agent")
    BY ConstantsAssumption DEF Kinds, Requests, EnsureServiceAccounts
  <1>2. /\ pc[o] = "accounts" /\ UNCHANGED <<cache, edits>> /\ Moves(o, "agent")
        /\ ApiKept /\ SCCKept
        /\ pc'[o] = "agent" => api'["accounts"].spec = "new"
    BY <1>1, CreateOrUpdateKept
  <1>3. ASSUME pc'[o] = "agent"
        PROVE  StepsDoneBy(o)'
    <2>1. api'["crds"].spec = "new" /\ api'["namespace"].spec = "new"
      BY <1>2, <1>3, EarlierKept DEF IInv, StepsDone, Requests, Kinds
    <2> QED BY <1>2, <1>3, <2>1, ConstantsAssumption DEF StepsDoneBy, Past, AtRest, Requests, Kinds
  <1> QED BY <1>1, <1>2, <1>3, RequestKept

LEMMA EnsureDeploymentInv ==
    ASSUME IInv, NEW o \in Operators, EnsureDeployment(o)
    PROVE  IInv'
  <1>1. /\ "deployment" \in Kinds /\ "ready" \in Requests
        /\ CreateOrUpdate(o, "deployment", "ready")
    BY DEF Kinds, Requests, EnsureDeployment
  <1>2. /\ pc[o] = "deployment" /\ UNCHANGED <<cache, edits>> /\ Moves(o, "ready")
        /\ ApiKept /\ SCCKept
        /\ pc'[o] = "ready" => api'["deployment"].spec = "new"
    BY <1>1, CreateOrUpdateKept
  <1>3. ASSUME pc'[o] = "ready"
        PROVE  StepsDoneBy(o)'
    <2>1. /\ api'["crds"].spec = "new" /\ api'["namespace"].spec = "new"
          /\ api'["accounts"].spec = "new" /\ Granted("agent")' /\ Granted("coredns")'
      BY <1>2, <1>3, EarlierKept DEF IInv, StepsDone, Requests, Kinds
    <2> QED BY <1>2, <1>3, <2>1, ConstantsAssumption DEF StepsDoneBy, Past, AtRest, Requests, Kinds
  <1> QED BY <1>1, <1>2, <1>3, RequestKept

LEMMA EnsureNamespaceInv ==
    ASSUME IInv, NEW o \in Operators, EnsureNamespace(o)
    PROVE  IInv'
  <1>1. /\ pc[o] = "namespace" /\ UNCHANGED <<api, cache, scc, edits>>
        /\ Moves(o, "accounts")
        /\ pc'[o] = "accounts" => api["namespace"].spec = "new"
    BY EnsureNamespaceMoves DEF IInv
  <1>2. ApiKept /\ SCCKept
    BY <1>1, ApiUnchanged DEF IInv, SCCKept
  <1>3. "accounts" \in Requests \cup {"idle"}
    BY DEF Requests, Kinds
  <1>4. ASSUME pc'[o] = "accounts"
        PROVE  StepsDoneBy(o)'
    <2>1. api'["crds"].spec = "new"
      BY <1>1, <1>2, EarlierKept DEF IInv, StepsDone, Requests, Kinds
    <2> QED BY <1>1, <1>4, <2>1, ConstantsAssumption DEF StepsDoneBy, Past, AtRest, Requests, Kinds
  <1> QED BY <1>1, <1>2, <1>3, <1>4, RequestKept

LEMMA WaitForReadyInv ==
    ASSUME IInv, NEW o \in Operators, WaitForReady(o) \/ WaitTimesOut(o)
    PROVE  IInv'
  <1>1. /\ pc[o] = "ready" /\ UNCHANGED <<api, cache, scc, edits>>
        /\ Moves(o, "idle") /\ pc'[o] = "idle"
        /\ ~ queued'[o] => api["deployment"].pods # "none"
    BY WaitForReadyMoves DEF IInv
  <1>2. ApiKept /\ SCCKept
    BY <1>1, ApiUnchanged DEF IInv, SCCKept
  <1>3. StepsDoneBy(o)'
    <2>1. /\ api'["crds"].spec = "new" /\ api'["namespace"].spec = "new"
          /\ api'["accounts"].spec = "new" /\ Granted("agent")' /\ Granted("coredns")'
          /\ api'["deployment"].spec = "new"
      BY <1>1, <1>2, EarlierKept DEF IInv, StepsDone, Requests, Kinds
    <2> QED BY <1>1, <2>1, ConstantsAssumption DEF StepsDoneBy, Past, AtRest, Requests, Kinds
  <1> QED BY <1>1, <1>2, <1>3, RequestKept

\* The user list, for one of the two accounts.
LEMMA GetSCCInv ==
    ASSUME IInv, NEW o \in Operators, NEW account \in Accounts, NEW next \in Requests,
           GetSCC(o, account, next),
           ApiKept /\ SCCKept /\ pc'[o] = next /\ Granted(account)' => StepsDoneBy(o)'
    PROVE  IInv'
  <1>1. next # "idle"
    BY ConstantsAssumption DEF Requests, Kinds
  <1>2. /\ pc[o] = account /\ UNCHANGED <<api, cache, scc, edits>>
        /\ \/ /\ Moves(o, next)
              /\ pc'[o] = next => Granted(account)
           \/ /\ copy' = [copy EXCEPT ![o] = scc]
              /\ UNCHANGED <<pc, queued, faults>>
              /\ scc.list = "there" /\ ~ IsUser(account, scc.users)
    BY <1>1, GetSCCMoves DEF IInv
  <1>3. ApiKept /\ SCCKept
    BY <1>2, ApiUnchanged DEF IInv, SCCKept
  <1>4. CASE Moves(o, next) /\ (pc'[o] = next => Granted(account))
    <2>1. pc'[o] = next /\ queued'[o] = queued[o] => StepsDoneBy(o)'
      BY <1>3, <1>4, GrantedKept
    <2> QED BY <1>2, <1>3, <1>4, <2>1, RequestKept
  <1>5. CASE /\ copy' = [copy EXCEPT ![o] = scc]
             /\ UNCHANGED <<pc, queued, faults>>
             /\ scc.list = "there" /\ ~ IsUser(account, scc.users)
    <2>1. scc \in SCCs({"there"})
      BY <1>5 DEF IInv, TypeOK, SCCs
    <2>2. TypeOK'
      BY <1>2, <1>3, <1>5, <2>1, TypeKept DEF IInv, TypeOK
    <2>3. CachesBehind'
      BY <1>2, <1>3, CachesBehindKept DEF IInv
    <2>4. CopyFresh'
      <3>1. ASSUME NEW p \in Operators, copy'[p] # NoCopy
            PROVE  /\ pc'[p] \in Accounts /\ ~ IsUser(pc'[p], copy'[p].users)
                   /\ scc'.list = "there" /\ copy'[p].rev <= scc'.rev
                   /\ copy'[p].rev = scc'.rev => copy'[p].users = scc'.users
        <4>1. CASE p = o
          BY <4>1, <1>2, <1>5 DEF IInv, TypeOK, SCCs
        <4>2. CASE p # o
          <5>1. copy'[p] = copy[p]
            BY <4>2, <1>5 DEF IInv, TypeOK
          <5> QED BY <5>1, <3>1, <1>2, <1>5 DEF IInv, CopyFresh
        <4> QED BY <4>1, <4>2
      <3> QED BY <3>1 DEF CopyFresh
    <2>5. StepsDone'
      BY <1>3, <1>5, StepsDoneKept DEF IInv, StepsDone
    <2> QED BY <2>2, <2>3, <2>4, <2>5 DEF IInv
  <1> QED BY <1>2, <1>4, <1>5

LEMMA UpdateSCCInv ==
    ASSUME IInv, NEW o \in Operators, NEW account \in Accounts, NEW next \in Requests,
           UpdateSCC(o, account, next),
           ApiKept /\ SCCKept /\ pc'[o] = next /\ Granted(account)' => StepsDoneBy(o)'
    PROVE  IInv'
  <1>1. next # "idle"
    BY ConstantsAssumption DEF Requests, Kinds
  <1>2. /\ pc[o] = account /\ UNCHANGED <<api, cache, edits>> /\ Moves(o, next)
        /\ scc.list = "there"
        /\ \/ UNCHANGED scc /\ pc'[o] = "idle"
           \/ SetUsers(Append(scc.users, account)) /\ ~ IsUser(account, scc.users)
    BY UpdateSCCMoves DEF IInv
  <1>3. ApiKept
    BY <1>2, ApiUnchanged DEF IInv
  <1>4. CASE UNCHANGED scc /\ pc'[o] = "idle"
    <2>1. SCCKept
      BY <1>4 DEF SCCKept
    <2> QED BY <1>1, <1>2, <1>3, <1>4, <2>1, RequestKept
  <1>5. CASE SetUsers(Append(scc.users, account))
    <2>1. SCCKept
      BY <1>2, <1>5, AppendKept DEF IInv
    <2>2. scc.users \in Seq(OtherUsers \cup Accounts)
      BY DEF IInv, TypeOK, SCCs
    <2>3. /\ Append(scc.users, account) \in Seq(OtherUsers \cup Accounts)
          /\ IsUser(account, Append(scc.users, account))
      BY <2>2, Appended
    <2>4. scc'.users = Append(scc.users, account)
      BY <1>5, <2>3, SetUsersType DEF IInv
    <2>5. Granted(account)'
      BY <2>3, <2>4 DEF Granted, IsUser
    <2> QED BY <1>2, <1>3, <2>1, <2>5, RequestKept
  <1> QED BY <1>2, <1>4, <1>5

LEMMA EnsureSCCInv ==
    ASSUME IInv, NEW o \in Operators, EnsureAgentSCC(o) \/ EnsureCoreDNSSCC(o)
    PROVE  IInv'
  <1>1. {"agent", "coredns"} = Accounts /\ {"coredns", "deployment"} \subseteq Requests
    BY ConstantsAssumption DEF Requests, Kinds
  <1>2. ASSUME pc[o] = "agent", ApiKept, SCCKept, pc'[o] = "coredns", Granted("agent")'
        PROVE  StepsDoneBy(o)'
    <2>1. /\ api'["crds"].spec = "new" /\ api'["namespace"].spec = "new"
          /\ api'["accounts"].spec = "new"
      BY <1>2, <1>1, EarlierKept DEF IInv, StepsDone, Requests
    <2> QED BY <1>2, <2>1 DEF StepsDoneBy, Past, AtRest
  <1>3. ASSUME pc[o] = "coredns", ApiKept, SCCKept, pc'[o] = "deployment", Granted("coredns")'
        PROVE  StepsDoneBy(o)'
    <2>1. /\ api'["crds"].spec = "new" /\ api'["namespace"].spec = "new"
          /\ api'["accounts"].spec = "new" /\ Granted("agent")'
      BY <1>3, <1>1, EarlierKept DEF IInv, StepsDone, Requests
    <2> QED BY <1>3, <2>1 DEF StepsDoneBy, Past, AtRest
  <1>4. CASE EnsureAgentSCC(o)
    <2>1. pc[o] = "agent" /\ (GetSCC(o, "agent", "coredns") \/ UpdateSCC(o, "agent", "coredns"))
      BY <1>4 DEF EnsureAgentSCC, EnsureSCC, GetSCC, UpdateSCC
    <2>2. ApiKept /\ SCCKept /\ pc'[o] = "coredns" /\ Granted("agent")' => StepsDoneBy(o)'
      BY <2>1, <1>2
    <2> QED BY <2>1, <2>2, <1>1, GetSCCInv, UpdateSCCInv
  <1>5. CASE EnsureCoreDNSSCC(o)
    <2>1. /\ pc[o] = "coredns"
          /\ GetSCC(o, "coredns", "deployment") \/ UpdateSCC(o, "coredns", "deployment")
      BY <1>5 DEF EnsureCoreDNSSCC, EnsureSCC, GetSCC, UpdateSCC
    <2>2. ApiKept /\ SCCKept /\ pc'[o] = "deployment" /\ Granted("coredns")' => StepsDoneBy(o)'
      BY <2>1, <1>3
    <2> QED BY <2>1, <2>2, <1>1, GetSCCInv, UpdateSCCInv
  <1> QED BY <1>4, <1>5

\* The steps that begin or end a reconcile.
LEMMA ReconcileInv ==
    ASSUME IInv, NEW o \in Operators, Reconcile(o) \/ RequestFails(o) \/ Restart(o)
    PROVE  IInv'
  <1>1. UNCHANGED <<api, scc, edits>> /\ ApiKept /\ SCCKept
    BY ApiUnchanged DEF Reconcile, RequestFails, Restart, IInv, SCCKept
  <1>2. CASE Reconcile(o)
    <2>1. copy[o] = NoCopy
      BY <1>2, ConstantsAssumption DEF Reconcile, IInv, CopyFresh
    <2>2. /\ pc' = [pc EXCEPT ![o] = "crds"] /\ queued' = [queued EXCEPT ![o] = FALSE]
          /\ UNCHANGED <<api, cache, scc, copy, edits, faults>>
      BY <1>2 DEF Reconcile
    <2>3. TypeOK'
      BY <1>1, <2>2, TypeKept DEF IInv, TypeOK, Requests, Kinds
    <2>4. CachesBehind'
      BY <1>1, <2>2, CachesBehindKept DEF IInv
    <2>5. CopyFresh'
      <3>1. ASSUME NEW p \in Operators, copy[p] # NoCopy
            PROVE  pc'[p] = pc[p]
        BY <3>1, <2>1, <2>2 DEF IInv, TypeOK
      <3> QED BY <3>1, <2>2 DEF IInv, CopyFresh
    <2>6. ASSUME NEW p \in Operators
          PROVE  StepsDoneBy(p)'
      <3>1. CASE p = o
        <4>1. pc'[p] = "crds"
          BY <3>1, <2>2 DEF IInv, TypeOK
        <4> QED BY <4>1 DEF StepsDoneBy, Past, AtRest
      <3>2. CASE p # o
        <4>1. pc'[p] = pc[p] /\ queued'[p] = queued[p]
          BY <3>2, <2>2 DEF IInv, TypeOK
        <4> QED BY <4>1, <1>1, StepsDoneKept DEF IInv, StepsDone
      <3> QED BY <3>1, <3>2
    <2> QED BY <2>3, <2>4, <2>5, <2>6 DEF IInv, StepsDone
  <1>3. CASE RequestFails(o)
    <2>1. Moves(o, "idle") /\ queued'[o] = TRUE /\ pc'[o] = "idle"
      BY <1>3, ReturnErrorMoves DEF RequestFails, ReturnError, IInv, TypeOK
    <2> QED BY <1>1, <1>3, <2>1, StepsDoneReturned, RequestKept DEF RequestFails
  <1>4. CASE Restart(o)
    <2>1. Moves(o, "idle") /\ queued'[o] = TRUE /\ pc'[o] = "idle"
      BY <1>4, ReturnErrorMoves DEF Restart, ReturnError, IInv, TypeOK
    <2>2. cache' = [cache EXCEPT ![o] = api]
      BY <1>4 DEF Restart
    <2>3. TypeOK'
      BY <1>1, <2>1, <2>2, MovesType, TypeKept DEF IInv, TypeOK
    <2>4. CachesBehind'
      BY <1>1, <2>2 DEF CachesBehind, IInv, TypeOK, Kinds
    <2>5. CopyFresh' /\ StepsDone'
      BY <1>1, <2>1, CopyFreshMoved, StepsDoneMoved, StepsDoneReturned DEF IInv
    <2> QED BY <2>3, <2>4, <2>5 DEF IInv
  <1> QED BY <1>2, <1>3, <1>4

\* Events.
LEMMA TriggerInv ==
    ASSUME IInv, NEW o \in Operators, Trigger(o)
    PROVE  IInv'
  <1>1. /\ queued' = [queued EXCEPT ![o] = TRUE] /\ edits' \in 0 .. MaxEdits
        /\ UNCHANGED <<api, cache, scc, pc, copy, faults>>
    BY ConstantsAssumption DEF Trigger, Edit, IInv, TypeOK
  <1>2. ApiKept /\ SCCKept
    BY <1>1, ApiUnchanged DEF IInv, SCCKept
  <1>3. TypeOK'
    BY <1>1, <1>2, TypeKept DEF IInv, TypeOK
  <1>4. CachesBehind' /\ CopyFresh'
    BY <1>1, <1>2, CachesBehindKept, CopyFreshKept DEF IInv
  <1>5. ASSUME NEW p \in Operators
        PROVE  StepsDoneBy(p)'
    <2>1. pc'[p] = pc[p] /\ queued'[p] \in {queued[p], TRUE}
      BY <1>1 DEF IInv, TypeOK
    <2> QED BY <2>1, <1>2, StepsDoneKept DEF IInv, StepsDone
  <1> QED BY <1>3, <1>4, <1>5 DEF IInv, StepsDone

LEMMA DeliverInv ==
    ASSUME IInv, NEW o \in Operators, NEW k \in Kinds, Deliver(o, k)
    PROVE  IInv'
  <1>1. cache' = [cache EXCEPT ![o][k] = api[k]] /\ UNCHANGED <<api, scc, operatorVars, edits, faults>>
    BY DEF Deliver
  <1>2. ApiKept /\ SCCKept
    BY <1>1, ApiUnchanged DEF IInv, SCCKept
  <1>3. TypeOK'
    BY <1>1, <1>2, TypeKept DEF IInv, TypeOK, operatorVars
  <1>4. CachesBehind'
    <2>1. \A p \in Operators, j \in Kinds : cache'[p][j] \in {cache[p][j], api[j]}
      BY <1>1, ObjectsType DEF IInv, TypeOK
    <2> QED BY <2>1, <1>1 DEF IInv, CachesBehind, Kinds
  <1>5. CopyFresh' /\ StepsDone'
    BY <1>1, <1>2, CopyFreshKept, StepsDoneKept DEF IInv, StepsDone, operatorVars
  <1> QED BY <1>3, <1>4, <1>5 DEF IInv

LEMMA OthersInv ==
    ASSUME IInv,
           \/ CreateNamespace \/ RollOut
           \/ \E u \in OtherUsers : AddOther(u)
           \/ \E i \in DOMAIN scc.users : RemoveOther(i)
    PROVE  IInv'
  <1>1. CASE CreateNamespace
    <2>1. ApiKept /\ SCCKept /\ edits' \in 0 .. MaxEdits
      BY <1>1, CreateNamespaceKept, ConstantsAssumption
         DEF CreateNamespace, Edit, SCCKept, IInv, TypeOK
    <2> QED BY <1>1, <2>1, OthersKept DEF CreateNamespace
  <1>2. CASE RollOut
    <2>1. ApiKept /\ SCCKept /\ edits' \in 0 .. MaxEdits
      BY <1>2, RollOutKept DEF RollOut, SCCKept, IInv, TypeOK
    <2> QED BY <1>2, <2>1, OthersKept DEF RollOut
  <1>3. ASSUME NEW u \in OtherUsers, AddOther(u)
        PROVE  IInv'
    <2>1. ApiKept /\ edits' \in 0 .. MaxEdits
      BY <1>3, ApiUnchanged, ConstantsAssumption DEF AddOther, Edit, IInv, TypeOK
    <2>2. SCCKept
      BY <1>3, AppendKept DEF AddOther, IInv
    <2> QED BY <1>3, <2>1, <2>2, OthersKept DEF AddOther
  <1>4. ASSUME NEW i \in DOMAIN scc.users, RemoveOther(i)
        PROVE  IInv'
    <2>1. ApiKept /\ edits' \in 0 .. MaxEdits
      BY <1>4, ApiUnchanged, ConstantsAssumption DEF RemoveOther, Edit, IInv, TypeOK
    <2>2. SCCKept
      BY <1>4, RemoveOtherKept DEF IInv
    <2> QED BY <1>4, <2>1, <2>2, OthersKept DEF RemoveOther
  <1> QED BY <1>1, <1>2, <1>3, <1>4

LEMMA NextInv == IInv /\ [Next]_vars => IInv'
  <1> SUFFICES ASSUME IInv, [Next]_vars PROVE IInv'
    OBVIOUS
  <1>1. ASSUME NEW o \in Operators, Work(o)
        PROVE  IInv'
    BY <1>1, ReconcileInv, EnsureCRDsInv, EnsureNamespaceInv, EnsureServiceAccountsInv,
       EnsureSCCInv, EnsureDeploymentInv, WaitForReadyInv DEF Work
  <1>2. CASE UNCHANGED vars
    BY <1>2, ApiUnchanged, OthersKept DEF vars, operatorVars, IInv, TypeOK, SCCKept
  <1> QED BY <1>1, <1>2, ReconcileInv, TriggerInv, DeliverInv, OthersInv DEF Next, Stutter

LEMMA Invariance == Spec => []IInv
  BY InitInv, NextInv, PTL DEF Spec

-----------------------------------------------------------------------------
\* Every state is of the right type (the declarations of OperatorInstallation).
THEOREM TypeCorrect == Spec => []TypeOK
  BY Invariance, PTL DEF IInv

\* When an operator has come to rest everything is in place, for any number of
\* operators at work on the same cluster, other writers of the SCC, faults, and
\* however far caches lag (submarinerop/ensure.go:32-60).
THEOREM InstalledAtRest == Spec => []Installed
  <1>1. IInv => Installed
    <2> SUFFICES ASSUME IInv, NEW o \in Operators, AtRest(o)
                 PROVE  /\ \A k \in Kinds : api[k].spec = "new"
                        /\ api["deployment"].pods # "none"
                        /\ scc.list = "there" =>
                               \A account \in Accounts : IsUser(account, scc.users)
      BY DEF Installed
    <2>1. StepsDoneBy(o) /\ \A steps : Past(o, steps)
      BY DEF IInv, StepsDone, Past
    <2>2. Granted("agent") /\ Granted("coredns")
      BY <2>1 DEF StepsDoneBy
    <2> QED BY <2>1, <2>2, ConstantsAssumption DEF StepsDoneBy, Kinds, Granted
  <1> QED BY <1>1, Invariance, PTL

-----------------------------------------------------------------------------
\* The refinement: what a step does to the list of users and to the count of
\* edits, as UserList has it.

OnceIn(account, users) ==
    \A i, j \in DOMAIN users : users[i] = account /\ users[j] = account => i = j

LEMMA AbsentIsNobody ==
    ASSUME NEW account
    PROVE  /\ Users!At(account) = {} <=> ~ IsUser(account, scc.users)
           /\ (Users!At(account) = {})' <=> ~ IsUser(account, scc'.users)
           /\ Users!Once(account) <=> OnceIn(account, scc.users)
           /\ Users!Once(account)' <=> OnceIn(account, scc'.users)
  BY DEF Users!At, Users!Once, IsUser, OnceIn

LEMMA AppendedOnce ==
    ASSUME NEW S, NEW s \in Seq(S), NEW u \in S, NEW account, account # u,
           OnceIn(account, s)
    PROVE  OnceIn(account, Append(s, u))
  <1>1. /\ DOMAIN s = 1 .. Len(s) /\ Len(s) \in Nat
        /\ DOMAIN Append(s, u) = 1 .. Len(s) + 1
        /\ \A i \in 1 .. Len(s) : Append(s, u)[i] = s[i]
        /\ Append(s, u)[Len(s) + 1] = u
    OBVIOUS
  <1> QED BY <1>1 DEF OnceIn

LEMMA RemovedOnce ==
    ASSUME NEW S, NEW s \in Seq(S), NEW i \in DOMAIN s, NEW account, account # s[i],
           OnceIn(account, s)
    PROVE  OnceIn(account, RemoveAt(s, i))
  <1> DEFINE t == RemoveAt(s, i)
             From(j) == IF j < i THEN j ELSE j + 1
  <1>1. DOMAIN s = 1 .. Len(s) /\ Len(s) \in Nat
    OBVIOUS
  <1>2. DOMAIN t = 1 .. Len(s) - 1 /\ \A j \in DOMAIN t : From(j) \in DOMAIN s /\ t[j] = s[From(j)]
    BY <1>1, Removed
  <1>3. \A j, k \in DOMAIN t : From(j) = From(k) => j = k
    BY <1>1, <1>2
  <1> HIDE DEF t, From
  <1>4. OnceIn(account, t)
    BY <1>2, <1>3 DEF OnceIn
  <1> QED BY <1>4 DEF t

LEMMA GrantStep ==
    ASSUME IInv, NEW o \in Operators, NEW account \in Accounts, NEW next,
           UpdateSCC(o, account, next)
    PROVE  [Users!Next]_<<scc.users, edits>>
  <1>1. /\ UNCHANGED edits
        /\ \/ UNCHANGED scc
           \/ SetUsers(Append(scc.users, account)) /\ ~ IsUser(account, scc.users)
    BY UpdateSCCMoves DEF IInv
  <1>2. CASE SetUsers(Append(scc.users, account)) /\ ~ IsUser(account, scc.users)
    <2>1. scc'.users = Append(scc.users, account)
      BY <1>2 DEF SetUsers, SCC
    <2>2. Users!Grant(account)
      BY <1>1, <1>2, <2>1, AbsentIsNobody DEF Users!Grant
    <2> QED BY <2>2 DEF Users!Next
  <1> QED BY <1>1, <1>2

LEMMA EditStep ==
    ASSUME IInv, Edit,
           \/ scc'.users = scc.users
           \/ \E u \in OtherUsers : scc'.users = Append(scc.users, u)
           \/ \E i \in DOMAIN scc.users :
                 scc.users[i] \in OtherUsers /\ scc'.users = RemoveAt(scc.users, i)
    PROVE  Users!EditByOthers
  <1>1. scc.users \in Seq(OtherUsers \cup Accounts)
    BY DEF IInv, TypeOK, SCCs
  <1>2. ASSUME NEW account \in Accounts
        PROVE  /\ IsUser(account, scc'.users) <=> IsUser(account, scc.users)
               /\ OnceIn(account, scc.users) => OnceIn(account, scc'.users)
    <2>1. CASE scc'.users = scc.users
      BY <2>1
    <2>2. ASSUME NEW u \in OtherUsers, scc'.users = Append(scc.users, u)
          PROVE  /\ IsUser(account, scc'.users) <=> IsUser(account, scc.users)
                 /\ OnceIn(account, scc.users) => OnceIn(account, scc'.users)
      <3>1. account # u
        BY ConstantsAssumption
      <3> QED BY <1>1, <2>2, <3>1, Appended, AppendedOnce
    <2>3. ASSUME NEW i \in DOMAIN scc.users, scc.users[i] \in OtherUsers,
                 scc'.users = RemoveAt(scc.users, i)
          PROVE  /\ IsUser(account, scc'.users) <=> IsUser(account, scc.users)
                 /\ OnceIn(account, scc.users) => OnceIn(account, scc'.users)
      <3>1. account # scc.users[i]
        BY <2>3, ConstantsAssumption
      <3> QED BY <1>1, <2>3, <3>1, RemovedOther, RemovedOnce
    <2> QED BY <2>1, <2>2, <2>3
  <1> QED BY <1>2, AbsentIsNobody DEF Users!EditByOthers, Edit

\* Two operators, or any number of them, and whoever else edits the list never
\* lose each other's entries, and no account is in it twice
\* (common/scc/utils.go:47-77).
THEOREM ImplementsUserList == Spec => UserListKept
  <1>1. Init => Users!Init
    BY InitUsers, AbsentIsNobody DEF Init, Users!Init, OnceIn
  <1>2. ASSUME IInv, [Next]_vars
        PROVE  [Users!Next]_<<scc.users, edits>>
    <2>1. CASE UNCHANGED <<scc, edits>>
      BY <2>1
    <2>2. ASSUME NEW o \in Operators, EnsureAgentSCC(o) \/ EnsureCoreDNSSCC(o)
          PROVE  [Users!Next]_<<scc.users, edits>>
      BY <2>2, <2>1, <1>2, GrantStep, ConstantsAssumption
         DEF EnsureAgentSCC, EnsureCoreDNSSCC, EnsureSCC, GetSCC
    <2>3. CASE \/ \E o \in Operators : Trigger(o)
               \/ CreateNamespace
               \/ \E u \in OtherUsers : AddOther(u)
               \/ \E i \in DOMAIN scc.users : RemoveOther(i)
      <3>1. /\ Edit
            /\ \/ scc'.users = scc.users
               \/ \E u \in OtherUsers : scc'.users = Append(scc.users, u)
               \/ \E i \in DOMAIN scc.users :
                     scc.users[i] \in OtherUsers /\ scc'.users = RemoveAt(scc.users, i)
        BY <2>3 DEF Trigger, CreateNamespace, AddOther, RemoveOther, SetUsers, SCC
      <3> QED BY <3>1, <1>2, EditStep DEF Users!Next
    <2> QED
      BY <1>2, <2>1, <2>2, <2>3
         DEF Next, Work, Reconcile, EnsureCRDs, EnsureNamespace, EnsureServiceAccounts,
             EnsureDeployment, CreateOrUpdate, WaitForReady, WaitTimesOut, RequestFails,
             Restart, Deliver, RollOut, Stutter, vars
  <1> QED BY <1>1, <1>2, Invariance, PTL DEF Spec, UserListKept, Users!Spec

-----------------------------------------------------------------------------
\* The order of an upgrade.

\* A part of the installation is put in place by an operator that has got to it;
\* only the namespace comes from elsewhere.
LEMMA PutInPlace ==
    ASSUME IInv, [Next]_vars
    PROVE  /\ ApiKept /\ SCCKept
           /\ \A k \in Kinds \ {"namespace"} :
                 api'[k].spec = "new" => api[k].spec = "new" \/ \E o \in Operators : pc[o] = k
           /\ \A account \in Accounts :
                 IsUser(account, scc'.users) =>
                     IsUser(account, scc.users) \/ \E o \in Operators : pc[o] = account
  <1> DEFINE Goal == /\ ApiKept /\ SCCKept
                     /\ \A k \in Kinds \ {"namespace"} :
                           api'[k].spec = "new" =>
                               api[k].spec = "new" \/ \E o \in Operators : pc[o] = k
                     /\ \A account \in Accounts :
                           IsUser(account, scc'.users) =>
                               IsUser(account, scc.users) \/ \E o \in Operators : pc[o] = account
  <1>1. CASE UNCHANGED <<api, scc>>
    BY <1>1, ApiUnchanged DEF IInv, SCCKept
  <1>2. ASSUME NEW o \in Operators, NEW k \in Kinds, NEW next, CreateOrUpdate(o, k, next)
        PROVE  Goal
    <2>1. /\ pc[o] = k /\ UNCHANGED scc
          /\ UNCHANGED api \/ api' = [api EXCEPT ![k] = Stored(@)]
      BY <1>2, CreateOrUpdateMoves DEF IInv
    <2>2. ApiKept
      BY <2>1, ApiUnchanged, StoredKept DEF IInv
    <2>3. \A j \in Kinds : j # k => api'[j] = api[j]
      BY <2>1, ObjectsType DEF IInv, TypeOK
    <2> QED BY <2>1, <2>2, <2>3 DEF SCCKept
  <1>3. ASSUME NEW o \in Operators, NEW account \in Accounts, NEW next,
               UpdateSCC(o, account, next)
        PROVE  Goal
    <2>1. /\ pc[o] = account /\ UNCHANGED api /\ scc.list = "there"
          /\ UNCHANGED scc \/ SetUsers(Append(scc.users, account))
      BY <1>3, UpdateSCCMoves DEF IInv
    <2>2. CASE UNCHANGED scc
      BY <2>1, <2>2, <1>1
    <2>3. CASE SetUsers(Append(scc.users, account))
      <3>1. SCCKept /\ ApiKept
        BY <2>1, <2>3, AppendKept, ApiUnchanged DEF IInv
      <3>2. scc'.users = Append(scc.users, account)
        BY <2>3 DEF SetUsers, SCC
      <3>3. scc.users \in Seq(OtherUsers \cup Accounts)
        BY DEF IInv, TypeOK, SCCs
      <3>4. \A a : IsUser(a, scc'.users) <=> IsUser(a, scc.users) \/ a = account
        BY <3>2, <3>3, Appended
      <3> QED BY <2>1, <3>1, <3>4
    <2> QED BY <2>1, <2>2, <2>3
  <1>4. CASE CreateNamespace
    <2>1. ApiKept /\ UNCHANGED scc
      BY <1>4, CreateNamespaceKept DEF CreateNamespace, IInv
    <2>2. \A j \in Kinds : j # "namespace" => api'[j] = api[j]
      BY <1>4, ObjectsType DEF CreateNamespace, IInv, TypeOK
    <2> QED BY <2>1, <2>2 DEF SCCKept
  <1>5. CASE RollOut
    <2>1. ApiKept /\ UNCHANGED scc
      BY <1>5, RollOutKept DEF RollOut, IInv
    <2>2. \A j \in Kinds : api'[j].spec = api[j].spec
      BY <1>5, ObjectsType DEF RollOut, Object, IInv, TypeOK
    <2> QED BY <2>1, <2>2 DEF SCCKept
  <1>6. scc.users \in Seq(OtherUsers \cup Accounts)
    BY DEF IInv, TypeOK, SCCs
  <1>7. ASSUME NEW u \in OtherUsers, AddOther(u)
        PROVE  Goal
    <2>1. ApiKept /\ SCCKept /\ UNCHANGED api
      BY <1>7, ApiUnchanged, AppendKept DEF AddOther, IInv
    <2>2. scc'.users = Append(scc.users, u)
      BY <1>7 DEF AddOther, SetUsers, SCC
    <2>3. ASSUME NEW account \in Accounts
          PROVE  IsUser(account, scc'.users) => IsUser(account, scc.users)
      BY <2>2, <1>6, Appended, ConstantsAssumption
    <2> QED BY <2>1, <2>3
  <1>8. ASSUME NEW i \in DOMAIN scc.users, RemoveOther(i)
        PROVE  Goal
    <2>1. ApiKept /\ SCCKept /\ UNCHANGED api
      BY <1>8, ApiUnchanged, RemoveOtherKept DEF RemoveOther, IInv
    <2>2. scc'.users = RemoveAt(scc.users, i) /\ scc.users[i] \in OtherUsers
      BY <1>8 DEF RemoveOther, SetUsers, SCC
    <2>3. ASSUME NEW account \in Accounts
          PROVE  IsUser(account, scc'.users) => IsUser(account, scc.users)
      <3>1. account # scc.users[i]
        BY <2>2, ConstantsAssumption
      <3> QED BY <3>1, <2>2, <1>6, RemovedOther
    <2> QED BY <2>1, <2>3
  <1>9. ASSUME NEW o \in Operators, Work(o)
        PROVE  Goal
    <2>1. CASE EnsureCRDs(o) \/ EnsureServiceAccounts(o) \/ EnsureDeployment(o)
      BY <2>1, <1>2 DEF EnsureCRDs, EnsureServiceAccounts, EnsureDeployment, Kinds
    <2>2. CASE EnsureAgentSCC(o) \/ EnsureCoreDNSSCC(o)
      <3>1. PICK account \in Accounts :
               \E next \in Requests : GetSCC(o, account, next) \/ UpdateSCC(o, account, next)
        BY <2>2, ConstantsAssumption
           DEF EnsureAgentSCC, EnsureCoreDNSSCC, EnsureSCC, Requests, Kinds
      <3>2. ASSUME NEW next \in Requests, GetSCC(o, account, next)
            PROVE  Goal
        <4>1. UNCHANGED <<api, scc>>
          BY <3>2 DEF GetSCC
        <4> QED BY <4>1, <1>1
      <3> QED BY <3>1, <3>2, <1>3
    <2>3. CASE \/ Reconcile(o) \/ EnsureNamespace(o) \/ WaitForReady(o) \/ WaitTimesOut(o)
      <3>1. UNCHANGED <<api, scc>>
        BY <2>3 DEF Reconcile, EnsureNamespace, WaitForReady, WaitTimesOut
      <3> QED BY <3>1, <1>1
    <2> QED BY <1>9, <2>1, <2>2, <2>3 DEF Work
  <1>10. CASE \/ UNCHANGED vars \/ Stutter
              \/ \E o \in Operators : \/ RequestFails(o) \/ Restart(o) \/ Trigger(o)
                                       \/ \E k \in Kinds : Deliver(o, k)
    <2>1. UNCHANGED <<api, scc>>
      BY <1>10 DEF vars, Stutter, RequestFails, Restart, Trigger, Deliver
    <2> QED BY <2>1, <1>1
  <1> QED BY <1>4, <1>5, <1>7, <1>8, <1>9, <1>10 DEF Next

\* CRDs, accounts, grants and the Deployment are brought up to this version in this
\* order, for any number of operators and however far their caches lag
\* (submarinerop/ensure.go:32-60, common/scc/utils.go:46-79).
THEOREM InOrder == Spec => UpgradedInOrder
  <1> DEFINE
        NewAccounts == api["accounts"].spec # "new" /\ api'["accounts"].spec = "new"
        NewGrant(account) == ~ IsUser(account, scc.users) /\ IsUser(account, scc'.users)
        NewDeployment == api["deployment"].spec # "new" /\ api'["deployment"].spec = "new"
        InThisOrder ==
           /\ NewAccounts => api["crds"].spec = "new" /\ api["namespace"].spec = "new"
           /\ \A account \in Accounts : NewGrant(account) => api["accounts"].spec = "new"
           /\ NewDeployment =>
                 /\ api["accounts"].spec = "new"
                 /\ scc.list # "none" => \A account \in Accounts : IsUser(account, scc.users)
  <1>1. IInv /\ [Next]_vars => [InThisOrder]_vars
    <2> SUFFICES ASSUME IInv, [Next]_vars PROVE InThisOrder
      OBVIOUS
    <2>0. {"crds", "namespace", "accounts", "deployment"} = Kinds /\ Accounts = {"agent", "coredns"}
      BY ConstantsAssumption DEF Kinds
    <2>1. ASSUME NewAccounts PROVE api["crds"].spec = "new" /\ api["namespace"].spec = "new"
      <3>1. PICK o \in Operators : pc[o] = "accounts"
        BY <2>1, <2>0, PutInPlace
      <3> QED BY <3>1 DEF IInv, StepsDone, StepsDoneBy, Past, Requests, Kinds
    <2>2. ASSUME NEW account \in Accounts, NewGrant(account) PROVE api["accounts"].spec = "new"
      <3>1. PICK o \in Operators : pc[o] = account
        BY <2>2, PutInPlace
      <3> QED BY <3>1, <2>0 DEF IInv, StepsDone, StepsDoneBy, Past
    <2>3. ASSUME NewDeployment
          PROVE  /\ api["accounts"].spec = "new"
                 /\ scc.list # "none" => \A account \in Accounts : IsUser(account, scc.users)
      <3>1. PICK o \in Operators : pc[o] = "deployment"
        BY <2>3, <2>0, PutInPlace
      <3> QED BY <3>1, <2>0 DEF IInv, StepsDone, StepsDoneBy, Past, Granted
    <2> QED BY <2>1, <2>2, <2>3
  <1> QED BY <1>1, Invariance, PTL DEF Spec, UpgradedInOrder
=============================================================================
