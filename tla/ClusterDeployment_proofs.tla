---------------------- MODULE ClusterDeployment_proofs ----------------------
(***************************************************************************)
(* Proofs about ClusterDeployment, for any configurations and any bounds.  *)
(***************************************************************************)
EXTENDS ClusterDeployment, TLAPS

\* The invariant.

\* Numbers grow: what has been read is not younger than what it was read from.
Numbered ==
    /\ api.fabric.nr \in 1 .. edits + 1
    /\ cache.fabric.nr \in 1 .. api.fabric.nr
    /\ pc # "idle" => instance.nr \in 1 .. cache.fabric.nr
    /\ api.info.nr <= edits + 1 /\ cache.info.nr <= edits + 1 /\ brokerInfo.nr <= edits + 1
    /\ api.info # NoInfo => cache.info.nr <= api.info.nr /\ brokerInfo.nr <= api.info.nr
    /\ cache.info # NoInfo => brokerInfo.nr <= cache.info.nr

\* The ServiceDiscovery CR is made from what is not younger than what a worker
\* has, or is going to read.
WrittenBefore ==
    /\ cache.discovery.fabric <= api.discovery.fabric
    /\ cache.discovery.info <= api.discovery.info
    /\ api.discovery.fabric <= cache.fabric.nr
    /\ pc # "idle" => api.discovery.fabric <= instance.nr
    /\ api.discovery.info <= edits + 1
    /\ \A info \in {api.info, cache.info, brokerInfo} :
          info # NoInfo => api.discovery.info <= info.nr

\* What the earlier steps of a reconcile have checked and put in place.
Joining == pc \notin {"idle", "info", "status"}

StepsDone ==
    /\ pc \in {"idle", "info"} => brokerInfo = NoInfo
    /\ pc # "status" => ~ failed
    /\ Joining => brokerInfo # NoInfo /\ instance.wish.valid
    /\ pc \in {"account", "token", "spec", "submariner", "discovery"} => "operator" \in installed
    /\ pc \in {"token", "spec", "submariner", "discovery"} => "account" \in installed
    /\ pc \in {"spec", "submariner", "discovery"} => "token" \in installed
    /\ pc \in {"submariner", "discovery"} => instance.wish.images = "known"
    /\ pc = "submariner" => brokerInfo.enables = "connectivity"
    /\ pc = "discovery" => brokerInfo.enables = "discovery"

\* A worker that has come to the end has made the CR from what it has.  Without an
\* event that has queued a request, that is what the caches hold.
UpToDate ==
    /\ pc = "status" /\ ~ failed => brokerInfo # NoInfo /\ MadeFrom(instance, brokerInfo)
    /\ ~ queued =>
          /\ pc # "idle" => instance = cache.fabric
          /\ Joining \/ (pc = "status" /\ ~ failed) => brokerInfo = cache.info
          /\ pc = "idle" => cache.info # NoInfo /\ MadeFrom(cache.fabric, cache.info)

IInv == TypeOK /\ Numbered /\ WrittenBefore /\ StepsDone /\ UpToDate

-----------------------------------------------------------------------------
\* Types.

LEMMA NoInfoIsNone == NoInfo.nr = 0 /\ NoInfo.enables = "none" /\ NoInfo \in BrokerInfo
  BY DEF NoInfo, BrokerInfo

LEMMA InfoType ==
    ASSUME NEW info \in BrokerInfo
    PROVE  /\ info.nr \in Nat
           /\ info # NoInfo <=> info.nr # 0
           /\ info # NoInfo <=> info.enables \in {"connectivity", "discovery", "neither"}
  <1>1. CASE info = NoInfo
    BY <1>1, NoInfoIsNone
  <1>2. CASE info # NoInfo
    <2>1. info \in [nr : Nat \ {0}, enables : Components]
      BY <1>2 DEF BrokerInfo
    <2>2. info.nr \in Nat \ {0} /\ info.enables \in Components
      BY <2>1
    <2> QED BY <1>2, <2>2, ConstantsAssumption
  <1> QED BY <1>1, <1>2

LEMMA InfoMade ==
    ASSUME NEW nr \in Nat \ {0}, NEW c \in Components
    PROVE  Info(nr, c) \in BrokerInfo /\ Info(nr, c) # NoInfo /\ Info(nr, c).nr = nr
  <1>1. Info(nr, c).nr = nr /\ Info(nr, c) \in BrokerInfo
    BY DEF Info, BrokerInfo
  <1> QED BY <1>1, NoInfoIsNone

\* The fields of the objects.
LEMMA FieldTypes ==
    ASSUME NEW x \in Objects
    PROVE  /\ x.fabric \in Fabric /\ x.info \in BrokerInfo /\ x.submariner \in SubmarinerCR
           /\ x.discovery \in {NoSpec} \cup CRSpec
           /\ x.fabric.nr \in Nat /\ x.info.nr \in Nat
           /\ x.discovery.fabric \in Nat /\ x.discovery.info \in Nat
  <1>1. /\ x.fabric \in Fabric /\ x.info \in BrokerInfo /\ x.submariner \in SubmarinerCR
        /\ x.discovery \in {NoSpec} \cup CRSpec
    BY DEF Objects
  <1> QED BY <1>1, InfoType DEF Fabric, NoSpec, CRSpec

LEMMA FabricChanged ==
    ASSUME TypeOK, NEW y \in Fabric, api' = [api EXCEPT !.fabric = y]
    PROVE  /\ api'.fabric = y /\ api'.info = api.info
           /\ api'.submariner = api.submariner /\ api'.discovery = api.discovery
           /\ api' \in Objects
  BY DEF TypeOK, Objects

LEMMA InfoChanged ==
    ASSUME TypeOK, NEW y \in BrokerInfo, api' = [api EXCEPT !.info = y]
    PROVE  /\ api'.fabric = api.fabric /\ api'.info = y
           /\ api'.submariner = api.submariner /\ api'.discovery = api.discovery
           /\ api' \in Objects
  BY DEF TypeOK, Objects

LEMMA SubmarinerChanged ==
    ASSUME TypeOK, NEW y \in SubmarinerCR, api' = [api EXCEPT !.submariner = y]
    PROVE  /\ api'.fabric = api.fabric /\ api'.info = api.info
           /\ api'.submariner = y /\ api'.discovery = api.discovery
           /\ api' \in Objects
  BY DEF TypeOK, Objects

LEMMA DiscoveryChanged ==
    ASSUME TypeOK, NEW y \in CRSpec, api' = [api EXCEPT !.discovery = y]
    PROVE  /\ api'.fabric = api.fabric /\ api'.info = api.info
           /\ api'.submariner = api.submariner /\ api'.discovery = y
           /\ api' \in Objects
  BY DEF TypeOK, Objects

LEMMA SpecType ==
    ASSUME TypeOK, Numbered, brokerInfo # NoInfo, pc # "idle"
    PROVE  /\ PopulateSubmarinerSpec \in CRSpec
           /\ PopulateServiceDiscoverySpec \in CRSpec
  <1>1. instance.nr \in Nat \ {0}
    BY FieldTypes DEF TypeOK, Numbered
  <1>2. brokerInfo.nr \in Nat \ {0}
    BY InfoType DEF TypeOK
  <1> QED BY <1>1, <1>2 DEF PopulateSubmarinerSpec, PopulateServiceDiscoverySpec, CRSpec

\* The numbers of what the invariant compares.
LEMMA NumberTypes ==
    ASSUME TypeOK
    PROVE  /\ api.fabric.nr \in Nat /\ cache.fabric.nr \in Nat /\ instance.nr \in Nat
           /\ api.info.nr \in Nat /\ cache.info.nr \in Nat /\ brokerInfo.nr \in Nat
           /\ api.discovery.fabric \in Nat /\ api.discovery.info \in Nat
           /\ cache.discovery.fabric \in Nat /\ cache.discovery.info \in Nat
           /\ edits \in Nat /\ faults \in Nat /\ MaxEdits \in Nat /\ MaxFaults \in Nat
  <1>1. api \in Objects /\ cache \in Objects /\ instance \in Fabric /\ brokerInfo \in BrokerInfo
    BY DEF TypeOK
  <1>2. instance.nr \in Nat
    BY <1>1 DEF Fabric
  <1> QED BY <1>1, <1>2, FieldTypes, InfoType, ConstantsAssumption DEF TypeOK

-----------------------------------------------------------------------------
\* The initial states, and the steps of everybody else.

LEMMA NoInstanceType == NoInstance \in Fabric
  BY DEF NoInstance, Fabric, Wish

LEMMA InitInv == Init => IInv
  <1> SUFFICES ASSUME Init PROVE IInv
    OBVIOUS
  <1> PICK wish \in Wishes, info \in {NoInfo} \cup {Info(1, c) : c \in Components} :
          api = [fabric     |-> [nr |-> 1, wish |-> wish, phase |-> "none"],
                 info       |-> info,
                 submariner |-> NoSubmariner,
                 discovery  |-> NoSpec]
    BY DEF Init
  <1>1. info \in BrokerInfo /\ info.nr \in 0 .. 1
    BY InfoMade, NoInfoIsNone
  <1>2. [nr |-> 1, wish |-> wish, phase |-> "none"] \in Fabric
    BY ConstantsAssumption DEF Fabric
  <1>3. api \in Objects
    BY <1>1, <1>2 DEF Objects, SubmarinerCR
  <1>4. TypeOK
    <2>1. api \in Objects /\ cache \in Objects
      BY <1>3 DEF Init
    <2>2. instance \in Fabric /\ brokerInfo \in BrokerInfo
      BY NoInstanceType, NoInfoIsNone DEF Init
    <2>3. edits \in 0 .. MaxEdits /\ faults \in 0 .. MaxFaults
      BY ConstantsAssumption DEF Init
    <2> QED BY <2>1, <2>2, <2>3 DEF Init, TypeOK
  <1>5. /\ api.fabric.nr = 1 /\ api.info = info
        /\ api.discovery.fabric = 0 /\ api.discovery.info = 0
    BY DEF NoSpec
  <1>6. Numbered
    BY <1>1, <1>5, NoInfoIsNone DEF Init, Numbered
  <1>7. WrittenBefore
    BY <1>1, <1>5, NoInfoIsNone DEF Init, WrittenBefore
  <1>8. StepsDone /\ UpToDate
    BY DEF Init, StepsDone, UpToDate, Joining
  <1> QED BY <1>4, <1>6, <1>7, <1>8 DEF IInv

LEMMA FabricEdited ==
    ASSUME NEW fabric \in Fabric, NEW nr \in Nat, NEW wish \in Wish
    PROVE  /\ [[fabric EXCEPT !.nr = nr] EXCEPT !.wish = wish] \in Fabric
           /\ [[fabric EXCEPT !.nr = nr] EXCEPT !.wish = wish].nr = nr
  BY DEF Fabric

LEMMA EditSpecInv ==
    ASSUME IInv, NEW wish \in Wishes, EditSpec(wish)
    PROVE  IInv'
  <1> DEFINE fabric == [[api.fabric EXCEPT !.nr = edits + 2] EXCEPT !.wish = wish]
  <1> USE DEF IInv
  <1>1. /\ edits < MaxEdits /\ edits' = edits + 1 /\ edits \in Nat /\ MaxEdits \in Nat
        /\ UNCHANGED <<cache, installed, queued, pc, instance, brokerInfo, failed, faults>>
    BY NumberTypes DEF EditSpec, Edit, Elsewhere, workerVars
  <1>2. api.fabric \in Fabric
    BY FieldTypes DEF TypeOK
  <1>3. fabric \in Fabric /\ fabric.nr = edits + 2
    <2>1. edits + 2 \in Nat /\ wish \in Wish
      BY <1>1, ConstantsAssumption
    <2> QED BY <1>2, <2>1, FabricEdited
  <1>4. api' = [api EXCEPT !.fabric = fabric]
    BY DEF EditSpec, TypeOK, Objects
  <1> HIDE DEF fabric
  <1>7. /\ api'.fabric = fabric /\ api'.info = api.info
        /\ api'.submariner = api.submariner /\ api'.discovery = api.discovery
        /\ api' \in Objects
    BY <1>3, <1>4, FabricChanged
  <1>8. TypeOK'
    BY <1>1, <1>7 DEF TypeOK
  <1>9. Numbered'
    BY <1>1, <1>3, <1>7, NumberTypes DEF Numbered
  <1>10. WrittenBefore'
    BY <1>1, <1>7, NumberTypes DEF WrittenBefore
  <1>11. StepsDone' /\ UpToDate'
    BY <1>1, <1>7 DEF StepsDone, UpToDate, Joining, MadeFrom
  <1> QED BY <1>8, <1>9, <1>10, <1>11

LEMMA EditInfoInv ==
    ASSUME IInv, NEW info \in BrokerInfo, info = NoInfo \/ info.nr = edits + 2,
           Edit, Elsewhere, api' = [api EXCEPT !.info = info]
    PROVE  IInv'
  <1> USE DEF IInv
  <1>1. /\ edits < MaxEdits /\ edits' = edits + 1 /\ edits \in Nat /\ MaxEdits \in Nat
        /\ UNCHANGED <<cache, installed, queued, pc, instance, brokerInfo, failed, faults>>
    BY NumberTypes DEF Edit, Elsewhere, workerVars
  <1>2. /\ api'.fabric = api.fabric /\ api'.info = info
        /\ api'.submariner = api.submariner /\ api'.discovery = api.discovery
        /\ api' \in Objects
    BY InfoChanged
  <1>3. TypeOK'
    BY <1>1, <1>2 DEF TypeOK
  <1>4. info.nr <= edits' + 1
    BY <1>1, NoInfoIsNone
  <1>5. Numbered'
    BY <1>1, <1>2, <1>4, NumberTypes DEF Numbered
  <1>6. WrittenBefore'
    BY <1>1, <1>2, NumberTypes DEF WrittenBefore
  <1>7. StepsDone' /\ UpToDate'
    BY <1>1, <1>2 DEF StepsDone, UpToDate, Joining, MadeFrom
  <1> QED BY <1>3, <1>5, <1>6, <1>7

LEMMA CollectSubmarinerInv ==
    ASSUME IInv, CollectSubmariner
    PROVE  IInv'
  <1> USE DEF IInv
  <1>1. UNCHANGED <<cache, installed, queued, pc, instance, brokerInfo, failed, edits, faults>>
    BY DEF CollectSubmariner, Elsewhere, workerVars
  <1>2. /\ api'.fabric = api.fabric /\ api'.info = api.info
        /\ api'.submariner = NoSubmariner /\ api'.discovery = api.discovery
        /\ api' \in Objects
    BY SubmarinerChanged DEF CollectSubmariner, SubmarinerCR
  <1>3. TypeOK'
    BY <1>1, <1>2 DEF TypeOK
  <1>4. Numbered' /\ WrittenBefore' /\ StepsDone'
    BY <1>1, <1>2 DEF Numbered, WrittenBefore, StepsDone, Joining
  <1>5. UpToDate'
    <2>1. \A fabric, info : MadeFrom(fabric, info) => info.enables # "connectivity"
      BY DEF CollectSubmariner, MadeFrom
    <2>2. \A fabric, info :
             MadeFrom(fabric, info) /\ info.enables # "connectivity" => MadeFrom(fabric, info)'
      BY <1>2 DEF MadeFrom
    <2> QED BY <1>1, <1>2, <2>1, <2>2 DEF UpToDate, Joining, MadeFrom
  <1> QED BY <1>3, <1>4, <1>5

LEMMA AttachTokenInv ==
    ASSUME IInv, AttachToken
    PROVE  IInv'
  BY DEF IInv, AttachToken, workerVars, TypeOK, Numbered, WrittenBefore, StepsDone, UpToDate,
     Joining, MadeFrom

\* A cache that learns of a change.

LEMMA CacheChanged ==
    ASSUME TypeOK, NEW k \in Kinds, NEW y, cache' = [cache EXCEPT ![k] = y],
           \/ k = "fabric" /\ y \in Fabric
           \/ k = "info" /\ y \in BrokerInfo
           \/ k = "submariner" /\ y \in SubmarinerCR
           \/ k = "discovery" /\ y \in {NoSpec} \cup CRSpec
    PROVE  /\ cache' \in Objects
           /\ cache'.fabric = IF k = "fabric" THEN y ELSE cache.fabric
           /\ cache'.info = IF k = "info" THEN y ELSE cache.info
           /\ cache'.submariner = IF k = "submariner" THEN y ELSE cache.submariner
           /\ cache'.discovery = IF k = "discovery" THEN y ELSE cache.discovery
  <1>1. CASE k = "fabric"
    BY <1>1 DEF TypeOK, Objects
  <1>2. CASE k = "info"
    BY <1>2 DEF TypeOK, Objects
  <1>3. CASE k = "submariner"
    BY <1>3 DEF TypeOK, Objects
  <1>4. CASE k = "discovery"
    BY <1>4 DEF TypeOK, Objects
  <1> QED BY <1>1, <1>2, <1>3, <1>4 DEF Kinds

LEMMA DeliverInv ==
    ASSUME IInv, NEW k \in Kinds, Deliver(k)
    PROVE  IInv'
  <1> USE DEF IInv
  <1> DEFINE seen == IF k = "info" /\ cache.info # NoInfo THEN NoInfo ELSE api[k]
  <1>1. /\ UNCHANGED <<api, installed, pc, instance, brokerInfo, failed, edits, faults>>
        /\ cache[k] # api[k]
        /\ cache' = [cache EXCEPT ![k] = seen]
        /\ queued' = (queued \/ Triggers(k, seen))
    BY DEF Deliver, workerVars
  <1>2. /\ k = "fabric" => seen = api.fabric
        /\ k = "info" => seen = NoInfo \/ (seen = api.info /\ cache.info = NoInfo)
        /\ k = "submariner" => seen = api.submariner
        /\ k = "discovery" => seen = api.discovery
    OBVIOUS
  <1> HIDE DEF seen
  <1>3. /\ api.fabric \in Fabric /\ api.info \in BrokerInfo
        /\ api.submariner \in SubmarinerCR /\ api.discovery \in {NoSpec} \cup CRSpec
    BY FieldTypes DEF TypeOK
  <1>4. \/ k = "fabric" /\ seen \in Fabric
        \/ k = "info" /\ seen \in BrokerInfo
        \/ k = "submariner" /\ seen \in SubmarinerCR
        \/ k = "discovery" /\ seen \in {NoSpec} \cup CRSpec
    BY <1>2, <1>3, NoInfoIsNone DEF Kinds
  <1>5. /\ cache' \in Objects
        /\ cache'.fabric = IF k = "fabric" THEN seen ELSE cache.fabric
        /\ cache'.info = IF k = "info" THEN seen ELSE cache.info
        /\ cache'.submariner = IF k = "submariner" THEN seen ELSE cache.submariner
        /\ cache'.discovery = IF k = "discovery" THEN seen ELSE cache.discovery
    BY <1>1, <1>4, CacheChanged
  <1>6. TypeOK'
    BY <1>1, <1>5 DEF TypeOK, Triggers
  <1>7. /\ cache'.fabric \in {api.fabric, cache.fabric}
        /\ cache'.info \in {cache.info, NoInfo, api.info}
        /\ cache'.discovery \in {api.discovery, cache.discovery}
    BY <1>2, <1>5
  <1>8. Numbered'
    BY <1>1, <1>7, NoInfoIsNone, NumberTypes DEF Numbered
  <1>9. WrittenBefore'
    BY <1>1, <1>7, NumberTypes DEF WrittenBefore, Numbered
  <1>10. StepsDone'
    BY <1>1 DEF StepsDone, Joining
  <1>11. UpToDate'
    <2>1. CASE k = "fabric" \/ (k = "info" /\ seen = NoInfo)
      BY <1>1, <2>1 DEF UpToDate, MadeFrom, Triggers
    <2>2. CASE k = "info" /\ seen # NoInfo
      <3>1. cache.info = NoInfo /\ cache'.fabric = cache.fabric
        BY <1>2, <1>5, <2>2
      <3> QED BY <1>1, <2>2, <3>1 DEF UpToDate, StepsDone, Joining, MadeFrom
    <2>3. CASE k \in {"submariner", "discovery"}
      <3>1. cache'.fabric = cache.fabric /\ cache'.info = cache.info
        BY <1>5, <2>3
      <3> QED BY <1>1, <3>1 DEF UpToDate, Joining, MadeFrom
    <2> QED BY <2>1, <2>2, <2>3 DEF Kinds
  <1> QED BY <1>6, <1>8, <1>9, <1>10, <1>11

-----------------------------------------------------------------------------
\* The steps of a reconcile.

\* What a step of the worker that leaves the API servers alone has to keep.
LEMMA WorkerInv ==
    ASSUME TypeOK, Numbered, WrittenBefore, UNCHANGED <<api, cache, instance, brokerInfo, edits>>,
           pc # "idle", installed' \subseteq {"label", "operator", "account", "token"},
           failed' \in BOOLEAN, pc' \in Requests \cup {"idle", "spec"}, faults' \in 0 .. MaxFaults,
           UNCHANGED queued
    PROVE  TypeOK' /\ Numbered' /\ WrittenBefore'
  <1>1. TypeOK'
    BY DEF TypeOK
  <1>2. Numbered'
    BY DEF Numbered
  <1>3. WrittenBefore'
    BY DEF WrittenBefore
  <1> QED BY <1>1, <1>2, <1>3

LEMMA RequestMayFailType ==
    ASSUME TypeOK, NEW step, RequestMayFail(step)
    PROVE  faults + 1 \in 0 .. MaxFaults
  BY NumberTypes DEF TypeOK, RequestMayFail

LEMMA MayFailType ==
    ASSUME TypeOK, MayFail
    PROVE  faults + 1 \in 0 .. MaxFaults
  BY RequestMayFailType DEF MayFail

LEMMA ReconcileInv ==
    ASSUME IInv, Reconcile
    PROVE  IInv'
  <1> USE DEF IInv
  <1>1. cache.fabric \in Fabric
    BY FieldTypes DEF TypeOK
  <1>2. TypeOK'
    BY <1>1 DEF Reconcile, TypeOK, Requests
  <1>3. Numbered'
    BY NumberTypes DEF Reconcile, Numbered
  <1>4. WrittenBefore'
    BY NumberTypes DEF Reconcile, WrittenBefore
  <1>5. StepsDone'
    BY DEF Reconcile, StepsDone, Joining
  <1>6. UpToDate'
    BY DEF Reconcile, UpToDate, Joining
  <1> QED BY <1>2, <1>3, <1>4, <1>5, <1>6

LEMMA ReadInfoInv ==
    ASSUME IInv, ReadInfo
    PROVE  IInv'
  <1> USE DEF IInv
  <1>1. /\ pc = "info" /\ brokerInfo' = cache.info /\ cache.info \in BrokerInfo
        /\ UNCHANGED <<api, cache, installed, queued, instance, edits, faults>>
    BY FieldTypes DEF ReadInfo, TypeOK
  <1>2. \/ /\ brokerInfo' # NoInfo /\ instance.wish.valid
           /\ pc' \in {"label", "operator"} /\ failed' = failed
        \/ pc' = "status" /\ failed' = TRUE
    BY DEF ReadInfo, ReturnError
  <1>3. TypeOK'
    BY <1>1, <1>2 DEF TypeOK, Requests
  <1>4. Numbered'
    BY <1>1, <1>2, NumberTypes DEF Numbered
  <1>5. WrittenBefore'
    BY <1>1, <1>2, NumberTypes DEF WrittenBefore
  <1>6. StepsDone'
    BY <1>1, <1>2 DEF StepsDone, Joining
  <1>7. UpToDate'
    BY <1>1, <1>2 DEF UpToDate, Joining
  <1> QED BY <1>3, <1>4, <1>5, <1>6, <1>7

LEMMA InstallInv ==
    ASSUME IInv, NEW step, NEW next, Install(step, next),
           \/ step = "label" /\ next = "operator"
           \/ step = "operator" /\ next = "account"
           \/ step = "account" /\ next = "token"
           \/ step = "token" /\ next = "spec"
    PROVE  IInv'
  <1> USE DEF IInv
  <1>1. /\ pc = step /\ installed' = installed \cup {step}
        /\ UNCHANGED <<api, cache, queued, instance, brokerInfo, edits>>
    BY DEF Install
  <1>2. /\ \/ pc' = next /\ failed' = failed
           \/ pc' = "status" /\ failed' = TRUE
        /\ faults' \in 0 .. MaxFaults
    BY MayFailType DEF Install, GoOn, ReturnError, TypeOK
  <1>3. /\ installed' \subseteq {"label", "operator", "account", "token"}
        /\ failed' \in BOOLEAN /\ pc' \in Requests \cup {"idle", "spec"}
    BY <1>1, <1>2 DEF TypeOK, Requests
  <1>4. TypeOK' /\ Numbered' /\ WrittenBefore'
    BY <1>1, <1>2, <1>3, WorkerInv
  <1>5. StepsDone'
    BY <1>1, <1>2 DEF StepsDone, Joining
  <1>6. UpToDate'
    BY <1>1, <1>2 DEF UpToDate, StepsDone, Joining
  <1> QED BY <1>4, <1>5, <1>6

LEMMA LabelConflictsInv ==
    ASSUME IInv, LabelConflicts
    PROVE  IInv'
  <1> USE DEF IInv
  <1>1. /\ pc = "label" /\ pc' = "operator" /\ faults' \in 0 .. MaxFaults
        /\ UNCHANGED <<api, cache, installed, queued, instance, brokerInfo, failed, edits>>
    BY MayFailType DEF LabelConflicts
  <1>2. TypeOK' /\ Numbered' /\ WrittenBefore'
    BY <1>1, WorkerInv DEF TypeOK, Requests
  <1>3. StepsDone' /\ UpToDate'
    BY <1>1 DEF StepsDone, UpToDate, Joining
  <1> QED BY <1>2, <1>3

LEMMA RequestFailsInv ==
    ASSUME IInv, RequestFails
    PROVE  IInv'
  <1> USE DEF IInv
  <1>1. /\ pc \in Requests \ {"status"} /\ pc' = "status" /\ failed' = TRUE
        /\ faults' \in 0 .. MaxFaults
        /\ UNCHANGED <<api, cache, installed, queued, instance, brokerInfo, edits>>
    BY MayFailType DEF RequestFails, ReturnError
  <1>2. pc # "idle" /\ pc' \in Requests
    BY <1>1 DEF Requests
  <1>3. TypeOK' /\ Numbered' /\ WrittenBefore'
    BY <1>1, <1>2, WorkerInv DEF TypeOK
  <1>4. StepsDone' /\ UpToDate'
    BY <1>1, <1>2 DEF StepsDone, UpToDate, Joining
  <1> QED BY <1>3, <1>4

LEMMA PopulateSpecInv ==
    ASSUME IInv, PopulateSpec
    PROVE  IInv'
  <1> USE DEF IInv
  <1>1. /\ pc = "spec"
        /\ UNCHANGED <<api, cache, installed, queued, instance, brokerInfo, edits, faults>>
    BY DEF PopulateSpec
  <1>5. brokerInfo # NoInfo /\ brokerInfo.enables \in {"connectivity", "discovery", "neither"}
    BY <1>1, InfoType DEF TypeOK, StepsDone, Joining
  <1>2. \/ /\ failed' = failed
           /\ \/ /\ instance.wish.images = "known"
                 /\ brokerInfo.enables = "connectivity" /\ pc' = "submariner"
              \/ /\ instance.wish.images = "known"
                 /\ brokerInfo.enables = "discovery" /\ pc' = "discovery"
              \/ brokerInfo.enables = "neither" /\ pc' = "status"
        \/ pc' = "status" /\ failed' = TRUE
    BY <1>5 DEF PopulateSpec, Populates, ReturnError
  <1>3. failed' \in BOOLEAN /\ pc' \in Requests
    BY <1>2 DEF TypeOK, Requests
  <1>4. TypeOK' /\ Numbered' /\ WrittenBefore'
    BY <1>1, <1>3, WorkerInv DEF TypeOK
  <1>6. StepsDone'
    BY <1>1, <1>2, <1>5 DEF StepsDone, Joining
  <1>7. UpToDate'
    BY <1>1, <1>2, <1>5 DEF UpToDate, StepsDone, Joining, MadeFrom
  <1> QED BY <1>4, <1>6, <1>7

LEMMA DeleteSubmarinerInv ==
    ASSUME IInv, DeleteSubmariner
    PROVE  IInv'
  <1> USE DEF IInv
  <1> DEFINE cr == [api.submariner EXCEPT !.state = "deleting"]
  <1>1. /\ pc = "submariner" /\ api.submariner.state = "there"
        /\ api' = [api EXCEPT !.submariner = cr]
        /\ UNCHANGED <<cache, installed, queued, instance, brokerInfo, edits>>
    BY DEF DeleteSubmariner, SetSubmariner
  <1>2. /\ \/ pc' = pc /\ failed' = failed
           \/ pc' = "status" /\ failed' = TRUE
        /\ faults' \in 0 .. MaxFaults
    BY <1>1, MayFailType DEF DeleteSubmariner, GoOn, ReturnError, TypeOK
  <1>3. cr \in SubmarinerCR
    <2>1. api.submariner \in SubmarinerCR
      BY FieldTypes DEF TypeOK
    <2>2. api.submariner # NoSubmariner
      BY <1>1 DEF NoSubmariner
    <2>3. api.submariner \in [state : {"there", "deleting"}, spec : CRSpec]
      BY <2>1, <2>2 DEF SubmarinerCR
    <2>4. cr \in [state : {"there", "deleting"}, spec : CRSpec]
      BY <2>3
    <2> QED BY <2>4 DEF SubmarinerCR
  <1> HIDE DEF cr
  <1>4. /\ api'.fabric = api.fabric /\ api'.info = api.info
        /\ api'.discovery = api.discovery /\ api' \in Objects
    BY <1>1, <1>3, SubmarinerChanged
  <1>5. TypeOK'
    BY <1>1, <1>2, <1>4 DEF TypeOK, Requests
  <1>6. Numbered'
    BY <1>1, <1>2, <1>4 DEF Numbered
  <1>7. WrittenBefore'
    BY <1>1, <1>2, <1>4 DEF WrittenBefore
  <1>8. StepsDone' /\ UpToDate'
    BY <1>1, <1>2 DEF StepsDone, UpToDate, Joining
  <1> QED BY <1>5, <1>6, <1>7, <1>8

LEMMA CreateSubmarinerInv ==
    ASSUME IInv, CreateSubmariner
    PROVE  IInv'
  <1> USE DEF IInv
  <1> DEFINE cr == [state |-> "there", spec |-> PopulateSubmarinerSpec]
  <1>1. /\ pc = "submariner" /\ pc' = "status"
        /\ UNCHANGED <<cache, installed, queued, instance, brokerInfo, edits>>
        /\ faults' \in 0 .. MaxFaults
        /\ failed' \in BOOLEAN
        /\ \/ api' = [api EXCEPT !.submariner = cr]
           \/ api' = api /\ failed'
    BY MayFailType DEF CreateSubmariner, SetSubmariner, GoOn, ReturnError, TypeOK
  <1>2. brokerInfo # NoInfo /\ brokerInfo.enables = "connectivity"
    BY <1>1 DEF StepsDone, Joining
  <1>3. cr \in SubmarinerCR
    <2>1. PopulateSubmarinerSpec \in CRSpec
      BY <1>1, <1>2, SpecType
    <2> QED BY <2>1 DEF SubmarinerCR
  <1> HIDE DEF cr
  <1>4. /\ api'.fabric = api.fabric /\ api'.info = api.info
        /\ api'.discovery = api.discovery /\ api' \in Objects
        /\ ~ failed' => api'.submariner = cr
    BY <1>1, <1>3, SubmarinerChanged DEF TypeOK
  <1>5. TypeOK'
    BY <1>1, <1>4 DEF TypeOK, Requests
  <1>6. Numbered'
    BY <1>1, <1>4 DEF Numbered
  <1>7. WrittenBefore'
    BY <1>1, <1>4 DEF WrittenBefore
  <1>8. StepsDone'
    BY <1>1 DEF StepsDone, Joining
  <1>9. ~ failed' => MadeFrom(instance, brokerInfo)'
    BY <1>1, <1>2, <1>4 DEF MadeFrom, cr, PopulateSubmarinerSpec
  <1>10. UpToDate'
    BY <1>1, <1>2, <1>9 DEF UpToDate, Joining
  <1> QED BY <1>5, <1>6, <1>7, <1>8, <1>10

LEMMA EnsureServiceDiscoveryInv ==
    ASSUME IInv, EnsureServiceDiscovery
    PROVE  IInv'
  <1> USE DEF IInv
  <1> DEFINE spec == PopulateServiceDiscoverySpec
  <1>1. /\ pc = "discovery" /\ pc' = "status"
        /\ UNCHANGED <<cache, installed, queued, instance, brokerInfo, edits>>
        /\ faults' \in 0 .. MaxFaults
        /\ failed' \in BOOLEAN
        /\ \/ cache.discovery = spec /\ api' = api
           \/ api' = [api EXCEPT !.discovery = spec]
           \/ api' = api /\ failed'
    BY MayFailType DEF EnsureServiceDiscovery, GoOn, ReturnError, TypeOK
  <1>2. brokerInfo # NoInfo /\ brokerInfo.enables = "discovery"
    BY <1>1 DEF StepsDone, Joining
  <1>3. spec \in CRSpec /\ spec.fabric = instance.nr /\ spec.info = brokerInfo.nr
    BY <1>1, <1>2, SpecType DEF PopulateServiceDiscoverySpec
  <1>4. cache.discovery = spec => api.discovery = spec
    <2> SUFFICES ASSUME cache.discovery = spec PROVE api.discovery = spec
      OBVIOUS
    <2>1. api.discovery.fabric = instance.nr /\ api.discovery.info = brokerInfo.nr
      BY <1>1, <1>2, <1>3, NumberTypes DEF WrittenBefore
    <2>2. instance.nr # 0
      BY <1>1, NumberTypes DEF Numbered
    <2>3. api.discovery \in CRSpec
      BY <2>1, <2>2, FieldTypes DEF TypeOK, NoSpec
    <2> QED BY <2>1, <2>3 DEF CRSpec, PopulateServiceDiscoverySpec
  <1> HIDE DEF spec
  <1>5. /\ api'.fabric = api.fabric /\ api'.info = api.info
        /\ api'.submariner = api.submariner /\ api' \in Objects
        /\ api'.discovery \in {api.discovery, spec}
        /\ ~ failed' => api'.discovery = spec
    BY <1>1, <1>3, <1>4, DiscoveryChanged DEF TypeOK
  <1>6. TypeOK'
    BY <1>1, <1>5 DEF TypeOK, Requests
  <1>7. Numbered'
    BY <1>1, <1>5 DEF Numbered
  <1>8. WrittenBefore'
    <2>1. CASE api'.discovery = api.discovery
      BY <1>1, <1>5, <2>1 DEF WrittenBefore
    <2>2. CASE api'.discovery = spec
      <3>1. /\ cache.discovery.fabric <= instance.nr
            /\ cache.discovery.info <= brokerInfo.nr
        BY <1>1, <1>2, NumberTypes DEF WrittenBefore
      <3> QED BY <1>1, <1>3, <1>5, <2>2, <3>1, NumberTypes DEF WrittenBefore, Numbered
    <2> QED BY <1>5, <2>1, <2>2
  <1>9. StepsDone'
    BY <1>1 DEF StepsDone, Joining
  <1>10. ~ failed' => MadeFrom(instance, brokerInfo)'
    BY <1>1, <1>2, <1>5 DEF MadeFrom, spec, PopulateServiceDiscoverySpec
  <1>11. UpToDate'
    BY <1>1, <1>2, <1>10 DEF UpToDate, Joining
  <1> QED BY <1>6, <1>7, <1>8, <1>9, <1>11

\* The end of a reconcile, and of the operator.

LEMMA StatusUpdated ==
    ASSUME TypeOK, StatusUpdate
    PROVE  /\ faults' \in 0 .. MaxFaults
           /\ api'.fabric.nr = api.fabric.nr /\ api'.info = api.info
           /\ api'.submariner = api.submariner /\ api'.discovery = api.discovery
           /\ api' \in Objects
           /\ api'.fabric.phase \in {api.fabric.phase, Phase}
  <1>1. /\ faults' \in 0 .. MaxFaults
        /\ \/ api' = api
           \/ api' = [api EXCEPT !.fabric.phase = Phase]
    BY RequestMayFailType DEF StatusUpdate, TypeOK
  <1>2. CASE api' = api
    BY <1>1, <1>2 DEF TypeOK
  <1>3. CASE api' = [api EXCEPT !.fabric.phase = Phase]
    <2> DEFINE fabric == [api.fabric EXCEPT !.phase = Phase]
    <2>1. api.fabric \in Fabric
      BY FieldTypes DEF TypeOK
    <2>2. fabric \in Fabric /\ fabric.nr = api.fabric.nr /\ fabric.phase = Phase
      BY <2>1 DEF Fabric, Phase
    <2>3. api' = [api EXCEPT !.fabric = fabric]
      BY <1>3 DEF TypeOK, Objects
    <2> HIDE DEF fabric
    <2> QED BY <1>1, <2>2, <2>3, FabricChanged
  <1> QED BY <1>1, <1>2, <1>3

LEMMA FinishInv ==
    ASSUME IInv, Finish
    PROVE  IInv'
  <1> USE DEF IInv
  <1>1. /\ pc = "status" /\ pc' = "idle" /\ queued' = (queued \/ failed)
        /\ instance' = NoInstance /\ brokerInfo' = NoInfo /\ failed' = FALSE
        /\ UNCHANGED <<cache, installed, edits>>
    BY DEF Finish, Return
  <1>2. /\ faults' \in 0 .. MaxFaults
        /\ api'.fabric.nr = api.fabric.nr /\ api'.info = api.info
        /\ api'.submariner = api.submariner /\ api'.discovery = api.discovery
        /\ api' \in Objects
    BY StatusUpdated DEF Finish
  <1>4. TypeOK'
    BY <1>1, <1>2, NoInstanceType, NoInfoIsNone DEF TypeOK
  <1>5. Numbered'
    BY <1>1, <1>2, NoInfoIsNone, NumberTypes DEF Numbered
  <1>6. WrittenBefore'
    BY <1>1, <1>2, NumberTypes DEF WrittenBefore
  <1>7. StepsDone'
    BY <1>1 DEF StepsDone, Joining
  <1>8. UpToDate'
    BY <1>1, <1>2 DEF UpToDate, Joining, MadeFrom
  <1> QED BY <1>4, <1>5, <1>6, <1>7, <1>8

LEMMA StartAgainInv ==
    ASSUME IInv, StartAgain, faults' \in 0 .. MaxFaults,
           api'.fabric.nr = api.fabric.nr, api'.info = api.info,
           api'.discovery = api.discovery, api' \in Objects
    PROVE  IInv'
  <1> USE DEF IInv
  <1>1. /\ queued' = TRUE /\ cache' = api' /\ pc' = "idle"
        /\ instance' = NoInstance /\ brokerInfo' = NoInfo /\ failed' = FALSE
        /\ UNCHANGED <<installed, edits>>
    BY DEF StartAgain, Return
  <1>2. TypeOK'
    BY <1>1, NoInstanceType, NoInfoIsNone DEF TypeOK
  <1>3. Numbered'
    BY <1>1, NoInfoIsNone, NumberTypes DEF Numbered
  <1>4. WrittenBefore'
    BY <1>1, NumberTypes DEF WrittenBefore, Numbered
  <1>5. StepsDone' /\ UpToDate'
    BY <1>1 DEF StepsDone, UpToDate, Joining
  <1> QED BY <1>2, <1>3, <1>4, <1>5

-----------------------------------------------------------------------------

LEMMA StutterInv == IInv /\ UNCHANGED vars => IInv'
  BY DEF IInv, vars, workerVars, TypeOK, Numbered, WrittenBefore, StepsDone, UpToDate,
     Joining, MadeFrom

LEMMA NextInv == IInv /\ [Next]_vars => IInv'
  <1> SUFFICES ASSUME IInv, [Next]_vars PROVE IInv'
    OBVIOUS
  <1>1. CASE Reconcile
    BY <1>1, ReconcileInv
  <1>2. CASE ReadInfo
    BY <1>2, ReadInfoInv
  <1>3. CASE HandleNodeLabels \/ EnsureOperator \/ CreateSAForCluster \/ WaitForClientToken
    BY <1>3, InstallInv
    DEF HandleNodeLabels, EnsureOperator, CreateSAForCluster, WaitForClientToken
  <1>4. CASE PopulateSpec
    BY <1>4, PopulateSpecInv
  <1>5. CASE Panic \/ Restart
    <2>1. faults' \in 0 .. MaxFaults /\ StartAgain
      BY <1>5, NumberTypes, StatusUpdated DEF Panic, Restart, IInv, TypeOK
    <2>2. /\ api'.fabric.nr = api.fabric.nr /\ api'.info = api.info
          /\ api'.discovery = api.discovery /\ api' \in Objects
      BY <1>5, StatusUpdated DEF Panic, Restart, IInv, TypeOK
    <2> QED BY <2>1, <2>2, StartAgainInv
  <1>6. CASE DeleteSubmariner
    BY <1>6, DeleteSubmarinerInv
  <1>7. CASE CreateSubmariner
    BY <1>7, CreateSubmarinerInv
  <1>8. CASE EnsureServiceDiscovery
    BY <1>8, EnsureServiceDiscoveryInv
  <1>9. CASE Finish
    BY <1>9, FinishInv
  <1>10. CASE AtRest \/ UNCHANGED vars
    BY <1>10, StutterInv DEF AtRest
  <1>11. ASSUME NEW k \in Kinds, Deliver(k) PROVE IInv'
    BY <1>11, DeliverInv
  <1>12. CASE CollectSubmariner
    BY <1>12, CollectSubmarinerInv
  <1>13. CASE AttachToken
    BY <1>13, AttachTokenInv
  <1>14. CASE RequestFails
    BY <1>14, RequestFailsInv
  <1>15. CASE LabelConflicts
    BY <1>15, LabelConflictsInv
  <1>16. CASE DeleteInfo
    BY <1>16, EditInfoInv, NoInfoIsNone DEF DeleteInfo
  <1>17. ASSUME NEW component \in Components, CreateInfo(component) PROVE IInv'
    <2>1. edits + 2 \in Nat \ {0}
      BY NumberTypes DEF IInv
    <2> QED BY <1>17, <2>1, InfoMade, EditInfoInv DEF CreateInfo
  <1>18. ASSUME NEW wish \in Wishes, EditSpec(wish) PROVE IInv'
    BY <1>18, EditSpecInv
  <1> QED
    BY <1>1, <1>2, <1>3, <1>4, <1>5, <1>6, <1>7, <1>8, <1>9, <1>10, <1>11, <1>12, <1>13, <1>14,
       <1>15, <1>16, <1>17, <1>18 DEF Next, Work

LEMMA Invariance == Spec => []IInv
  BY InitInv, NextInv, PTL DEF Spec

\* No other step takes a Submariner CR away.
LEMMA OthersKeepSubmariner ==
    ASSUME TypeOK, Next, api.submariner.state = "there", api'.submariner.state # "there"
    PROVE  DeleteSubmariner
  <1>1. ASSUME api' = api PROVE FALSE
    BY <1>1
  <1>2. ASSUME NEW wish \in Wishes, EditSpec(wish) PROVE FALSE
    <2>1. api'.submariner = api.submariner
      BY <1>2 DEF EditSpec, TypeOK, Objects
    <2> QED BY <2>1
  <1>3. CASE DeleteInfo
    BY <1>3, NoInfoIsNone, InfoChanged DEF DeleteInfo
  <1>4. ASSUME NEW component \in Components, CreateInfo(component) PROVE FALSE
    <2>1. edits + 2 \in Nat \ {0}
      BY NumberTypes
    <2>2. api'.submariner = api.submariner
      BY <1>4, <2>1, InfoMade, InfoChanged DEF CreateInfo
    <2> QED BY <2>2
  <1>5. CASE CollectSubmariner
    BY <1>5 DEF CollectSubmariner
  <1>6. CASE CreateSubmariner
    <2>1. api' = [api EXCEPT !.submariner = [state |-> "there", spec |-> PopulateSubmarinerSpec]]
      BY <1>1, <1>6 DEF CreateSubmariner, SetSubmariner
    <2>2. api'.submariner = [state |-> "there", spec |-> PopulateSubmarinerSpec]
      BY <2>1 DEF TypeOK, Objects
    <2> QED BY <2>2
  <1>7. CASE EnsureServiceDiscovery
    <2>1. api' = [api EXCEPT !.discovery = PopulateServiceDiscoverySpec]
      BY <1>1, <1>7 DEF EnsureServiceDiscovery
    <2>2. api'.submariner = api.submariner
      BY <2>1 DEF TypeOK, Objects
    <2> QED BY <2>2
  <1>8. CASE Finish
    <2>1. api' = [api EXCEPT !.fabric.phase = Phase]
      BY <1>1, <1>8 DEF Finish, StatusUpdate
    <2>2. api'.submariner = api.submariner
      BY <2>1 DEF TypeOK, Objects
    <2> QED BY <2>2
  <1>9. CASE HandleNodeLabels \/ EnsureOperator \/ CreateSAForCluster \/ WaitForClientToken
    BY <1>1, <1>9
    DEF HandleNodeLabels, EnsureOperator, CreateSAForCluster, WaitForClientToken, Install
  <1>10. CASE Reconcile \/ ReadInfo \/ PopulateSpec \/ AttachToken \/ AtRest
    BY <1>1, <1>10 DEF Reconcile, ReadInfo, PopulateSpec, AttachToken, AtRest, vars
  <1>11. CASE Restart \/ RequestFails \/ LabelConflicts
    BY <1>1, <1>11 DEF Restart, RequestFails, LabelConflicts
  <1>12. CASE Panic
    BY <1>12, StatusUpdated DEF Panic
  <1>13. ASSUME NEW k \in Kinds, Deliver(k) PROVE FALSE
    BY <1>1, <1>13 DEF Deliver
  <1> QED
    BY <1>2, <1>3, <1>4, <1>5, <1>6, <1>7, <1>8, <1>9, <1>10, <1>11, <1>12, <1>13 DEF Next, Work

-----------------------------------------------------------------------------
\* The theorems.

\* The operator of a joining cluster, its caches and the CRs it makes keep their
\* types: a CR is made from a Fabric object and a broker info that there have
\* been (join_broker.go, submarinercr/ensure.go, servicediscoverycr/ensure.go).
THEOREM TypeCorrect == Spec => []TypeOK
  BY Invariance, PTL DEF IInv

\* When the operator has come to rest, the cluster has the CR its broker is for,
\* made from what the user has set last, whatever was edited, replaced, lost or
\* restarted before (join_broker.go:159-182).
THEOREM JoinSettledAlways == Spec => []JoinSettled
  <1>1. IInv => JoinSettled
    BY DEF IInv, Quiet, UpToDate, JoinSettled, MadeFrom
  <1> QED BY <1>1, Invariance, PTL

\* A Submariner CR is only deleted once its successor can be made and can run
\* (join_broker.go:62-165, 274-306).
THEOREM ReplacedWhenReady == Spec => KeptUntilReady
  <1> DEFINE Left == api.submariner.state = "there" /\ api'.submariner.state # "there"
             Ready == /\ {"operator", "account", "token"} \subseteq installed
                      /\ instance.wish.valid /\ instance.wish.images = "known"
                      /\ brokerInfo.enables = "connectivity"
  <1>1. IInv /\ [Next]_vars => [Left => Ready]_vars
    <2> SUFFICES ASSUME IInv, Next, Left PROVE Ready
      OBVIOUS
    <2>1. DeleteSubmariner
      BY OthersKeepSubmariner DEF IInv
    <2> QED BY <2>1 DEF DeleteSubmariner, IInv, StepsDone, Joining
  <1> QED BY <1>1, Invariance, PTL DEF Spec, KeptUntilReady

\* What is reported.  A step that changes the phase is the end of a reconcile, or
\* a panic.
LEMMA OthersKeepPhase ==
    ASSUME TypeOK, Next, api'.fabric.phase # api.fabric.phase
    PROVE  (Finish \/ Panic) /\ api'.fabric.phase = Phase
  <1>1. ASSUME api' = api PROVE FALSE
    BY <1>1
  <1>2. ASSUME NEW wish \in Wishes, EditSpec(wish) PROVE FALSE
    <2>1. api'.fabric.phase = api.fabric.phase
      BY <1>2, FieldTypes DEF EditSpec, TypeOK, Objects, Fabric
    <2> QED BY <2>1
  <1>3. CASE DeleteInfo
    BY <1>3 DEF DeleteInfo, TypeOK, Objects
  <1>4. ASSUME NEW component \in Components, CreateInfo(component) PROVE FALSE
    BY <1>4 DEF CreateInfo, TypeOK, Objects
  <1>5. CASE CollectSubmariner
    BY <1>5 DEF CollectSubmariner, TypeOK, Objects
  <1>6. CASE DeleteSubmariner \/ CreateSubmariner
    <2>1. api' = api \/ \E cr : api' = [api EXCEPT !.submariner = cr]
      BY <1>6 DEF DeleteSubmariner, CreateSubmariner, SetSubmariner
    <2> QED BY <2>1 DEF TypeOK, Objects
  <1>7. CASE EnsureServiceDiscovery
    BY <1>7 DEF EnsureServiceDiscovery, TypeOK, Objects
  <1>8. CASE Finish \/ Panic
    BY <1>8, StatusUpdated DEF Finish, Panic
  <1>9. CASE HandleNodeLabels \/ EnsureOperator \/ CreateSAForCluster \/ WaitForClientToken
    BY <1>1, <1>9
    DEF HandleNodeLabels, EnsureOperator, CreateSAForCluster, WaitForClientToken, Install
  <1>10. CASE Reconcile \/ ReadInfo \/ PopulateSpec \/ AttachToken \/ AtRest
    BY <1>1, <1>10 DEF Reconcile, ReadInfo, PopulateSpec, AttachToken, AtRest, vars
  <1>11. CASE Restart \/ RequestFails \/ LabelConflicts
    BY <1>1, <1>11 DEF Restart, RequestFails, LabelConflicts
  <1>12. ASSUME NEW k \in Kinds, Deliver(k) PROVE FALSE
    BY <1>1, <1>12 DEF Deliver
  <1> QED
    BY <1>2, <1>3, <1>4, <1>5, <1>6, <1>7, <1>8, <1>9, <1>10, <1>11, <1>12 DEF Next, Work

\* A reconcile that reports Running, unless it panics, has made the CR its broker
\* info is for, and that CR is there (fabric_controller.go:79-91).
THEOREM RunningReported == Spec => RunningWhenMade
  <1> DEFINE Reports == api.fabric.phase # "Running" /\ api'.fabric.phase = "Running"
             Made == Panics \/ (brokerInfo # NoInfo /\ MadeFrom(instance, brokerInfo))
  <1>1. IInv /\ [Next]_vars => [Reports => Made]_vars
    <2> SUFFICES ASSUME IInv, Next, Reports PROVE Made
      OBVIOUS
    <2>1. (Finish \/ Panic) /\ Phase = "Running"
      BY OthersKeepPhase DEF IInv
    <2>2. CASE Panic
      BY <2>2 DEF Panic
    <2>3. CASE Finish
      <3>1. pc = "status" /\ ~ failed
        BY <2>1, <2>3 DEF Finish, Phase
      <3> QED BY <3>1 DEF IInv, UpToDate
    <2> QED BY <2>1, <2>2, <2>3
  <1> QED BY <1>1, Invariance, PTL DEF Spec, RunningWhenMade

-----------------------------------------------------------------------------
(***************************************************************************)
(* Nothing is rolled back.  WrittenBefore says of the ServiceDiscovery CR  *)
(* what is needed; SubmarinerBefore says it of the Submariner CR.          *)
(***************************************************************************)

SubmarinerBefore ==
    LET spec == api.submariner.spec
    IN  /\ spec.fabric \in Nat /\ spec.info \in Nat
        /\ spec.fabric <= cache.fabric.nr
        /\ pc # "idle" => spec.fabric <= instance.nr
        /\ spec.info <= edits + 1
        /\ \A info \in {api.info, cache.info, brokerInfo} :
              info # NoInfo => spec.info <= info.nr

\* What is read moves forward, and a broker info that is new has a new number.
Forward ==
    /\ cache'.fabric.nr >= cache.fabric.nr
    /\ pc' # "idle" => instance' = cache.fabric \/ (pc # "idle" /\ instance' = instance)
    /\ edits' >= edits
    /\ \A info \in {api'.info, cache'.info, brokerInfo'} :
          info \in {NoInfo, api.info, cache.info, brokerInfo} \/ info.nr = edits + 2

\* A step of the worker within a reconcile.
LEMMA ForwardWithin ==
    ASSUME TypeOK, UNCHANGED <<cache, edits>>, api'.info = api.info,
           brokerInfo' \in {brokerInfo, cache.info, NoInfo},
           pc' = "idle" \/ (pc # "idle" /\ instance' = instance)
    PROVE  Forward
  BY NumberTypes DEF Forward

LEMMA GoesForward ==
    ASSUME IInv, Next
    PROVE  Forward
  <1> USE DEF IInv
  <1>1. CASE Reconcile
    BY <1>1, NumberTypes DEF Reconcile, Forward
  <1>2. CASE \/ ReadInfo \/ HandleNodeLabels \/ EnsureOperator \/ CreateSAForCluster
             \/ WaitForClientToken \/ PopulateSpec
    BY <1>2, ForwardWithin
    DEF ReadInfo, HandleNodeLabels, EnsureOperator, CreateSAForCluster, WaitForClientToken,
        Install, PopulateSpec
  <1>3. CASE Panic \/ Restart
    <2>1. cache' = api' /\ pc' = "idle" /\ brokerInfo' = NoInfo /\ UNCHANGED edits
      BY <1>3 DEF Panic, Restart, StartAgain, Return
    <2>2. api'.fabric.nr = api.fabric.nr /\ api'.info = api.info
      BY <1>3, StatusUpdated DEF Panic, Restart
    <2> QED BY <2>1, <2>2, NumberTypes DEF Forward, Numbered
  <1>4. CASE DeleteSubmariner \/ CreateSubmariner
    <2>1. /\ pc # "idle" /\ UNCHANGED <<cache, instance, brokerInfo, edits>>
          /\ api' = api \/ \E cr : api' = [api EXCEPT !.submariner = cr]
      BY <1>4 DEF DeleteSubmariner, CreateSubmariner, SetSubmariner
    <2>2. api'.info = api.info
      BY <2>1 DEF TypeOK, Objects
    <2> QED BY <2>1, <2>2, ForwardWithin
  <1>5. CASE EnsureServiceDiscovery
    <2>1. /\ pc # "idle" /\ UNCHANGED <<cache, instance, brokerInfo, edits>>
          /\ api' = api \/ \E spec : api' = [api EXCEPT !.discovery = spec]
      BY <1>5 DEF EnsureServiceDiscovery
    <2>2. api'.info = api.info
      BY <2>1 DEF TypeOK, Objects
    <2> QED BY <2>1, <2>2, ForwardWithin
  <1>6. CASE Finish
    <2>1. /\ pc' = "idle" /\ brokerInfo' = NoInfo /\ UNCHANGED <<cache, edits>>
          /\ api' = api \/ api' = [api EXCEPT !.fabric.phase = Phase]
      BY <1>6 DEF Finish, StatusUpdate, Return
    <2>2. api'.info = api.info
      BY <2>1 DEF TypeOK, Objects
    <2> QED BY <2>1, <2>2, ForwardWithin
  <1>7. CASE AtRest \/ AttachToken \/ CollectSubmariner
    <2>1. /\ UNCHANGED <<cache, instance, brokerInfo, edits, pc>>
          /\ api' = api \/ api' = [api EXCEPT !.submariner = NoSubmariner]
      BY <1>7 DEF AtRest, AttachToken, CollectSubmariner, Elsewhere, vars, workerVars
    <2>2. api'.info = api.info
      BY <2>1 DEF TypeOK, Objects
    <2> QED BY <2>1, <2>2, NumberTypes DEF Forward
  <1>8. ASSUME NEW k \in Kinds, Deliver(k) PROVE Forward
    <2>1. /\ UNCHANGED <<api, pc, instance, brokerInfo, edits>>
          /\ cache' = [cache EXCEPT ![k] =
                IF k = "info" /\ cache.info # NoInfo THEN NoInfo ELSE api[k]]
      BY <1>8 DEF Deliver, workerVars
    <2>2. cache'.fabric \in {cache.fabric, api.fabric} /\ cache'.info \in {cache.info, NoInfo, api.info}
      BY <2>1 DEF TypeOK, Objects, Kinds
    <2> QED BY <2>1, <2>2, NumberTypes DEF Forward, Numbered
  <1>9. CASE RequestFails \/ LabelConflicts
    BY <1>9, ForwardWithin DEF RequestFails, LabelConflicts, Requests
  <1>10. ASSUME NEW info, info = NoInfo \/ info.nr = edits + 2, Edit, Elsewhere,
                api' = [api EXCEPT !.info = info]
         PROVE  Forward
    <2>1. UNCHANGED <<cache, pc, instance, brokerInfo>> /\ edits' = edits + 1 /\ api'.info = info
      BY <1>10 DEF Edit, Elsewhere, workerVars, TypeOK, Objects
    <2> QED BY <1>10, <2>1, NumberTypes DEF Forward
  <1>11. CASE DeleteInfo
    BY <1>10, <1>11 DEF DeleteInfo
  <1>12. ASSUME NEW component \in Components, CreateInfo(component) PROVE Forward
    <2>1. Info(edits + 2, component).nr = edits + 2
      BY DEF Info
    <2> QED BY <1>10, <1>12, <2>1 DEF CreateInfo
  <1>13. ASSUME NEW wish \in Wishes, EditSpec(wish) PROVE Forward
    <2>1. /\ UNCHANGED <<cache, pc, instance, brokerInfo>> /\ edits' = edits + 1
          /\ api'.info = api.info
      BY <1>13 DEF EditSpec, Edit, Elsewhere, workerVars, TypeOK, Objects
    <2> QED BY <2>1, NumberTypes DEF Forward
  <1> QED
    BY <1>1, <1>2, <1>3, <1>4, <1>5, <1>6, <1>7, <1>8, <1>9, <1>11, <1>12, <1>13 DEF Next, Work

\* What a step may do to the Submariner CR.
LEMMA SubmarinerSteps ==
    ASSUME TypeOK, Next
    PROVE  \/ api'.submariner.spec \in {api.submariner.spec, NoSpec}
           \/ /\ pc = "submariner" /\ UNCHANGED <<cache, instance, brokerInfo, edits>>
              /\ api'.info = api.info
              /\ api'.submariner.spec = [fabric |-> instance.nr, info |-> brokerInfo.nr]
  <1>1. CASE UNCHANGED api
    BY <1>1
  <1>2. ASSUME NEW wish \in Wishes, EditSpec(wish) PROVE api'.submariner = api.submariner
    BY <1>2 DEF EditSpec, TypeOK, Objects
  <1>3. CASE DeleteInfo
    BY <1>3 DEF DeleteInfo, TypeOK, Objects
  <1>4. ASSUME NEW component \in Components, CreateInfo(component)
        PROVE  api'.submariner = api.submariner
    BY <1>4 DEF CreateInfo, TypeOK, Objects
  <1>5. CASE CollectSubmariner
    <2>1. api' = [api EXCEPT !.submariner = NoSubmariner]
      BY <1>5 DEF CollectSubmariner
    <2>2. api'.submariner.spec = NoSpec
      BY <2>1 DEF TypeOK, Objects, NoSubmariner
    <2> QED BY <2>2
  <1>6. CASE DeleteSubmariner
    <2>1. api' = [api EXCEPT !.submariner = [api.submariner EXCEPT !.state = "deleting"]]
      BY <1>6 DEF DeleteSubmariner, SetSubmariner
    <2>2. api'.submariner.spec = api.submariner.spec
      <3>1. api.submariner \in SubmarinerCR
        BY FieldTypes DEF TypeOK
      <3>2. api'.submariner = [api.submariner EXCEPT !.state = "deleting"]
        BY <2>1 DEF TypeOK, Objects
      <3> QED BY <3>1, <3>2 DEF SubmarinerCR, NoSubmariner
    <2> QED BY <2>2
  <1>7. CASE CreateSubmariner
    <2>1. \/ api' = api
          \/ api' = [api EXCEPT !.submariner = [state |-> "there", spec |-> PopulateSubmarinerSpec]]
      BY <1>7 DEF CreateSubmariner, SetSubmariner
    <2>2. CASE api' # api
      <3>1. /\ api'.submariner = [state |-> "there", spec |-> PopulateSubmarinerSpec]
            /\ api'.info = api.info
        BY <2>1, <2>2 DEF TypeOK, Objects
      <3> QED BY <1>7, <3>1 DEF CreateSubmariner, PopulateSubmarinerSpec
    <2> QED BY <1>1, <2>2
  <1>8. CASE EnsureServiceDiscovery
    BY <1>8 DEF EnsureServiceDiscovery, TypeOK, Objects
  <1>9. CASE Finish
    BY <1>9 DEF Finish, StatusUpdate, TypeOK, Objects
  <1>10. CASE HandleNodeLabels \/ EnsureOperator \/ CreateSAForCluster \/ WaitForClientToken
    BY <1>1, <1>10
    DEF HandleNodeLabels, EnsureOperator, CreateSAForCluster, WaitForClientToken, Install
  <1>11. CASE Reconcile \/ ReadInfo \/ PopulateSpec \/ AttachToken \/ AtRest
    BY <1>1, <1>11 DEF Reconcile, ReadInfo, PopulateSpec, AttachToken, AtRest, vars
  <1>12. CASE Restart \/ RequestFails \/ LabelConflicts
    BY <1>1, <1>12 DEF Restart, RequestFails, LabelConflicts
  <1>13. CASE Panic
    BY <1>13, StatusUpdated DEF Panic
  <1>14. ASSUME NEW k \in Kinds, Deliver(k) PROVE UNCHANGED api
    BY <1>14 DEF Deliver
  <1> QED
    BY <1>1, <1>2, <1>3, <1>4, <1>5, <1>6, <1>7, <1>8, <1>9, <1>10, <1>11, <1>12, <1>13, <1>14
    DEF Next, Work

\* What a step may do to the ServiceDiscovery CR.
LEMMA DiscoverySteps ==
    ASSUME TypeOK, Next
    PROVE  \/ api'.discovery = api.discovery
           \/ /\ pc = "discovery"
              /\ api'.discovery = [fabric |-> instance.nr, info |-> brokerInfo.nr]
  <1>1. CASE UNCHANGED api
    BY <1>1
  <1>2. ASSUME NEW wish \in Wishes, EditSpec(wish) PROVE api'.discovery = api.discovery
    BY <1>2 DEF EditSpec, TypeOK, Objects
  <1>3. CASE DeleteInfo
    BY <1>3 DEF DeleteInfo, TypeOK, Objects
  <1>4. ASSUME NEW component \in Components, CreateInfo(component)
        PROVE  api'.discovery = api.discovery
    BY <1>4 DEF CreateInfo, TypeOK, Objects
  <1>5. CASE CollectSubmariner
    BY <1>5 DEF CollectSubmariner, TypeOK, Objects
  <1>6. CASE DeleteSubmariner \/ CreateSubmariner
    <2>1. api' = api \/ \E cr : api' = [api EXCEPT !.submariner = cr]
      BY <1>6 DEF DeleteSubmariner, CreateSubmariner, SetSubmariner
    <2> QED BY <2>1 DEF TypeOK, Objects
  <1>7. CASE EnsureServiceDiscovery
    <2>1. \/ api' = api
          \/ api' = [api EXCEPT !.discovery = PopulateServiceDiscoverySpec]
      BY <1>7 DEF EnsureServiceDiscovery
    <2>2. api'.discovery \in {api.discovery, PopulateServiceDiscoverySpec}
      BY <2>1 DEF TypeOK, Objects
    <2> QED BY <1>7, <2>2 DEF EnsureServiceDiscovery, PopulateServiceDiscoverySpec
  <1>8. CASE Finish
    BY <1>8 DEF Finish, StatusUpdate, TypeOK, Objects
  <1>9. CASE HandleNodeLabels \/ EnsureOperator \/ CreateSAForCluster \/ WaitForClientToken
    BY <1>1, <1>9
    DEF HandleNodeLabels, EnsureOperator, CreateSAForCluster, WaitForClientToken, Install
  <1>10. CASE Reconcile \/ ReadInfo \/ PopulateSpec \/ AttachToken \/ AtRest
    BY <1>1, <1>10 DEF Reconcile, ReadInfo, PopulateSpec, AttachToken, AtRest, vars
  <1>11. CASE Restart \/ RequestFails \/ LabelConflicts
    BY <1>1, <1>11 DEF Restart, RequestFails, LabelConflicts
  <1>12. CASE Panic
    BY <1>12, StatusUpdated DEF Panic
  <1>13. ASSUME NEW k \in Kinds, Deliver(k) PROVE UNCHANGED api
    BY <1>13 DEF Deliver
  <1> QED
    BY <1>1, <1>2, <1>3, <1>4, <1>5, <1>6, <1>7, <1>8, <1>9, <1>10, <1>11, <1>12, <1>13 DEF Next, Work

LEMMA SubmarinerBeforeNext ==
    ASSUME IInv, SubmarinerBefore, [Next]_vars
    PROVE  SubmarinerBefore'
  <1>1. CASE UNCHANGED vars
    BY <1>1 DEF vars, workerVars, SubmarinerBefore
  <1>2. CASE Next
    <2>1. Forward
      BY <1>2, GoesForward
    <2>2. CASE api'.submariner.spec \in {api.submariner.spec, NoSpec}
      <3>1. TypeOK'
        BY NextInv DEF IInv
      <3>2. /\ cache'.fabric.nr \in Nat /\ instance'.nr \in Nat /\ edits' \in Nat
            /\ \A info \in {api'.info, cache'.info, brokerInfo'} : info.nr \in Nat
        BY <3>1, FieldTypes, InfoType DEF TypeOK, Fabric
      <3>3. /\ api'.submariner.spec.fabric \in 0 .. api.submariner.spec.fabric
            /\ api'.submariner.spec.info \in 0 .. api.submariner.spec.info
        BY <2>2 DEF SubmarinerBefore, NoSpec
      <3>4. /\ api'.submariner.spec.fabric <= cache'.fabric.nr
            /\ pc' # "idle" => api'.submariner.spec.fabric <= instance'.nr
            /\ api'.submariner.spec.info <= edits' + 1
        BY <2>1, <3>2, <3>3, NumberTypes DEF SubmarinerBefore, Forward, IInv
      <3>5. ASSUME NEW info \in {api'.info, cache'.info, brokerInfo'}, info # NoInfo
            PROVE  api'.submariner.spec.info <= info.nr
        <4>1. info \in {api.info, cache.info, brokerInfo} \/ info.nr = edits + 2
          BY <2>1, <3>5 DEF Forward
        <4> QED BY <3>2, <3>3, <3>5, <4>1, NumberTypes DEF SubmarinerBefore, IInv
      <3> QED BY <3>3, <3>4, <3>5 DEF SubmarinerBefore
    <2>3. CASE /\ pc = "submariner" /\ UNCHANGED <<cache, instance, brokerInfo, edits>>
               /\ api'.info = api.info
               /\ api'.submariner.spec = [fabric |-> instance.nr, info |-> brokerInfo.nr]
      BY <2>3, NumberTypes DEF SubmarinerBefore, IInv, Numbered
    <2> QED BY <1>2, <2>2, <2>3, SubmarinerSteps DEF IInv
  <1> QED BY <1>1, <1>2

\* What has been deployed is never rolled back (fabric_controller.go:69-104,
\* submarinercr/ensure.go:44-77, servicediscoverycr/ensure.go:31-43).
THEOREM NothingRolledBack == Spec => NeverRolledBack
  <1> DEFINE Kept ==
        /\ api.submariner.state = "there" /\ api'.submariner.state # "there" =>
              NotNewer(api.submariner.spec, [fabric |-> instance.nr, info |-> brokerInfo.nr])
        /\ NotNewer(api.discovery, api'.discovery)
  <1>1. Init => SubmarinerBefore
    <2> SUFFICES ASSUME Init PROVE SubmarinerBefore
      OBVIOUS
    <2>1. IInv
      BY InitInv
    <2>2. api.submariner.spec = NoSpec
      BY DEF Init, NoSubmariner
    <2> QED BY <2>1, <2>2, NumberTypes DEF SubmarinerBefore, NoSpec, IInv
  <1>2. IInv /\ SubmarinerBefore /\ [Next]_vars => SubmarinerBefore'
    BY SubmarinerBeforeNext
  <1>3. IInv /\ SubmarinerBefore /\ [Next]_vars => [Kept]_vars
    <2> SUFFICES ASSUME IInv, SubmarinerBefore, Next PROVE Kept
      OBVIOUS
    <2>1. ASSUME api.submariner.state = "there", api'.submariner.state # "there"
          PROVE  NotNewer(api.submariner.spec, [fabric |-> instance.nr, info |-> brokerInfo.nr])
      <3>1. pc = "submariner"
        BY <2>1, OthersKeepSubmariner DEF IInv, DeleteSubmariner
      <3>2. brokerInfo # NoInfo
        BY <3>1 DEF IInv, StepsDone, Joining
      <3> QED BY <3>1, <3>2 DEF SubmarinerBefore, NotNewer
    <2>2. NotNewer(api.discovery, api'.discovery)
      <3>1. CASE api'.discovery = api.discovery
        BY <3>1, NumberTypes DEF NotNewer, IInv
      <3>2. CASE /\ pc = "discovery"
                 /\ api'.discovery = [fabric |-> instance.nr, info |-> brokerInfo.nr]
        <4>1. brokerInfo # NoInfo
          BY <3>2 DEF IInv, StepsDone, Joining
        <4> QED BY <3>2, <4>1 DEF NotNewer, IInv, WrittenBefore
      <3> QED BY <3>1, <3>2, DiscoverySteps DEF IInv
    <2> QED BY <2>1, <2>2
  <1> QED BY <1>1, <1>2, <1>3, Invariance, PTL DEF Spec, NeverRolledBack

-----------------------------------------------------------------------------
(***************************************************************************)
(* The gateway.  The shadowed error of addLabelsToNode is all that keeps a *)
(* cluster from having the gateway it wants.                               *)
(***************************************************************************)

WantsGateway(fabric, info) == fabric.wish.gateway /\ info.enables = "connectivity"

\* The label is in place behind the step that puts it there.
Labelled ==
    /\ (Joining /\ pc # "label") \/ (pc = "status" /\ ~ failed) =>
          (WantsGateway(instance, brokerInfo) => "label" \in installed)
    /\ ~ queued /\ pc = "idle" =>
          (WantsGateway(cache.fabric, cache.info) => "label" \in installed)

LEMMA LabelledNext ==
    ASSUME IInv, Labelled, [Next]_vars, [~ LabelConflicts]_vars
    PROVE  Labelled'
  <1> USE DEF IInv
  <1>1. CASE UNCHANGED vars
    BY <1>1 DEF vars, workerVars, Labelled, Joining, WantsGateway
  <1>2. CASE Reconcile
    BY <1>2 DEF Reconcile, Labelled, Joining
  <1>3. CASE ReadInfo
    BY <1>3 DEF ReadInfo, ReturnError, Labelled, Joining, WantsGateway
  <1>4. CASE HandleNodeLabels \/ EnsureOperator \/ CreateSAForCluster \/ WaitForClientToken
    BY <1>4
    DEF HandleNodeLabels, EnsureOperator, CreateSAForCluster, WaitForClientToken, Install, GoOn,
        ReturnError, Labelled, Joining, WantsGateway
  <1>5. CASE PopulateSpec
    <2>1. /\ pc = "spec" /\ pc' \in {"submariner", "discovery", "status"}
          /\ UNCHANGED <<cache, installed, queued, instance, brokerInfo>>
      <3>1. brokerInfo.enables \in {"connectivity", "discovery", "neither"}
        BY <1>5, InfoType DEF PopulateSpec, StepsDone, Joining, TypeOK
      <3> QED BY <1>5, <3>1 DEF PopulateSpec, ReturnError
    <2> QED BY <2>1 DEF Labelled, Joining, WantsGateway
  <1>6. CASE Panic \/ Restart
    BY <1>6 DEF Panic, Restart, StartAgain, Return, Labelled, Joining
  <1>7. CASE DeleteSubmariner \/ CreateSubmariner \/ EnsureServiceDiscovery
    <2>1. /\ pc \in {"submariner", "discovery"}
          /\ pc' = pc \/ pc' = "status"
          /\ UNCHANGED <<cache, installed, queued, instance, brokerInfo>>
      BY <1>7 DEF DeleteSubmariner, CreateSubmariner, EnsureServiceDiscovery, GoOn, ReturnError
    <2> QED BY <2>1 DEF Labelled, Joining, WantsGateway
  <1>8. CASE Finish
    <2>1. /\ pc = "status" /\ pc' = "idle" /\ queued' = (queued \/ failed)
          /\ UNCHANGED <<cache, installed>>
      BY <1>8 DEF Finish, Return
    <2>2. ~ queued' => ~ failed /\ instance = cache.fabric /\ brokerInfo = cache.info
      BY <2>1 DEF UpToDate
    <2> QED BY <2>1, <2>2 DEF Labelled, Joining, WantsGateway
  <1>9. CASE AtRest \/ AttachToken \/ CollectSubmariner
    BY <1>9 DEF AtRest, AttachToken, CollectSubmariner, Elsewhere, vars, workerVars, Labelled,
       Joining, WantsGateway
  <1>10. ASSUME NEW k \in Kinds, Deliver(k) PROVE Labelled'
    <2> DEFINE seen == IF k = "info" /\ cache.info # NoInfo THEN NoInfo ELSE api[k]
    <2>1. /\ cache' = [cache EXCEPT ![k] = seen]
          /\ queued' = (queued \/ Triggers(k, seen))
          /\ UNCHANGED <<installed, pc, instance, brokerInfo, failed>>
      BY <1>10 DEF Deliver, workerVars
    <2>2. ~ queued' /\ pc = "idle" => ~ queued /\ k \in {"submariner", "discovery"}
      BY <1>10, <2>1 DEF UpToDate, Triggers, Kinds
    <2> HIDE DEF seen
    <2>3. k \in {"submariner", "discovery"} =>
             cache'.fabric = cache.fabric /\ cache'.info = cache.info
      BY <2>1 DEF TypeOK, Objects
    <2> QED BY <2>1, <2>2, <2>3 DEF Labelled, Joining, WantsGateway
  <1>11. CASE RequestFails
    BY <1>11 DEF RequestFails, ReturnError, Labelled, Joining
  <1>12. CASE LabelConflicts
    BY <1>1, <1>12
  <1>13. CASE DeleteInfo
    BY <1>13 DEF DeleteInfo, Elsewhere, workerVars, Labelled, Joining, WantsGateway
  <1>14. ASSUME NEW component \in Components, CreateInfo(component) PROVE Labelled'
    BY <1>14 DEF CreateInfo, Elsewhere, workerVars, Labelled, Joining, WantsGateway
  <1>15. ASSUME NEW wish \in Wishes, EditSpec(wish) PROVE Labelled'
    BY <1>15 DEF EditSpec, Elsewhere, workerVars, Labelled, Joining, WantsGateway
  <1> QED
    BY <1>1, <1>2, <1>3, <1>4, <1>5, <1>6, <1>7, <1>8, <1>9, <1>10, <1>11, <1>12, <1>13, <1>14,
       <1>15 DEF Next, Work

\* Where no label patch is in conflict ten times, an operator that has come to
\* rest has labelled a gateway if one is wanted (join_broker.go:101-106, 534-562).
THEOREM GatewayUnlessConflicts ==
    Spec /\ [][~ LabelConflicts]_vars => []GatewaySettled
  <1>1. Init => Labelled
    BY DEF Init, Labelled, Joining
  <1>2. IInv /\ Labelled /\ [Next]_vars /\ [~ LabelConflicts]_vars => Labelled'
    BY LabelledNext
  <1>3. IInv /\ Labelled => GatewaySettled
    <2> SUFFICES ASSUME IInv, Labelled, Quiet, WantsGateway(api.fabric, api.info)
                 PROVE  "label" \in installed
      BY DEF GatewaySettled, WantsGateway
    <2>1. cache.info # NoInfo
      BY DEF IInv, Quiet, UpToDate
    <2> QED BY <2>1 DEF Quiet, Labelled, WantsGateway
  <1> QED BY <1>1, <1>2, <1>3, Invariance, PTL DEF Spec
=============================================================================
