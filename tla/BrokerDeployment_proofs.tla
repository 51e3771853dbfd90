----------------------- MODULE BrokerDeployment_proofs -----------------------
(***************************************************************************)
(* Proofs about BrokerDeployment, for any configurations and any bounds.   *)
(***************************************************************************)
EXTENDS BrokerDeployment, TLAPS

\* The objects, and the caches behind them.
ObjectsOK ==
    /\ clock \in Nat \ {0}
    /\ DOMAIN api = Kinds /\ DOMAIN cache = Kinds
    /\ \A k \in Kinds : IsObject(api[k], k) /\ IsObject(cache[k], k)
    /\ api["fabric"].exists /\ cache["fabric"].exists

Behind ==
    \A k \in Kinds :
        /\ cache[k].rev <= api[k].rev /\ api[k].rev <= clock
        /\ cache[k].rev = api[k].rev => cache[k] = api[k]

WorkerOK ==
    /\ IsObject(instance, "fabric")
    /\ pc # "idle" => instance.exists
    /\ installed \subseteq {"accounts", "token", "operator"}
    /\ queued \in BOOLEAN /\ failed \in BOOLEAN
    /\ pc \in Requests \cup {"idle"}
    /\ edits \in 0 .. MaxEdits /\ faults \in 0 .. MaxFaults

Objs == ObjectsOK /\ Behind

\* What the earlier steps of a reconcile have checked and done.
Deploying == pc \notin {"idle", "status"}

StepsDone ==
    /\ Deploying => IsValidGlobalnetConfig(instance.data.spec)
    /\ Deploying /\ pc # "accounts" => "accounts" \in installed
    /\ Deploying /\ pc \notin {"accounts", "token"} => "token" \in installed
    /\ pc \in {"broker", "check", "ledger", "info"} => "operator" \in installed
    /\ pc \in {"check", "ledger", "info"} => api["broker"].exists
    /\ cache["broker"].exists => api["broker"].exists
    /\ pc = "ledger" /\ instance.data.spec.enabled => ValidGlobalNetworks(Ledger)

\* What has been there whenever a broker info was written.
Prepared ==
    api["info"].exists =>
        /\ installed = {"accounts", "token", "operator"}
        /\ api["broker"].exists

IInv == Objs /\ WorkerOK /\ StepsDone /\ Prepared

LEMMA TypeOKIsIInv == IInv => TypeOK
  BY DEF IInv, Objs, ObjectsOK, WorkerOK, TypeOK

LEMMA Stored ==
    ASSUME Objs, NEW k \in Kinds, NEW data \in DataOf(k), Store(k, data), UNCHANGED cache
    PROVE  /\ Objs'
           /\ clock' = clock + 1
           /\ api'[k] = Object(clock + 1, data)
           /\ \A j \in Kinds \ {k} : api'[j] = api[j]
  <1>1. /\ clock' = clock + 1 /\ clock \in Nat /\ DOMAIN api' = Kinds
        /\ api'[k] = Object(clock + 1, data)
        /\ \A j \in Kinds \ {k} : api'[j] = api[j]
    BY DEF Objs, ObjectsOK, Store
  <1>2. Object(clock + 1, data).rev = clock + 1 /\ Object(clock + 1, data).exists
        /\ Object(clock + 1, data).data = data
        /\ DOMAIN Object(clock + 1, data) = {"rev", "exists", "data"}
    BY DEF Object
  <1>3. ASSUME NEW j \in Kinds
        PROVE  IsObject(api'[j], j) /\ IsObject(cache'[j], j)
    BY <1>1, <1>2 DEF Objs, ObjectsOK, IsObject
  <1>4. Behind'
    <2> SUFFICES ASSUME NEW j \in Kinds
                 PROVE  /\ cache[j].rev <= api'[j].rev /\ api'[j].rev <= clock'
                        /\ cache[j].rev = api'[j].rev => cache[j] = api'[j]
      BY DEF Behind
    <2>1. cache[j].rev \in Nat /\ api[j].rev \in Nat
      BY DEF Objs, ObjectsOK, IsObject
    <2>2. cache[j].rev <= api[j].rev /\ api[j].rev <= clock
          /\ (cache[j].rev = api[j].rev => cache[j] = api[j])
      BY DEF Objs, Behind
    <2> QED BY <2>1, <2>2, <1>1, <1>2
  <1>5. api'["fabric"].exists
    BY <1>1, <1>2 DEF Objs, ObjectsOK, Kinds
  <1>6. ObjectsOK'
    BY <1>1, <1>3, <1>5 DEF Objs, ObjectsOK
  <1> QED BY <1>1, <1>4, <1>6 DEF Objs

LEMMA Unwritten ==
    ASSUME Objs, UNCHANGED <<api, clock, cache>>
    PROVE  Objs'
  BY DEF Objs, ObjectsOK, Behind

LEMMA Delivered ==
    ASSUME Objs, NEW k \in Kinds, Deliver(k)
    PROVE  /\ Objs'
           /\ cache'[k] = api[k]
           /\ \A j \in Kinds \ {k} : cache'[j] = cache[j]
  <1>1. /\ UNCHANGED <<api, clock>> /\ DOMAIN cache' = Kinds
        /\ cache'[k] = api[k]
        /\ \A j \in Kinds \ {k} : cache'[j] = cache[j]
    BY DEF Deliver, serverVars, Objs, ObjectsOK
  <1>2. Behind'
    <2> SUFFICES ASSUME NEW j \in Kinds
                 PROVE  /\ cache'[j].rev <= api[j].rev /\ api[j].rev <= clock
                        /\ cache'[j].rev = api[j].rev => cache'[j] = api[j]
      BY <1>1 DEF Behind
    <2>1. api[j].rev \in Nat
      BY DEF Objs, ObjectsOK, IsObject
    <2> QED BY <2>1, <1>1 DEF Objs, Behind
  <1>3. ObjectsOK'
    <2>1. cache'["fabric"].exists
      BY <1>1 DEF Objs, ObjectsOK, Kinds
    <2>2. \A j \in Kinds : IsObject(api[j], j) /\ IsObject(cache'[j], j)
      BY <1>1 DEF Objs, ObjectsOK
    <2> QED BY <1>1, <2>1, <2>2 DEF Objs, ObjectsOK
  <1> QED BY <1>1, <1>2, <1>3 DEF Objs

LEMMA DataTypes ==
    ASSUME NEW config \in BrokerConfigs
    PROVE  /\ config \in DataOf("broker")
           /\ ConfigMapData(config, <<>>) \in DataOf("ledger")
           /\ clock \in Nat => BrokerInfoData(config) \in DataOf("info")
  <1>1. config \in BrokerConfig
    BY ConstantsAssumption
  <1> QED
    BY <1>1 DEF DataOf, BrokerConfig, ConfigMapData, LedgerData, BrokerInfoData, InfoData

LEMMA InstanceType ==
    ASSUME WorkerOK, pc # "idle"
    PROVE  /\ instance.data \in FabricData
           /\ instance.data.spec \in BrokerConfigs
  BY DEF WorkerOK, IsObject, DataOf, FabricData

LEMMA GoesOn ==
    ASSUME WorkerOK, NEW next, GoOn(next)
    PROVE  /\ \/ pc' = next /\ failed' = failed
              \/ pc' = "status" /\ failed' = TRUE
           /\ failed' \in BOOLEAN
           /\ faults' \in 0 .. MaxFaults
  <1>1. CASE pc' = next /\ UNCHANGED <<failed, faults>>
    BY <1>1 DEF WorkerOK
  <1>2. CASE MayFail /\ faults' = faults + 1 /\ ReturnError
    <2>1. faults' \in 0 .. MaxFaults
      BY <1>2, ConstantsAssumption DEF WorkerOK, MayFail
    <2> QED BY <1>2, <2>1 DEF ReturnError
  <1> QED BY <1>1, <1>2 DEF GoOn

\* What CreateOrUpdate leaves: the object as wanted, or an error.
LEMMA CreatedOrUpdated ==
    ASSUME Objs, WorkerOK, NEW k \in Kinds, NEW data \in DataOf(k), NEW next,
           CreateOrUpdate(k, data, next)
    PROVE  /\ Objs'
           /\ \A j \in Kinds \ {k} : api'[j] = api[j]
           /\ \/ pc' = next /\ failed' = failed
              \/ pc' = "status" /\ failed' = TRUE
           /\ failed' \in BOOLEAN
           /\ faults' \in 0 .. MaxFaults
           /\ api[k].exists => api'[k].exists
           /\ \/ UNCHANGED <<api, clock>> /\ pc' = "status" /\ failed' = TRUE
              \/ UNCHANGED <<api, clock>> /\ AsWanted(k, data)
              \/ api'[k] = Object(clock + 1, data) /\ clock' = clock + 1
  <1>0. UNCHANGED cache
    BY DEF CreateOrUpdate
  <1>1. CASE AsWanted(k, data)
    <2>1. UNCHANGED <<api, clock>> /\ GoOn(next)
      BY <1>1 DEF CreateOrUpdate
    <2> QED BY <2>1, <1>0, <1>1, Unwritten, GoesOn
  <1>2. CASE ~ AsWanted(k, data) /\ Accepted(k)
    <2>1. Store(k, data) /\ GoOn(next)
      BY <1>2 DEF CreateOrUpdate
    <2>2. Object(clock + 1, data).exists
      BY DEF Object
    <2> QED BY <2>1, <2>2, <1>0, Stored, GoesOn
  <1>3. CASE ~ AsWanted(k, data) /\ ~ Accepted(k)
    <2>1. UNCHANGED <<api, clock>> /\ Reject
      BY <1>3 DEF CreateOrUpdate
    <2> QED BY <2>1, <1>0, Unwritten DEF Reject, ReturnError, WorkerOK
  <1> QED BY <1>1, <1>2, <1>3

-----------------------------------------------------------------------------
\* The invariant that holds whatever the caches and the failing steps are.

LEMMA InitInv == Init => IInv
  <1> SUFFICES ASSUME Init PROVE IInv
    OBVIOUS
  <1>1. PICK config \in BrokerConfigs :
          api = [k \in Kinds |->
                    IF k = "fabric"
                    THEN Object(1, [spec |-> config, phase |-> "none"])
                    ELSE NoObject(0)]
    BY DEF Init
  <1>2. [spec |-> config, phase |-> "none"] \in DataOf("fabric")
    BY DEF DataOf, FabricData
  <1>3. /\ IsObject(api["fabric"], "fabric") /\ api["fabric"].exists
        /\ api["fabric"].rev = 1
    BY <1>1, <1>2 DEF Object, IsObject, Kinds
  <1>4. \A k \in Kinds \ {"fabric"} :
           IsObject(api[k], k) /\ api[k].rev = 0 /\ ~ api[k].exists
    BY <1>1 DEF IsObject, NoObject
  <1>5. cache = api /\ clock = 1 /\ DOMAIN api = Kinds /\ "fabric" \in Kinds /\ "info" \in Kinds
    BY <1>1 DEF Init, Kinds
  <1>6. Objs
    BY <1>3, <1>4, <1>5 DEF Objs, ObjectsOK, Behind
  <1>7. WorkerOK
    <2>1. IsObject(instance, "fabric")
      BY DEF Init, IsObject, NoObject
    <2>2. edits \in 0 .. MaxEdits /\ faults \in 0 .. MaxFaults
      BY ConstantsAssumption DEF Init
    <2> QED BY <2>1, <2>2 DEF Init, WorkerOK
  <1>8. StepsDone /\ Prepared
    BY <1>4, <1>5 DEF Init, StepsDone, Deploying, Prepared
  <1> QED BY <1>6, <1>7, <1>8 DEF IInv

LEMMA NextInv == IInv /\ [Next]_vars => IInv'
  <1> SUFFICES ASSUME IInv, [Next]_vars PROVE IInv'
    OBVIOUS
  <1> USE DEF IInv
  <1>0. "fabric" \in Kinds /\ "broker" \in Kinds /\ "ledger" \in Kinds /\ "info" \in Kinds
    BY DEF Kinds
  <1>1. CASE UNCHANGED vars
    <2>1. UNCHANGED <<api, cache, clock, installed, pc, instance, failed, queued, edits, faults>>
      BY <1>1 DEF vars, serverVars, workerVars
    <2>2. Objs'
      BY <2>1, Unwritten
    <2>3. WorkerOK' /\ StepsDone' /\ Prepared'
      BY <2>1 DEF WorkerOK, StepsDone, Deploying, Ledger, Prepared
    <2> QED BY <2>2, <2>3
  <1>2. CASE Reconcile
    <2>1. /\ UNCHANGED <<api, cache, clock, installed, edits, faults>>
          /\ queued' = FALSE /\ instance' = cache["fabric"]
      BY <1>2 DEF Reconcile, serverVars
    <2>2. /\ pc' = IF IsValidGlobalnetConfig(instance'.data.spec) THEN "accounts" ELSE "status"
          /\ failed' \in BOOLEAN
      BY <1>2 DEF Reconcile
    <2>3. Objs'
      BY <2>1, Unwritten
    <2>4. WorkerOK'
      BY <2>1, <2>2, <1>0 DEF WorkerOK, Objs, ObjectsOK, Requests
    <2>5. StepsDone' /\ Prepared'
      BY <2>1, <2>2 DEF StepsDone, Deploying, Prepared
    <2> QED BY <2>3, <2>4, <2>5
  <1>3. CASE EnsureAccounts
    <2>1. /\ pc = "accounts" /\ installed' = installed \cup {"accounts"} /\ GoOn("token")
          /\ UNCHANGED <<api, cache, clock, instance, queued, edits>>
      BY <1>3 DEF EnsureAccounts
    <2>2. Objs'
      BY <2>1, Unwritten
    <2>3. /\ pc' \in {"token", "status"}
          /\ failed' \in BOOLEAN /\ faults' \in 0 .. MaxFaults
      BY <2>1, GoesOn
    <2>4. WorkerOK'
      BY <2>1, <2>3 DEF WorkerOK, Requests
    <2>5. StepsDone' /\ Prepared'
      BY <2>1, <2>3 DEF StepsDone, Deploying, Prepared, WorkerOK
    <2> QED BY <2>2, <2>4, <2>5
  <1>4. CASE WaitForClientToken
    <2>1. /\ pc = "token" /\ "token" \in installed /\ GoOn("operator")
          /\ UNCHANGED <<api, cache, clock, installed, instance, queued, edits>>
      BY <1>4 DEF WaitForClientToken, serverVars
    <2>2. Objs'
      BY <2>1, Unwritten
    <2>3. /\ pc' \in {"operator", "status"}
          /\ failed' \in BOOLEAN /\ faults' \in 0 .. MaxFaults
      BY <2>1, GoesOn
    <2>4. WorkerOK'
      BY <2>1, <2>3 DEF WorkerOK, Requests
    <2>5. StepsDone' /\ Prepared'
      BY <2>1, <2>3 DEF StepsDone, Deploying, Prepared
    <2> QED BY <2>2, <2>4, <2>5
  <1>5. CASE WaitTimesOut
    <2>1. /\ pc' = "status" /\ failed' = TRUE
          /\ UNCHANGED <<api, cache, clock, installed, instance, queued, edits, faults>>
      BY <1>5 DEF WaitTimesOut, serverVars, Reject, ReturnError
    <2>2. Objs'
      BY <2>1, Unwritten
    <2>3. pc # "idle"
      BY <1>5 DEF WaitTimesOut
    <2>4. WorkerOK' /\ StepsDone' /\ Prepared'
      BY <2>1, <2>3 DEF WorkerOK, Requests, StepsDone, Deploying, Prepared
    <2> QED BY <2>2, <2>4
  <1>6. CASE EnsureOperator
    <2>1. /\ pc = "operator" /\ installed' = installed \cup {"operator"} /\ GoOn("broker")
          /\ UNCHANGED <<api, cache, clock, instance, queued, edits>>
      BY <1>6 DEF EnsureOperator
    <2>2. Objs'
      BY <2>1, Unwritten
    <2>3. /\ pc' \in {"broker", "status"}
          /\ failed' \in BOOLEAN /\ faults' \in 0 .. MaxFaults
      BY <2>1, GoesOn
    <2>4. WorkerOK'
      BY <2>1, <2>3 DEF WorkerOK, Requests
    <2>5. StepsDone' /\ Prepared'
      BY <2>1, <2>3 DEF StepsDone, Deploying, Prepared, WorkerOK
    <2> QED BY <2>2, <2>4, <2>5
  <1>7. CASE EnsureBroker
    <2> DEFINE spec == instance.data.spec
               next == IF spec.enabled THEN "check" ELSE "ledger"
    <2>1. pc = "broker" /\ CreateOrUpdate("broker", spec, next)
      BY <1>7 DEF EnsureBroker
    <2>2. spec \in BrokerConfigs /\ spec \in DataOf("broker")
      BY <2>1, InstanceType, DataTypes
    <2>3. /\ Objs' /\ \A j \in Kinds \ {"broker"} : api'[j] = api[j]
          /\ pc' \in {next, "status"}
          /\ failed' \in BOOLEAN /\ faults' \in 0 .. MaxFaults
          /\ api["broker"].exists => api'["broker"].exists
          /\ \/ pc' = "status"
             \/ UNCHANGED <<api, clock>> /\ AsWanted("broker", spec)
             \/ api'["broker"] = Object(clock + 1, spec)
      <3> HIDE DEF next, spec
      <3> QED BY <2>1, <2>2, <1>0, CreatedOrUpdated
    <2>4. pc' = "status" \/ api'["broker"].exists
      BY <2>3 DEF AsWanted, Object, StepsDone
    <2>5. UNCHANGED <<cache, installed, instance, queued, edits>>
      BY <2>1 DEF CreateOrUpdate
    <2>6. WorkerOK'
      BY <2>1, <2>3, <2>5 DEF WorkerOK, Requests
    <2>7. StepsDone'
      BY <2>1, <2>3, <2>4, <2>5 DEF StepsDone, Deploying
    <2>8. Prepared'
      BY <2>3, <2>5, <1>0 DEF Prepared
    <2> QED BY <2>3, <2>6, <2>7, <2>8
  <1>8. CASE ValidateExistingGlobalNetworks
    <2>1. /\ pc = "check"
          /\ UNCHANGED <<api, cache, clock, installed, instance, queued, edits>>
          /\ IF ValidGlobalNetworks(Ledger) THEN GoOn("ledger") ELSE Reject
      BY <1>8 DEF ValidateExistingGlobalNetworks, serverVars
    <2>2. Objs'
      BY <2>1, Unwritten
    <2>3. /\ \/ pc' = "ledger" /\ ValidGlobalNetworks(Ledger)
             \/ pc' = "status"
          /\ failed' \in BOOLEAN /\ faults' \in 0 .. MaxFaults
      <3>1. CASE ValidGlobalNetworks(Ledger)
        BY <2>1, <3>1, GoesOn
      <3>2. CASE ~ ValidGlobalNetworks(Ledger)
        BY <2>1, <3>2 DEF Reject, ReturnError, WorkerOK
      <3> QED BY <3>1, <3>2
    <2>4. WorkerOK'
      BY <2>1, <2>3 DEF WorkerOK, Requests
    <2>5. StepsDone' /\ Prepared'
      BY <2>1, <2>3 DEF StepsDone, Deploying, Prepared, Ledger
    <2> QED BY <2>2, <2>4, <2>5
  <1>9. CASE CreateGlobalnetConfigMap
    <2> DEFINE data == ConfigMapData(instance.data.spec, <<>>)
    <2>1. /\ pc = "ledger" /\ pc' = "info"
          /\ UNCHANGED <<cache, installed, instance, failed, queued, edits>>
          /\ \/ Store("ledger", data) /\ UNCHANGED faults
             \/ UNCHANGED <<api, clock, faults>>
             \/ UNCHANGED <<api, clock>> /\ MayFail /\ faults' = faults + 1
      BY <1>9 DEF CreateGlobalnetConfigMap
    <2>2. data \in DataOf("ledger")
      BY <2>1, InstanceType, DataTypes
    <2>3. Objs' /\ \A j \in Kinds \ {"ledger"} : api'[j] = api[j]
      <3> HIDE DEF data
      <3>1. CASE Store("ledger", data)
        BY <3>1, <2>1, <2>2, <1>0, Stored
      <3>2. CASE UNCHANGED <<api, clock>>
        BY <3>2, <2>1, Unwritten
      <3> QED BY <2>1, <3>1, <3>2
    <2>4. faults' \in 0 .. MaxFaults
      BY <2>1, ConstantsAssumption DEF WorkerOK, MayFail
    <2>5. WorkerOK'
      BY <2>1, <2>4 DEF WorkerOK, Requests
    <2>6. StepsDone' /\ Prepared'
      BY <2>1, <2>3, <1>0 DEF StepsDone, Deploying, Prepared
    <2> QED BY <2>3, <2>5, <2>6
  <1>10. CASE CreateBrokerInfoConfigMap
    <2> DEFINE data == BrokerInfoData(instance.data.spec)
    <2>1. pc = "info" /\ CreateOrUpdate("info", data, "status")
      BY <1>10 DEF CreateBrokerInfoConfigMap
    <2>2. data \in DataOf("info")
      BY <2>1, InstanceType, DataTypes DEF Objs, ObjectsOK
    <2>3. /\ Objs' /\ \A j \in Kinds \ {"info"} : api'[j] = api[j]
          /\ pc' = "status" /\ failed' \in BOOLEAN /\ faults' \in 0 .. MaxFaults
      <3> HIDE DEF data
      <3> QED BY <2>1, <2>2, <1>0, CreatedOrUpdated
    <2>4. UNCHANGED <<cache, installed, instance, queued, edits>>
      BY <2>1 DEF CreateOrUpdate
    <2>5. WorkerOK'
      BY <2>1, <2>3, <2>4 DEF WorkerOK, Requests
    <2>6. StepsDone' /\ Prepared'
      BY <2>1, <2>3, <2>4, <1>0 DEF StepsDone, Deploying, Prepared, WorkerOK
    <2> QED BY <2>3, <2>5, <2>6
  <1>11. CASE Finish
    <2> DEFINE data == [api["fabric"].data EXCEPT !.phase = Phase]
    <2>1. /\ pc = "status" /\ pc' = "idle" /\ instance' = NoObject(0) /\ failed' = FALSE
          /\ UNCHANGED <<installed, cache, edits>>
          /\ queued' = (queued \/ failed)
          /\ StatusUpdate
      BY <1>11 DEF Finish, Return
    <2>2. data \in DataOf("fabric")
      BY DEF Objs, ObjectsOK, IsObject, DataOf, FabricData, Phase, Kinds
    <2>3. /\ \/ Store("fabric", data)
             \/ UNCHANGED <<api, clock>>
          /\ faults' \in 0 .. MaxFaults
      BY <2>1, ConstantsAssumption DEF StatusUpdate, WorkerOK, MayFail
    <2>4. Objs' /\ \A j \in Kinds \ {"fabric"} : api'[j] = api[j]
      <3> HIDE DEF data
      <3>1. CASE Store("fabric", data)
        BY <3>1, <2>1, <2>2, <1>0, Stored
      <3>2. CASE UNCHANGED <<api, clock>>
        BY <3>2, <2>1, Unwritten
      <3> QED BY <2>3, <3>1, <3>2
    <2>5. queued' \in BOOLEAN
      BY <2>1 DEF WorkerOK
    <2>6. WorkerOK'
      BY <2>1, <2>3, <2>5 DEF WorkerOK, Requests, IsObject, NoObject
    <2>7. StepsDone' /\ Prepared'
      BY <2>1, <2>4, <1>0 DEF StepsDone, Deploying, Prepared
    <2> QED BY <2>4, <2>6, <2>7
  <1>12. CASE AtRest
    <2>1. UNCHANGED vars
      BY <1>12 DEF AtRest
    <2> QED BY <2>1, <1>1
  <1>13. ASSUME NEW k \in Kinds, Deliver(k)
         PROVE  IInv'
    <2>1. /\ UNCHANGED <<api, clock, installed, pc, instance, failed, edits, faults>>
          /\ queued' = (queued \/ Triggers(k))
      BY <1>13 DEF Deliver, serverVars, workerVars
    <2>2. Objs' /\ cache'[k] = api[k] /\ \A j \in Kinds \ {k} : cache'[j] = cache[j]
      BY <1>13, Delivered
    <2>3. queued' \in BOOLEAN
      <3>1. Triggers(k) \in BOOLEAN
        BY DEF Triggers
      <3> QED BY <3>1, <2>1 DEF WorkerOK
    <2>4. WorkerOK'
      BY <2>1, <2>3 DEF WorkerOK
    <2>5. StepsDone' /\ Prepared'
      BY <2>1, <2>2, <1>0 DEF StepsDone, Deploying, Ledger, Prepared
    <2> QED BY <2>2, <2>4, <2>5
  <1>14. CASE AttachToken
    <2>1. /\ installed' = installed \cup {"token"}
          /\ UNCHANGED <<api, cache, clock, pc, instance, failed, queued, edits, faults>>
      BY <1>14 DEF AttachToken, workerVars
    <2>2. Objs'
      BY <2>1, Unwritten
    <2>3. WorkerOK' /\ StepsDone' /\ Prepared'
      BY <2>1 DEF WorkerOK, StepsDone, Deploying, Ledger, Prepared
    <2> QED BY <2>2, <2>3
  <1>15. CASE RequestFails
    <2>1. /\ pc # "idle" /\ pc' = "status" /\ failed' = TRUE
          /\ MayFail /\ faults' = faults + 1
          /\ UNCHANGED <<api, cache, clock, installed, instance, queued, edits>>
      BY <1>15 DEF RequestFails, ReturnError, serverVars, Requests
    <2>2. Objs'
      BY <2>1, Unwritten
    <2>3. faults' \in 0 .. MaxFaults
      BY <2>1, ConstantsAssumption DEF WorkerOK, MayFail
    <2>4. WorkerOK' /\ StepsDone' /\ Prepared'
      BY <2>1, <2>3 DEF WorkerOK, Requests, StepsDone, Deploying, Prepared
    <2> QED BY <2>2, <2>4
  <1>16. CASE Restart
    <2>1. /\ faults < MaxFaults /\ faults' = faults + 1
          /\ pc' = "idle" /\ instance' = NoObject(0) /\ failed' = FALSE
          /\ queued' = TRUE /\ cache' = api
          /\ UNCHANGED <<api, clock, installed, edits>>
      BY <1>16 DEF Restart, Return, serverVars
    <2>2. Objs'
      <3>1. \A k \in Kinds : api[k].rev \in Nat
        BY DEF Objs, ObjectsOK, IsObject
      <3> QED BY <2>1, <3>1 DEF Objs, ObjectsOK, Behind
    <2>3. faults' \in 0 .. MaxFaults
      BY <2>1, ConstantsAssumption DEF WorkerOK
    <2>4. WorkerOK' /\ StepsDone' /\ Prepared'
      BY <2>1, <2>3 DEF WorkerOK, StepsDone, Deploying, Prepared, IsObject, NoObject
    <2> QED BY <2>2, <2>4
  <1>17. CASE DeleteInfo
    <2>1. /\ edits < MaxEdits /\ edits' = edits + 1 /\ clock' = clock + 1
          /\ api' = [api EXCEPT !["info"] = NoObject(clock + 1)]
          /\ UNCHANGED <<cache, installed, pc, instance, failed, queued, faults>>
      BY <1>17 DEF DeleteInfo, workerVars
    <2>2. /\ api'["info"] = NoObject(clock + 1) /\ DOMAIN api' = Kinds
          /\ \A j \in Kinds \ {"info"} : api'[j] = api[j]
      BY <2>1, <1>0 DEF Objs, ObjectsOK
    <2>3. Objs'
      <3>1. \A j \in Kinds : IsObject(api'[j], j)
        BY <2>2 DEF Objs, ObjectsOK, IsObject, NoObject
      <3>2. \A j \in Kinds :
               /\ api'[j].rev \in Nat /\ cache[j].rev \in Nat /\ api[j].rev \in Nat
               /\ api'[j].rev <= clock' /\ api[j].rev <= api'[j].rev
        BY <2>1, <2>2 DEF Objs, ObjectsOK, IsObject, Behind, NoObject
      <3>3. Behind'
        BY <2>1, <2>2, <3>2 DEF Objs, ObjectsOK, Behind, NoObject
      <3>4. ObjectsOK'
        BY <2>1, <2>2, <3>1, <1>0 DEF Objs, ObjectsOK
      <3> QED BY <3>3, <3>4 DEF Objs
    <2>4. ~ api'["info"].exists
      BY <2>2 DEF NoObject
    <2>5. WorkerOK' /\ StepsDone' /\ Prepared'
      BY <2>1, <2>2, <2>4, <1>0, ConstantsAssumption
         DEF WorkerOK, StepsDone, Deploying, Ledger, Prepared
    <2> QED BY <2>3, <2>5
  <1>18. ASSUME NEW config \in BrokerConfigs, EditSpec(config)
         PROVE  IInv'
    <2> DEFINE data == [api["fabric"].data EXCEPT !.spec = config]
    <2>1. /\ edits < MaxEdits /\ edits' = edits + 1 /\ Store("fabric", data)
          /\ UNCHANGED <<cache, installed, pc, instance, failed, queued, faults>>
      BY <1>18 DEF EditSpec, workerVars
    <2>2. data \in DataOf("fabric")
      BY DEF Objs, ObjectsOK, IsObject, DataOf, FabricData, Kinds
    <2>3. Objs' /\ \A j \in Kinds \ {"fabric"} : api'[j] = api[j]
      <3> HIDE DEF data
      <3> QED BY <2>1, <2>2, <1>0, Stored
    <2>4. WorkerOK' /\ StepsDone' /\ Prepared'
      BY <2>1, <2>3, <1>0, ConstantsAssumption
         DEF WorkerOK, StepsDone, Deploying, Ledger, Prepared
    <2> QED BY <2>3, <2>4
  <1> QED
    BY <1>1, <1>2, <1>3, <1>4, <1>5, <1>6, <1>7, <1>8, <1>9, <1>10, <1>11, <1>12,
       <1>13, <1>14, <1>15, <1>16, <1>17, <1>18 DEF Next, Work

THEOREM Invariance == Spec => []IInv
  BY InitInv, NextInv, PTL DEF Spec

\* Every state is of the right type (the declarations of BrokerDeployment).
THEOREM TypeCorrect == Spec => []TypeOK
  BY Invariance, TypeOKIsIInv, PTL

-----------------------------------------------------------------------------
\* What a joining cluster needs.  CreateGlobalnetConfigMap drops the error of its
\* write, which is all that can keep the globalnet ConfigMap from being there.

LedgerWriteFails == CreateGlobalnetConfigMap /\ faults' # faults

LedgerFirst ==
    /\ cache["ledger"].exists => api["ledger"].exists
    /\ pc = "info" \/ api["info"].exists => api["ledger"].exists

LEMMA LedgerFirstNext ==
    ASSUME IInv, LedgerFirst, [Next]_vars, [~ LedgerWriteFails]_vars
    PROVE  LedgerFirst'
  <1> USE DEF IInv
  <1>0. "fabric" \in Kinds /\ "broker" \in Kinds /\ "ledger" \in Kinds /\ "info" \in Kinds
    BY DEF Kinds
  <1>1. CASE UNCHANGED vars
    BY <1>1 DEF vars, serverVars, workerVars, LedgerFirst
  <1>2. CASE CreateGlobalnetConfigMap
    <2> DEFINE data == ConfigMapData(instance.data.spec, <<>>)
    <2>1. UNCHANGED faults
      BY <1>2 DEF LedgerWriteFails, vars
    <2>2. faults \in Nat
      BY ConstantsAssumption DEF WorkerOK
    <2>3. /\ pc = "ledger" /\ UNCHANGED cache
          /\ \/ Store("ledger", data)
             \/ UNCHANGED <<api, clock>> /\ (AsWanted("ledger", data) \/ ~ Accepted("ledger"))
      BY <1>2, <2>1, <2>2 DEF CreateGlobalnetConfigMap
    <2>4. data \in DataOf("ledger")
      BY <2>3, InstanceType, DataTypes
    <2>5. CASE Store("ledger", data)
      <3> HIDE DEF data
      <3>1. api'["ledger"] = Object(clock + 1, data)
        BY <2>3, <2>4, <2>5, <1>0, Stored
      <3> QED BY <3>1 DEF Object, LedgerFirst
    <2>6. CASE UNCHANGED api /\ (AsWanted("ledger", data) \/ ~ Accepted("ledger"))
      <3>1. api["ledger"].exists
        BY <2>6 DEF AsWanted, Accepted, LedgerFirst
      <3> QED BY <2>6, <3>1 DEF LedgerFirst
    <2> QED BY <2>3, <2>5, <2>6
  <1>3. CASE EnsureBroker
    <2>1. /\ pc = "broker" /\ pc' # "info" /\ UNCHANGED cache
          /\ UNCHANGED api \/ Store("broker", instance.data.spec)
      BY <1>3 DEF EnsureBroker, CreateOrUpdate, GoOn, Reject, ReturnError
    <2>2. api'["ledger"] = api["ledger"] /\ api'["info"] = api["info"]
      BY <2>1, <1>0 DEF Store, Objs, ObjectsOK
    <2> QED BY <2>1, <2>2 DEF LedgerFirst
  <1>4. CASE CreateBrokerInfoConfigMap
    <2>1. /\ pc = "info" /\ UNCHANGED cache
          /\ UNCHANGED api \/ Store("info", BrokerInfoData(instance.data.spec))
      BY <1>4 DEF CreateBrokerInfoConfigMap, CreateOrUpdate
    <2>2. api'["ledger"] = api["ledger"]
      BY <2>1, <1>0 DEF Store, Objs, ObjectsOK
    <2> QED BY <2>1, <2>2 DEF LedgerFirst
  <1>5. CASE Finish
    <2>1. /\ pc' = "idle" /\ UNCHANGED cache
          /\ UNCHANGED api \/ \E data : Store("fabric", data)
      BY <1>5 DEF Finish, StatusUpdate, Return
    <2>2. api'["ledger"] = api["ledger"] /\ api'["info"] = api["info"]
      BY <2>1, <1>0 DEF Store, Objs, ObjectsOK
    <2> QED BY <2>1, <2>2 DEF LedgerFirst
  <1>6. CASE DeleteInfo
    <2>1. api'["ledger"] = api["ledger"] /\ ~ api'["info"].exists
      BY <1>6, <1>0 DEF DeleteInfo, NoObject, Objs, ObjectsOK
    <2> QED BY <1>6, <2>1 DEF DeleteInfo, workerVars, LedgerFirst
  <1>7. ASSUME NEW config \in BrokerConfigs, EditSpec(config) PROVE LedgerFirst'
    <2>1. api'["ledger"] = api["ledger"] /\ api'["info"] = api["info"]
      BY <1>7, <1>0 DEF EditSpec, Store, Objs, ObjectsOK
    <2> QED BY <1>7, <2>1 DEF EditSpec, workerVars, LedgerFirst
  <1>8. ASSUME NEW k \in Kinds, Deliver(k) PROVE LedgerFirst'
    <2>1. cache'["ledger"] \in {cache["ledger"], api["ledger"]}
      BY <1>8, <1>0, Delivered
    <2> QED BY <1>8, <2>1 DEF Deliver, serverVars, workerVars, LedgerFirst
  <1>9. CASE Restart
    BY <1>9 DEF Restart, Return, serverVars, LedgerFirst
  <1>10. CASE Reconcile \/ EnsureAccounts \/ WaitForClientToken \/ WaitTimesOut \/ EnsureOperator
             \/ ValidateExistingGlobalNetworks \/ RequestFails \/ AttachToken \/ AtRest
    <2>1. UNCHANGED <<api, cache>> /\ (pc' # "info" \/ pc' = pc)
      BY <1>10 DEF Reconcile, EnsureAccounts, WaitForClientToken, WaitTimesOut, EnsureOperator,
         ValidateExistingGlobalNetworks, RequestFails, AttachToken, AtRest, GoOn, Reject,
         ReturnError, serverVars, workerVars, vars
    <2> QED BY <2>1 DEF LedgerFirst
  <1> QED
    BY <1>1, <1>2, <1>3, <1>4, <1>5, <1>6, <1>7, <1>8, <1>9, <1>10 DEF Next, Work

\* Where no write of the globalnet ConfigMap fails, no cluster finds a broker info
\* before everything a join needs, whatever else fails and however stale the caches
\* are (deploy_broker.go:49-82).
THEOREM PublishedLast == Spec /\ [][~ LedgerWriteFails]_vars => []PublishedWhenReady
  <1>1. Init => LedgerFirst
    BY DEF Init, LedgerFirst, NoObject, Kinds
  <1>2. IInv /\ LedgerFirst /\ [Next]_vars /\ [~ LedgerWriteFails]_vars => LedgerFirst'
    BY LedgerFirstNext
  <1>3. IInv /\ LedgerFirst => PublishedWhenReady
    BY DEF IInv, Prepared, LedgerFirst, PublishedWhenReady
  <1> QED BY <1>1, <1>2, <1>3, Invariance, PTL DEF Spec

-----------------------------------------------------------------------------
\* A reconcile with some configuration, whose two checks hold at this moment, writes
\* the globalnet ConfigMap.
Deployed(config) ==
    /\ IsValidGlobalnetConfig(config)
    /\ config.enabled => ValidGlobalNetworks(Ledger)
    /\ Ledger' = ConfigMapData(config, <<>>)

LEMMA LedgerStep ==
    ASSUME IInv, [Next]_vars
    PROVE  api'["ledger"] = api["ledger"] \/ \E config \in BrokerConfigs : Deployed(config)
  <1>0. "fabric" \in Kinds /\ "broker" \in Kinds /\ "ledger" \in Kinds /\ "info" \in Kinds
    BY DEF Kinds
  <1>1. CASE CreateGlobalnetConfigMap
    <2> DEFINE spec == instance.data.spec
    <2>1. /\ pc = "ledger" /\ UNCHANGED cache
          /\ UNCHANGED api \/ Store("ledger", ConfigMapData(spec, <<>>))
      BY <1>1 DEF CreateGlobalnetConfigMap
    <2>2. spec \in BrokerConfigs /\ ConfigMapData(spec, <<>>) \in DataOf("ledger")
      BY <2>1, InstanceType, DataTypes DEF IInv
    <2>3. IsValidGlobalnetConfig(spec) /\ (spec.enabled => ValidGlobalNetworks(Ledger))
      BY <2>1 DEF IInv, StepsDone, Deploying
    <2>4. CASE Store("ledger", ConfigMapData(spec, <<>>))
      <3>1. api'["ledger"] = Object(clock + 1, ConfigMapData(spec, <<>>))
        BY <2>4, <2>1, <2>2, <1>0, Stored DEF IInv
      <3>2. Ledger' = ConfigMapData(spec, <<>>)
        BY <3>1 DEF Ledger, Object
      <3> QED BY <3>2, <2>2, <2>3 DEF Deployed
    <2> QED BY <2>1, <2>4
  <1>2. CASE EnsureBroker \/ CreateBrokerInfoConfigMap \/ Finish \/ DeleteInfo
    BY <1>2, <1>0 DEF EnsureBroker, CreateBrokerInfoConfigMap, CreateOrUpdate, Finish,
       StatusUpdate, DeleteInfo, Store, IInv, Objs, ObjectsOK
  <1>3. ASSUME NEW config \in BrokerConfigs, EditSpec(config)
        PROVE  api'["ledger"] = api["ledger"]
    BY <1>3, <1>0 DEF EditSpec, Store, IInv, Objs, ObjectsOK
  <1> QED
    BY <1>1, <1>2, <1>3 DEF Next, Work, Reconcile, EnsureAccounts,
       WaitForClientToken, WaitTimesOut, EnsureOperator, ValidateExistingGlobalNetworks,
       AtRest, Deliver, AttachToken, RequestFails, Restart, serverVars, vars

\* The globalnet ConfigMap changes only by a deployment whose checks hold at
\* the moment it is written (deploy_broker.go:44-76).
THEOREM DeployedAsChecked == Spec => LedgerDeployed
  <1> DEFINE Checked == api'["ledger"].rev # api["ledger"].rev =>
                           \E config \in BrokerConfigs :
                              /\ IsValidGlobalnetConfig(config)
                              /\ config.enabled => ValidGlobalNetworks(Ledger)
                              /\ Ledger' = ConfigMapData(config, <<>>)
  <1>1. IInv /\ [Next]_vars => [Checked]_vars
    BY LedgerStep DEF Deployed
  <1> QED BY <1>1, Invariance, PTL DEF Spec, LedgerDeployed

-----------------------------------------------------------------------------
\* Enabling globalnet later.

\* The globalnet ConfigMap has been written with globalnet disabled.
Rangeless == api["ledger"].exists /\ api["ledger"].data.range = NoBlock

LEMMA RangeIsSome ==
    ASSUME NEW config \in BrokerConfigs
    PROVE  config.range # NoBlock
  BY ConstantsAssumption, SizesAssumption DEF BrokerConfig, Block, NoBlock

LEMMA RangelessInvalid ==
    ASSUME IInv, Rangeless
    PROVE  ~ ValidGlobalNetworks(Ledger)
  <1>1. Ledger.exists /\ Ledger.range = NoBlock
    <2>1. "ledger" \in Kinds
      BY DEF Kinds
    <2>2. api["ledger"].data \in LedgerData
      BY <2>1 DEF IInv, Objs, ObjectsOK, IsObject, DataOf, Rangeless
    <2> QED BY <2>2 DEF Rangeless, Ledger, LedgerData
  <1> QED BY <1>1 DEF ValidGlobalNetworks, NoBlock

LEMMA RangelessStep ==
    ASSUME IInv, [Next]_vars, Rangeless
    PROVE  Rangeless'
  <1>1. ASSUME NEW config \in BrokerConfigs, Deployed(config)
        PROVE  Rangeless'
    <2>1. ~ config.enabled
      BY <1>1, RangelessInvalid DEF Deployed
    <2>2. Ledger'.exists /\ Ledger'.range = NoBlock
      BY <1>1, <2>1 DEF Deployed, ConfigMapData
    <2> QED BY <2>2 DEF Ledger, NoConfigMapData, Rangeless
  <1> QED BY <1>1, LedgerStep DEF Rangeless

\* No configuration is rejected without an error.
NoneIgnored ==
    \A config \in BrokerConfigs :
        ~ IsValidGlobalnetConfig(config) =>
            config.enabled /\ ClusterSizeFails(config.range, config.size)

\* A reconcile of an outdated Fabric object has a successor in the queue.
InstanceLatest == pc # "idle" /\ queued = FALSE => instance = cache["fabric"]

\* While the ConfigMap has no range, no reconcile gets past its check with globalnet
\* enabled.
EnabledRejected ==
    Rangeless =>
        /\ pc \in {"ledger", "info"} => ~ instance.data.spec.enabled
        /\ pc = "status" /\ failed = FALSE => ~ instance.data.spec.enabled
        /\ pc = "idle" /\ queued = FALSE => ~ cache["fabric"].data.spec.enabled

RejectInv == InstanceLatest /\ EnabledRejected

\* A step that leaves the ConfigMap alone and goes on to the next request before
\* the ConfigMap is written, or to the end with an error.
LEMMA RejectQuiet ==
    ASSUME RejectInv, UNCHANGED <<cache, instance, queued>>,
           api'["ledger"] = api["ledger"],
           \/ UNCHANGED <<pc, failed>>
           \/ pc # "idle" /\ pc' = "status" /\ failed' = TRUE
           \/ pc # "idle" /\ pc' \in {"token", "operator", "broker", "check"}
    PROVE  RejectInv'
  BY DEF RejectInv, InstanceLatest, EnabledRejected, Rangeless

LEMMA RejectNext ==
    ASSUME NoneIgnored, IInv, RejectInv, [Next]_vars
    PROVE  RejectInv'
  <1>0. "fabric" \in Kinds /\ "broker" \in Kinds /\ "ledger" \in Kinds /\ "info" \in Kinds
    BY DEF Kinds
  <1>a. Objs /\ WorkerOK /\ clock \in Nat
    BY DEF IInv, Objs, ObjectsOK
  <1>1. CASE \/ UNCHANGED vars \/ AtRest \/ AttachToken \/ EnsureAccounts
             \/ WaitForClientToken \/ WaitTimesOut \/ EnsureOperator \/ RequestFails
    <2>1. UNCHANGED <<api, cache, instance, queued>>
      BY <1>1 DEF vars, serverVars, workerVars, AtRest, AttachToken, EnsureAccounts,
         WaitForClientToken, WaitTimesOut, EnsureOperator, RequestFails
    <2>2. \/ UNCHANGED <<pc, failed>>
          \/ pc # "idle" /\ pc' = "status" /\ failed' = TRUE
          \/ pc # "idle" /\ pc' \in {"token", "operator", "broker", "check"}
      BY <1>1, <1>a, GoesOn DEF vars, serverVars, workerVars, AtRest, AttachToken,
         EnsureAccounts, WaitForClientToken, WaitTimesOut, EnsureOperator, RequestFails,
         Reject, ReturnError, Requests
    <2> QED BY <2>1, <2>2, RejectQuiet
  <1>2. CASE EnsureBroker
    <2> DEFINE spec == instance.data.spec
               next == IF spec.enabled THEN "check" ELSE "ledger"
    <2>1. /\ pc = "broker" /\ CreateOrUpdate("broker", spec, next)
          /\ UNCHANGED <<cache, instance, queued>>
      BY <1>2 DEF EnsureBroker, CreateOrUpdate
    <2>2. spec \in DataOf("broker") /\ next \in {"check", "ledger"}
      BY <2>1, <1>a, InstanceType, DataTypes
    <2>3. /\ api'["ledger"] = api["ledger"]
          /\ pc' = next \/ (pc' = "status" /\ failed' = TRUE)
      <3> HIDE DEF next, spec
      <3> QED BY <2>1, <2>2, <1>a, <1>0, CreatedOrUpdated
    <2> QED BY <2>1, <2>3 DEF RejectInv, InstanceLatest, EnabledRejected
  <1>3. CASE ValidateExistingGlobalNetworks
    <2>1. pc = "check" /\ UNCHANGED <<api, cache, instance, queued>>
      BY <1>3 DEF ValidateExistingGlobalNetworks, serverVars
    <2>2. \/ pc' = "status" /\ failed' = TRUE
          \/ pc' = "ledger" /\ ValidGlobalNetworks(Ledger)
      BY <1>3, <1>a, GoesOn DEF ValidateExistingGlobalNetworks, Reject, ReturnError
    <2>3. CASE pc' = "status" /\ failed' = TRUE
      BY <2>1, <2>3, RejectQuiet
    <2>4. CASE pc' = "ledger" /\ ValidGlobalNetworks(Ledger)
      <3>1. ~ Rangeless'
        BY <2>1, <2>4, RangelessInvalid DEF Rangeless
      <3> QED BY <2>1, <2>4, <3>1 DEF RejectInv, InstanceLatest, EnabledRejected
    <2> QED BY <2>2, <2>3, <2>4
  <1>4. CASE CreateGlobalnetConfigMap
    <2> DEFINE spec == instance.data.spec
    <2>1. /\ pc = "ledger" /\ pc' = "info" /\ UNCHANGED <<cache, instance, queued>>
          /\ UNCHANGED api \/ Store("ledger", ConfigMapData(spec, <<>>))
      BY <1>4 DEF CreateGlobalnetConfigMap
    <2>2. Rangeless' => ~ spec.enabled
      <3>1. CASE UNCHANGED api
        BY <3>1, <2>1 DEF RejectInv, EnabledRejected, Rangeless
      <3>2. CASE Store("ledger", ConfigMapData(spec, <<>>))
        <4>1. api'["ledger"] = Object(clock + 1, ConfigMapData(spec, <<>>))
          BY <3>2, <1>a, <1>0 DEF Store, Objs, ObjectsOK
        <4>2. spec \in BrokerConfigs
          BY <2>1, <1>a, InstanceType
        <4>3. spec.range # NoBlock
          BY <4>2, RangeIsSome
        <4> QED BY <4>1, <4>3 DEF Rangeless, Object, ConfigMapData
      <3> QED BY <2>1, <3>1, <3>2
    <2> QED BY <2>1, <2>2 DEF RejectInv, InstanceLatest, EnabledRejected
  <1>5. CASE CreateBrokerInfoConfigMap
    <2>1. /\ pc = "info" /\ pc' = "status" /\ UNCHANGED <<cache, instance, queued>>
          /\ api'["ledger"] = api["ledger"]
      BY <1>5, <1>a, <1>0, GoesOn DEF CreateBrokerInfoConfigMap, CreateOrUpdate, Store, Reject,
         ReturnError, Objs, ObjectsOK
    <2> QED BY <2>1 DEF RejectInv, InstanceLatest, EnabledRejected, Rangeless
  <1>6. CASE Reconcile
    <2> DEFINE spec == cache["fabric"].data.spec
    <2>1. /\ UNCHANGED <<api, cache>> /\ queued' = FALSE /\ instance' = cache["fabric"]
          /\ pc' = IF IsValidGlobalnetConfig(spec) THEN "accounts" ELSE "status"
          /\ failed' = (spec.enabled /\ ClusterSizeFails(spec.range, spec.size))
      BY <1>6 DEF Reconcile, serverVars
    <2>2. spec \in BrokerConfigs
      BY <1>a, <1>0 DEF Objs, ObjectsOK, IsObject, DataOf, FabricData
    <2>3. pc' = "accounts" \/ (pc' = "status" /\ failed' = TRUE)
      BY <2>1, <2>2 DEF NoneIgnored
    <2> QED BY <2>1, <2>3 DEF RejectInv, InstanceLatest, EnabledRejected
  <1>7. CASE Finish
    <2>1. /\ pc = "status" /\ pc' = "idle" /\ queued' = (queued \/ failed)
          /\ UNCHANGED cache /\ api'["ledger"] = api["ledger"]
      BY <1>7, <1>a, <1>0 DEF Finish, Return, StatusUpdate, Store, Objs, ObjectsOK
    <2>2. queued' = FALSE => queued = FALSE /\ failed = FALSE
      BY <2>1, <1>a DEF WorkerOK
    <2> QED BY <2>1, <2>2 DEF RejectInv, InstanceLatest, EnabledRejected, Rangeless
  <1>8. ASSUME NEW k \in Kinds, Deliver(k)
        PROVE  RejectInv'
    <2>1. /\ cache' = [cache EXCEPT ![k] = api[k]] /\ queued' = (queued \/ Triggers(k))
          /\ UNCHANGED <<api, pc, instance, failed>>
      BY <1>8 DEF Deliver, serverVars, workerVars
    <2>2. queued' = FALSE => queued = FALSE /\ cache'["fabric"] = cache["fabric"]
      BY <2>1, <1>a, <1>0 DEF Triggers, Objs, ObjectsOK, WorkerOK
    <2> QED BY <2>1, <2>2 DEF RejectInv, InstanceLatest, EnabledRejected, Rangeless
  <1>9. CASE Restart
    BY <1>9 DEF Restart, Return, RejectInv, InstanceLatest, EnabledRejected
  <1>10. CASE DeleteInfo
    <2>1. UNCHANGED <<cache, instance, queued, pc, failed>> /\ api'["ledger"] = api["ledger"]
      BY <1>10, <1>a, <1>0 DEF DeleteInfo, workerVars, Objs, ObjectsOK
    <2> QED BY <2>1, RejectQuiet
  <1>11. ASSUME NEW config \in BrokerConfigs, EditSpec(config)
         PROVE  RejectInv'
    <2>1. UNCHANGED <<cache, instance, queued, pc, failed>> /\ api'["ledger"] = api["ledger"]
      BY <1>11, <1>a, <1>0 DEF EditSpec, Store, workerVars, Objs, ObjectsOK
    <2> QED BY <2>1, RejectQuiet
  <1> QED
    BY <1>1, <1>2, <1>3, <1>4, <1>5, <1>6, <1>7, <1>8, <1>9, <1>10, <1>11 DEF Next, Work

\* A globalnet ConfigMap that has been written with globalnet disabled keeps its
\* empty range, and while the user has globalnet enabled the operator does not come
\* to rest again, however often it tries and whatever its caches hold
\* (globalnet.go:394-411, deploy_broker.go:65-70).
THEOREM NeverEnabledLater ==
    ASSUME NoneIgnored
    PROVE  Spec => [](Rangeless => [](Rangeless /\ (Wanted.enabled => ~ Quiet)))
  <1>1. Init => RejectInv
    BY DEF Init, NoObject, Kinds, RejectInv, InstanceLatest, EnabledRejected, Rangeless
  <1>2. IInv /\ RejectInv /\ [Next]_vars => RejectInv'
    BY RejectNext
  <1>3. IInv /\ [Next]_vars => (Rangeless => Rangeless')
    BY RangelessStep
  <1>4. IInv /\ RejectInv => (Rangeless => (Wanted.enabled => ~ Quiet))
    <2> SUFFICES ASSUME IInv, RejectInv, Rangeless, Quiet
                 PROVE  ~ Wanted.enabled
      OBVIOUS
    <2>1. pc = "idle" /\ queued = FALSE
      BY DEF Quiet, IInv, WorkerOK
    <2>2. cache["fabric"] = api["fabric"]
      BY DEF Quiet, Triggers, IInv, Objs, ObjectsOK, Behind, Kinds
    <2> QED BY <2>1, <2>2 DEF RejectInv, EnabledRejected, Wanted
  <1> QED BY <1>1, <1>2, <1>3, <1>4, Invariance, PTL DEF Spec

-----------------------------------------------------------------------------
\* Coming to rest.  The caches keep up, and no configuration is rejected
\* without an error (a size that nextPowerOf2 turns into 0).

KeepingUp == CachesKeepUp /\ NoneIgnored

BrokerFor(spec) == api["broker"].exists /\ api["broker"].data = spec

LedgerFor(spec) ==
    "ledger" \notin FailingSteps =>
        /\ api["ledger"].exists
        /\ api["ledger"].data = ConfigMapData(spec, <<>>)

\* A deleted broker info has triggered, or will trigger, another reconcile.
InfoFor(spec) ==
    IF api["info"].exists
    THEN api["info"].data.range = spec.range /\ api["info"].data.size = spec.size
    ELSE queued = TRUE \/ cache["info"].rev # api["info"].rev

DoneFor(spec) == BrokerFor(spec) /\ LedgerFor(spec) /\ InfoFor(spec)

\* Each broker info has a PSK of its own, so no reconcile finds it as wanted.
FreshPSK ==
    /\ api["info"].exists => api["info"].data.psk < api["info"].rev
    /\ cache["info"].exists => cache["info"].data.psk < cache["info"].rev

\* The objects a reconcile has still to write are in the caches.
CachesReady ==
    /\ pc \in {"accounts", "token", "operator", "broker"} =>
          cache["broker"].rev = api["broker"].rev
    /\ Deploying /\ pc # "info" => cache["ledger"].rev = api["ledger"].rev

DoneSoFar ==
    /\ pc \in {"check", "ledger", "info"} => BrokerFor(instance.data.spec)
    /\ pc = "info" => LedgerFor(instance.data.spec)
    /\ pc = "status" /\ failed = FALSE => DoneFor(instance.data.spec)
    /\ pc = "idle" /\ queued = FALSE => DoneFor(cache["fabric"].data.spec)

PhaseTold ==
    /\ pc = "idle" /\ queued = FALSE /\ cache["fabric"].rev = api["fabric"].rev
    /\ "status" \notin FailingSteps
    => api["fabric"].data.phase = "Running"

SettleInv == FreshPSK /\ CachesReady /\ InstanceLatest /\ DoneSoFar /\ PhaseTold

LEMMA SettleInit == Init => SettleInv
  <1> SUFFICES ASSUME Init PROVE SettleInv
    OBVIOUS
  <1>1. ~ api["info"].exists /\ cache = api
    BY DEF Init, NoObject, Kinds
  <1> QED
    BY <1>1 DEF Init, SettleInv, FreshPSK, CachesReady, Deploying, InstanceLatest, DoneSoFar, PhaseTold

\* A step that writes nothing and leaves the worker where it was, or moves it
\* to the next request, or to the end with an error.
LEMMA SettleQuiet ==
    ASSUME SettleInv, UNCHANGED <<api, cache, instance, queued>>,
           \/ UNCHANGED <<pc, failed>>
           \/ pc # "idle" /\ pc' = "status" /\ failed' = TRUE
           \/ pc = "accounts" /\ pc' = "token"
           \/ pc = "token" /\ pc' = "operator"
           \/ pc = "operator" /\ pc' = "broker"
           \/ pc = "check" /\ pc' = "ledger"
    PROVE  SettleInv'
  BY DEF SettleInv, FreshPSK, CachesReady, Deploying, InstanceLatest, DoneSoFar, DoneFor,
         BrokerFor, LedgerFor, InfoFor, PhaseTold

LEMMA SettleNext ==
    ASSUME KeepingUp, IInv, SettleInv, [Next]_vars
    PROVE  SettleInv'
  <1>0. "fabric" \in Kinds /\ "broker" \in Kinds /\ "ledger" \in Kinds /\ "info" \in Kinds
    BY DEF Kinds
  <1>a. Objs /\ WorkerOK /\ clock \in Nat
    BY DEF IInv, Objs, ObjectsOK
  <1>b. \A k \in Kinds : /\ api[k].rev \in Nat /\ cache[k].rev \in Nat
                         /\ cache[k].rev <= api[k].rev /\ api[k].rev <= clock
                         /\ cache[k].rev = api[k].rev => cache[k] = api[k]
    BY <1>a DEF Objs, ObjectsOK, Behind, IsObject
  <1>1. CASE UNCHANGED vars \/ AtRest
    <2>1. UNCHANGED <<api, cache, instance, queued, pc, failed>>
      BY <1>1 DEF vars, serverVars, workerVars, AtRest
    <2> QED BY <2>1, SettleQuiet
  <1>2. CASE EnsureAccounts
    <2>1. pc = "accounts" /\ GoOn("token") /\ UNCHANGED <<api, cache, instance, queued>>
      BY <1>2 DEF EnsureAccounts
    <2> QED BY <2>1, <1>a, GoesOn, SettleQuiet
  <1>3. CASE WaitForClientToken
    <2>1. pc = "token" /\ GoOn("operator") /\ UNCHANGED <<api, cache, instance, queued>>
      BY <1>3 DEF WaitForClientToken, serverVars
    <2> QED BY <2>1, <1>a, GoesOn, SettleQuiet
  <1>4. CASE WaitTimesOut \/ RequestFails
    <2>1. /\ pc # "idle" /\ pc' = "status" /\ failed' = TRUE
          /\ UNCHANGED <<api, cache, instance, queued>>
      BY <1>4 DEF WaitTimesOut, RequestFails, Reject, ReturnError, serverVars, Requests
    <2> QED BY <2>1, SettleQuiet
  <1>5. CASE EnsureOperator
    <2>1. pc = "operator" /\ GoOn("broker") /\ UNCHANGED <<api, cache, instance, queued>>
      BY <1>5 DEF EnsureOperator
    <2> QED BY <2>1, <1>a, GoesOn, SettleQuiet
  <1>6. CASE ValidateExistingGlobalNetworks
    <2>1. pc = "check" /\ UNCHANGED <<api, cache, instance, queued>>
      BY <1>6 DEF ValidateExistingGlobalNetworks, serverVars
    <2>2. pc' = "ledger" \/ (pc' = "status" /\ failed' = TRUE)
      <3>1. CASE GoOn("ledger")
        BY <3>1, <1>a, GoesOn
      <3>2. CASE Reject
        BY <3>2 DEF Reject, ReturnError
      <3> QED BY <1>6, <3>1, <3>2 DEF ValidateExistingGlobalNetworks
    <2> QED BY <2>1, <2>2, SettleQuiet
  <1>7. CASE AttachToken
    <2>1. UNCHANGED <<api, cache, instance, queued, pc, failed>>
      BY <1>7 DEF AttachToken, workerVars
    <2> QED BY <2>1, SettleQuiet
  <1>8. CASE Reconcile
    <2> DEFINE spec == cache["fabric"].data.spec
    <2>1. /\ UNCHANGED <<api, cache>> /\ queued' = FALSE /\ instance' = cache["fabric"]
          /\ \A k \in Written : cache[k].rev = api[k].rev
      BY <1>8 DEF Reconcile, serverVars, KeepingUp
    <2>2. /\ pc' = IF IsValidGlobalnetConfig(spec) THEN "accounts" ELSE "status"
          /\ failed' = (spec.enabled /\ ClusterSizeFails(spec.range, spec.size))
      BY <1>8, <2>1 DEF Reconcile
    <2>3. spec \in BrokerConfigs
      BY <1>a, <1>0 DEF Objs, ObjectsOK, IsObject, DataOf, FabricData
    <2>4. pc' = "accounts" \/ (pc' = "status" /\ failed' = TRUE)
      BY <2>2, <2>3 DEF KeepingUp, NoneIgnored
    <2> QED
      BY <2>1, <2>4 DEF SettleInv, FreshPSK, CachesReady, Deploying, InstanceLatest, DoneSoFar,
         PhaseTold, Written, Kinds
  <1>9. CASE EnsureBroker
    <2> DEFINE spec == instance.data.spec
               next == IF spec.enabled THEN "check" ELSE "ledger"
    <2>1. /\ pc = "broker" /\ CreateOrUpdate("broker", spec, next)
          /\ UNCHANGED <<cache, instance, queued>>
      BY <1>9 DEF EnsureBroker, CreateOrUpdate
    <2>2. spec \in DataOf("broker") /\ next \in {"check", "ledger"}
      BY <2>1, <1>a, InstanceType, DataTypes
    <2>3. /\ \A j \in Kinds \ {"broker"} : api'[j] = api[j]
          /\ pc' = next \/ (pc' = "status" /\ failed' = TRUE)
          /\ \/ pc' = "status" /\ failed' = TRUE
             \/ UNCHANGED <<api, clock>> /\ AsWanted("broker", spec)
             \/ api'["broker"] = Object(clock + 1, spec)
      <3> HIDE DEF next, spec
      <3> QED BY <2>1, <2>2, <1>a, <1>0, CreatedOrUpdated
    <2>4. (pc' = "status" /\ failed' = TRUE) \/ BrokerFor(spec)'
      <3>1. CASE UNCHANGED <<api, clock>> /\ AsWanted("broker", spec)
        <4>1. cache["broker"] = api["broker"]
          BY <2>1, <1>b, <1>0 DEF SettleInv, CachesReady
        <4> QED BY <3>1, <4>1, <2>1 DEF AsWanted, BrokerFor
      <3>2. CASE api'["broker"] = Object(clock + 1, spec)
        BY <3>2, <2>1 DEF Object, BrokerFor
      <3> QED BY <2>3, <3>1, <3>2
    <2> HIDE DEF next
    <2> QED
      BY <2>1, <2>2, <2>3, <2>4, <1>0 DEF SettleInv, FreshPSK, CachesReady, Deploying,
         InstanceLatest, DoneSoFar, PhaseTold
  <1>10. CASE CreateGlobalnetConfigMap
    <2> DEFINE spec == instance.data.spec
               data == ConfigMapData(spec, <<>>)
    <2>1. /\ pc = "ledger" /\ pc' = "info" /\ UNCHANGED <<cache, instance, failed, queued>>
          /\ \/ Store("ledger", data)
             \/ UNCHANGED api /\ (AsWanted("ledger", data) \/ ~ Accepted("ledger"))
             \/ UNCHANGED api /\ "ledger" \in FailingSteps
      BY <1>10 DEF CreateGlobalnetConfigMap, MayFail
    <2>2. data \in DataOf("ledger")
      BY <2>1, <1>a, InstanceType, DataTypes
    <2>3. /\ \A j \in Kinds \ {"ledger"} : api'[j] = api[j]
          /\ api' = api \/ api'["ledger"] = Object(clock + 1, data)
      <3> HIDE DEF data
      <3> QED BY <2>1, <2>2, <1>a, <1>0, Stored
    <2>4. LedgerFor(spec)'
      <3>1. cache["ledger"] = api["ledger"]
        BY <2>1, <1>b, <1>0 DEF SettleInv, CachesReady, Deploying
      <3>2. CASE Store("ledger", data)
        <4>1. api'["ledger"] = Object(clock + 1, data)
          <5> HIDE DEF data
          <5> QED BY <3>2, <2>1, <2>2, <1>a, <1>0, Stored
        <4> QED BY <4>1, <2>1 DEF Object, LedgerFor
      <3>3. CASE UNCHANGED api /\ (AsWanted("ledger", data) \/ ~ Accepted("ledger"))
        BY <3>1, <3>3, <2>1 DEF AsWanted, Accepted, LedgerFor
      <3>4. CASE "ledger" \in FailingSteps
        BY <3>4 DEF LedgerFor
      <3> QED BY <2>1, <3>2, <3>3, <3>4
    <2>5. BrokerFor(spec)'
      BY <2>1, <2>3, <1>0 DEF SettleInv, DoneSoFar, BrokerFor
    <2> QED
      BY <2>1, <2>3, <2>4, <2>5, <1>0 DEF SettleInv, FreshPSK, CachesReady, Deploying,
         InstanceLatest, DoneSoFar, PhaseTold
  <1>11. CASE CreateBrokerInfoConfigMap
    <2> DEFINE spec == instance.data.spec
               data == BrokerInfoData(spec)
    <2>1. /\ pc = "info" /\ CreateOrUpdate("info", data, "status")
          /\ UNCHANGED <<cache, instance, queued>>
      BY <1>11 DEF CreateBrokerInfoConfigMap, CreateOrUpdate
    <2>2. data \in DataOf("info")
      BY <2>1, <1>a, InstanceType, DataTypes
    <2>3. ~ AsWanted("info", data)
      <3>1. data.psk = clock
        BY DEF BrokerInfoData
      <3>2. cache["info"].exists => cache["info"].data.psk < cache["info"].rev
        BY DEF SettleInv, FreshPSK
      <3>3. cache["info"].exists => cache["info"].data.psk \in Nat
        BY <1>a, <1>0 DEF Objs, ObjectsOK, IsObject, DataOf, InfoData
      <3>4. cache["info"].rev \in Nat /\ cache["info"].rev <= clock
        BY <1>a, <1>b, <1>0
      <3> HIDE DEF data
      <3> QED BY <3>1, <3>2, <3>3, <3>4, <1>a DEF AsWanted
    <2>4. /\ \A j \in Kinds \ {"info"} : api'[j] = api[j]
          /\ pc' = "status"
          /\ \/ UNCHANGED api /\ failed' = TRUE
             \/ api'["info"] = Object(clock + 1, data)
      <3> HIDE DEF data
      <3> QED BY <2>1, <2>2, <2>3, <1>a, <1>0, CreatedOrUpdated
    <2>5. (UNCHANGED api /\ failed' = TRUE) \/ (InfoFor(spec)' /\ FreshPSK')
      <3>1. CASE api'["info"] = Object(clock + 1, data)
        BY <3>1, <2>1, <1>a DEF Object, InfoFor, BrokerInfoData, SettleInv, FreshPSK
      <3> QED BY <2>4, <3>1
    <2>6. FreshPSK'
      BY <2>5, <2>1 DEF SettleInv, FreshPSK
    <2>7. BrokerFor(spec)' /\ LedgerFor(spec)'
      BY <2>1, <2>4, <1>0 DEF SettleInv, DoneSoFar, BrokerFor, LedgerFor
    <2> QED
      BY <2>1, <2>4, <2>5, <2>6, <2>7, <1>0 DEF SettleInv, CachesReady, Deploying,
         InstanceLatest, DoneSoFar, DoneFor, PhaseTold
  <1>12. CASE Finish
    <2>1. /\ pc = "status" /\ StatusUpdate /\ pc' = "idle" /\ failed' = FALSE
          /\ queued' = (queued \/ failed) /\ UNCHANGED cache
      BY <1>12 DEF Finish, Return
    <2>2. queued \in BOOLEAN /\ failed \in BOOLEAN
      BY <1>a DEF WorkerOK
    <2>3. queued' = FALSE => queued = FALSE /\ failed = FALSE /\ instance = cache["fabric"]
      BY <2>1, <2>2 DEF SettleInv, InstanceLatest
    <2>4. /\ \A j \in Kinds \ {"fabric"} : api'[j] = api[j]
          /\ \/ UNCHANGED api
             \/ api'["fabric"].rev = clock + 1
      BY <2>1, <1>a, <1>0 DEF StatusUpdate, Store, Object, Objs, ObjectsOK
    <2>5. FreshPSK' /\ CachesReady' /\ InstanceLatest'
      BY <2>1, <2>4, <1>0 DEF SettleInv, FreshPSK, CachesReady, Deploying, InstanceLatest
    <2>6. DoneSoFar'
      <3>1. ASSUME queued' = FALSE
            PROVE  DoneFor(cache["fabric"].data.spec)'
        <4>1. DoneFor(cache["fabric"].data.spec)
          BY <3>1, <2>1, <2>3 DEF SettleInv, DoneSoFar
        <4> QED
          BY <3>1, <4>1, <2>1, <2>3, <2>4, <1>0 DEF DoneFor, BrokerFor, LedgerFor, InfoFor
      <3> QED BY <2>1, <3>1 DEF DoneSoFar
    <2>7. PhaseTold'
      <3> SUFFICES ASSUME queued' = FALSE, cache["fabric"].rev = api'["fabric"].rev,
                          "status" \notin FailingSteps
                   PROVE  api'["fabric"].data.phase = "Running"
        BY <2>1 DEF PhaseTold
      <3>1. UNCHANGED api
        BY <2>4, <1>a, <1>b, <1>0
      <3>2. cache["fabric"] = api["fabric"] /\ instance = api["fabric"]
        BY <3>1, <2>3, <1>b, <1>0
      <3>3. CASE instance.data.phase = "Running"
        BY <3>1, <3>2, <3>3
      <3>4. CASE instance.data.phase # "Running"
        <4>1. Phase = "Running"
          BY <2>3 DEF Phase
        <4>2. Store("fabric", [api["fabric"].data EXCEPT !.phase = Phase])
          BY <4>1, <3>2, <3>4, <2>1 DEF StatusUpdate, MayFail
        <4>3. api'["fabric"].rev = clock + 1
          BY <4>2, <1>a, <1>0 DEF Store, Object, Objs, ObjectsOK
        <4> QED BY <4>3, <3>1, <1>a, <1>b, <1>0
      <3> QED BY <3>3, <3>4
    <2> QED BY <2>5, <2>6, <2>7 DEF SettleInv
  <1>13. ASSUME NEW k \in Kinds, Deliver(k)
         PROVE  SettleInv'
    <2>1. /\ cache' = [cache EXCEPT ![k] = api[k]] /\ queued' = (queued \/ Triggers(k))
          /\ UNCHANGED <<api, pc, instance, failed>>
      BY <1>13 DEF Deliver, serverVars, workerVars
    <2>2. /\ cache'[k] = api[k] /\ \A j \in Kinds \ {k} : cache'[j] = cache[j]
          /\ queued \in BOOLEAN
      BY <2>1, <1>a DEF Objs, ObjectsOK, WorkerOK
    <2>3. queued' = FALSE => queued = FALSE /\ k # "fabric" /\ (k = "info" => api["info"].exists)
      BY <2>1, <2>2 DEF Triggers
    <2>4. cache'["fabric"] = cache["fabric"] \/ queued' = TRUE
      BY <2>1, <2>2, <1>0 DEF Triggers
    <2>5. FreshPSK' /\ CachesReady'
      BY <2>1, <2>2, <1>0 DEF SettleInv, FreshPSK, CachesReady, Deploying
    <2>6. InstanceLatest' /\ PhaseTold'
      BY <2>1, <2>3, <2>4 DEF SettleInv, InstanceLatest, PhaseTold
    <2>7. queued = TRUE => queued' = TRUE
      BY <2>1
    <2>8. \A spec : DoneFor(spec) => DoneFor(spec)'
      <3>1. \A spec : InfoFor(spec) => InfoFor(spec)'
        <4>1. k = "info" /\ ~ api["info"].exists => queued' = TRUE
          BY <2>1 DEF Triggers
        <4> QED BY <4>1, <2>1, <2>2, <2>7, <1>0 DEF InfoFor
      <3> QED BY <3>1, <2>1 DEF DoneFor, BrokerFor, LedgerFor
    <2>9. DoneSoFar'
      BY <2>1, <2>3, <2>4, <2>8 DEF SettleInv, DoneSoFar, BrokerFor, LedgerFor
    <2> QED BY <2>5, <2>6, <2>9 DEF SettleInv
  <1>14. CASE Restart
    <2>1. pc' = "idle" /\ queued' = TRUE /\ cache' = api /\ UNCHANGED api
      BY <1>14 DEF Restart, Return, serverVars
    <2> QED
      BY <2>1 DEF SettleInv, FreshPSK, CachesReady, Deploying, InstanceLatest, DoneSoFar, PhaseTold
  <1>15. CASE DeleteInfo
    <2>1. /\ api' = [api EXCEPT !["info"] = NoObject(clock + 1)]
          /\ UNCHANGED <<cache, pc, instance, failed, queued>>
      BY <1>15 DEF DeleteInfo, workerVars
    <2>2. /\ ~ api'["info"].exists /\ api'["info"].rev = clock + 1
          /\ \A j \in Kinds \ {"info"} : api'[j] = api[j]
      BY <2>1, <1>a, <1>0 DEF Objs, ObjectsOK, NoObject
    <2>3. cache'["info"].rev # api'["info"].rev
      BY <2>1, <2>2, <1>a, <1>b, <1>0
    <2>4. \A spec : DoneFor(spec) => DoneFor(spec)'
      BY <2>1, <2>2, <2>3, <1>0 DEF DoneFor, BrokerFor, LedgerFor, InfoFor
    <2> QED
      BY <2>1, <2>2, <2>4, <1>0 DEF SettleInv, FreshPSK, CachesReady, Deploying,
         InstanceLatest, DoneSoFar, PhaseTold, BrokerFor, LedgerFor
  <1>16. ASSUME NEW config \in BrokerConfigs, EditSpec(config)
         PROVE  SettleInv'
    <2>1. /\ Store("fabric", [api["fabric"].data EXCEPT !.spec = config])
          /\ UNCHANGED <<cache, pc, instance, failed, queued>>
      BY <1>16 DEF EditSpec, workerVars
    <2>2. /\ api'["fabric"].rev = clock + 1
          /\ \A j \in Kinds \ {"fabric"} : api'[j] = api[j]
      BY <2>1, <1>a, <1>0 DEF Store, Object, Objs, ObjectsOK
    <2>3. cache'["fabric"].rev # api'["fabric"].rev
      BY <2>1, <2>2, <1>a, <1>b, <1>0
    <2>4. \A spec : DoneFor(spec) => DoneFor(spec)'
      BY <2>1, <2>2, <1>0 DEF DoneFor, BrokerFor, LedgerFor, InfoFor
    <2> QED
      BY <2>1, <2>2, <2>3, <2>4, <1>0 DEF SettleInv, FreshPSK, CachesReady, Deploying,
         InstanceLatest, DoneSoFar, PhaseTold, BrokerFor, LedgerFor
  <1> QED
    BY <1>1, <1>2, <1>3, <1>4, <1>5, <1>6, <1>7, <1>8, <1>9, <1>10, <1>11, <1>12,
       <1>13, <1>14, <1>15, <1>16 DEF Next, Work

\* What the three theorems below rest on.
THEOREM SettleInvariance == ASSUME KeepingUp PROVE Spec => []SettleInv
  <1>1. IInv /\ SettleInv /\ [Next]_vars => SettleInv'
    BY SettleNext
  <1> QED BY <1>1, SettleInit, Invariance, PTL DEF Spec

\* At rest, the Fabric object is the one the last reconcile has read.
LEMMA QuietLatest ==
    ASSUME IInv, SettleInv, Quiet
    PROVE  /\ cache["fabric"] = api["fabric"]
           /\ DoneFor(Wanted)
           /\ api["info"].exists
  <1>0. "fabric" \in Kinds /\ "info" \in Kinds
    BY DEF Kinds
  <1>1. pc = "idle" /\ queued = FALSE
    BY DEF Quiet, IInv, WorkerOK
  <1>2. cache["fabric"] = api["fabric"]
    BY <1>0 DEF Quiet, Triggers, IInv, Objs, ObjectsOK, Behind
  <1>3. DoneFor(Wanted)
    BY <1>1, <1>2 DEF SettleInv, DoneSoFar, Wanted
  <1>4. api["info"].exists
    <2>1. ~ api["info"].exists => cache["info"].rev = api["info"].rev
      BY <1>0 DEF Quiet, Triggers
    <2> QED BY <1>1, <1>3, <2>1 DEF DoneFor, InfoFor
  <1> QED BY <1>2, <1>3, <1>4

\* At rest, the Broker CR and the broker info are those of the latest
\* configuration (deploy_broker.go:59-81, fabric_controller.go:57-62).
THEOREM BrokerSettled == ASSUME KeepingUp PROVE Spec => []Settled
  <1>1. IInv /\ SettleInv => Settled
    BY QuietLatest DEF Settled, DoneFor, BrokerFor, InfoFor
  <1> QED BY <1>1, Invariance, SettleInvariance, PTL

\* So is the globalnet ConfigMap, provided that no request to write it fails
\* (deploy_broker.go:72-76).
THEOREM GlobalnetSettled ==
    ASSUME KeepingUp, "ledger" \notin FailingSteps
    PROVE  Spec => []LedgerSettled
  <1>1. IInv /\ SettleInv => LedgerSettled
    BY QuietLatest DEF LedgerSettled, DoneFor, LedgerFor
  <1> QED BY <1>1, Invariance, SettleInvariance, PTL

\* The Fabric object says that it runs, provided that no status update is lost
\* (fabric_controller.go:79-91).
THEOREM StatusSettled ==
    ASSUME KeepingUp, "status" \notin FailingSteps
    PROVE  Spec => []PhaseSettled
  <1>1. IInv /\ SettleInv => PhaseSettled
    <2> SUFFICES ASSUME IInv, SettleInv, Quiet
                 PROVE  api["fabric"].data.phase = "Running"
      BY DEF PhaseSettled
    <2>1. pc = "idle" /\ queued = FALSE /\ cache["fabric"] = api["fabric"]
      BY QuietLatest DEF Quiet, IInv, WorkerOK
    <2> QED BY <2>1 DEF SettleInv, PhaseTold
  <1> QED BY <1>1, Invariance, SettleInvariance, PTL

=============================================================================
