------------------------ MODULE GlobalnetJoin_proofs ------------------------
(***************************************************************************)
(* The CIDRs recorded on the broker never overlap and implement the ledger *)
(* of grants, for any number of clusters, deployments, failures and        *)
(* retries.                                                                *)
(*                                                                         *)
(* A conflict-free ledger is not inductive by itself: the CIDR of a        *)
(* pending update was chosen from a copy of the ConfigMap.  What carries   *)
(* the proof is that an accepted copy is the current ConfigMap (CopyFresh) *)
(* and that the chosen CIDR fits that copy (ChoiceFits).                   *)
(***************************************************************************)
EXTENDS GlobalnetJoin, GlobalCIDR_proofs

Pending(c) == pc[c] = "update"

\* A copy with the current resourceVersion is the current ConfigMap.
CopyFresh ==
    \A c \in Clusters :
        Pending(c) => /\ copy[c].rev <= rev
                      /\ copy[c].rev = rev => copy[c].map = configMap

\* The CIDR about to be recorded overlaps with no other entry of the copy.
ChoiceFits ==
    \A c \in Clusters :
        Pending(c) => /\ copy[c].map.clusters[c] = NoBlock
                      /\ cidr[c] \in Block
                      /\ \A d \in Clusters \ {c} :
                            Disjoint(copy[c].map.clusters[d], cidr[c])

IInv == TypeOK /\ CopyFresh /\ ChoiceFits /\ LedgerDisjoint

-----------------------------------------------------------------------------
LEMMA DisjointFacts ==
    /\ \A b : Disjoint(NoBlock, b) /\ Disjoint(b, NoBlock)
    /\ \A a, b : Disjoint(a, b) => Disjoint(b, a)
  <1>1. Addresses(NoBlock) = {}
    BY DEF Addresses, NoBlock, LastIP
  <1> QED BY <1>1 DEF Disjoint

LEMMA EmptyFacts ==
    /\ EmptyLedger \in [Clusters -> Block \cup {NoBlock}]
    /\ NoConfigMap \in GlobalnetConfigMap
    /\ NoCopy \in [rev : Nat, map : GlobalnetConfigMap]
    /\ \A c \in Clusters : EmptyLedger[c] = NoBlock
  <1>1. EmptyLedger \in [Clusters -> Block \cup {NoBlock}]
    BY DEF EmptyLedger
  <1>2. NoConfigMap \in GlobalnetConfigMap
    BY <1>1 DEF NoConfigMap, NoConfigMapData, GlobalnetConfigMap
  <1> QED BY <1>1, <1>2 DEF NoCopy, EmptyLedger

\* What an allocation returns is a block that fits the recorded ones.
LEMMA AllocationFits ==
    ASSUME NEW range, NEW recorded, NEW n,
           NEW b \in AllocateGlobalCIDR(range, recorded, n)
    PROVE  b \in Block /\ Within(b, range) /\ \A a \in recorded : Disjoint(a, b)
  BY DEF AllocateGlobalCIDR, FirstFree, FreeBlocks

\* A cluster without a recorded CIDR is assigned one that fits the others'.
LEMMA AssignmentFits ==
    ASSUME TypeOK, NEW c \in Clusters, configMap.clusters[c] = NoBlock,
           NEW b \in AssignGlobalnetIPs(c)
    PROVE  /\ b \in Block
           /\ \A d \in Clusters \ {c} : Disjoint(configMap.clusters[d], b)
  <1>1. SUFFICES b \in Block /\ \A o \in Others(c) \ {NoBlock} : Disjoint(o, b)
    BY DisjointFacts DEF Others
  <1>2. Others(c) \ {NoBlock} \subseteq Block
    BY DEF TypeOK, GlobalnetConfigMap, Others
  <1>3. CASE cidr[c] # NoBlock
    <2>1. b = cidr[c] /\ CheckOverlappingCidrs(c)
      BY <1>3 DEF AssignGlobalnetIPs
    <2>2. b \in Block
      BY <1>3, <2>1 DEF TypeOK
    <2> QED BY <1>2, <2>1, <2>2, OverlappingIsSharing DEF CheckOverlappingCidrs
  <1>4. CASE cidr[c] = NoBlock
    <2>1. b \in AllocateGlobalCIDR(configMap.range, Others(c) \ {NoBlock}, ValidatedSize(c))
      BY <1>4 DEF AssignGlobalnetIPs
    <2> QED BY <2>1, AllocationFits
  <1> QED BY <1>3, <1>4

LEMMA Init_IInv ==
    ASSUME Init
    PROVE  IInv
  <1>1. TypeOK
    BY EmptyFacts, ConstantsAssumption DEF Init, TypeOK, Nothing
  <1>2. CopyFresh /\ ChoiceFits
    BY DEF Init, CopyFresh, ChoiceFits, Pending
  <1>3. LedgerDisjoint
    BY EmptyFacts, DisjointFacts DEF Init, LedgerDisjoint, NoConfigMap, NoConfigMapData
  <1> QED BY <1>1, <1>2, <1>3 DEF IInv

\* A cluster whose reconcile returns has no pending update.
LEMMA Return_Keeps ==
    ASSUME IInv, NEW c \in Clusters, Return(c),
           UNCHANGED <<configMap, rev, info>>, deploys' \in Nat, faults' \in Nat,
           applied' \in [Clusters -> [kind : {"none", "submariner", "serviceDiscovery"},
                                      cidr : Block \cup {NoBlock}]]
    PROVE  IInv'
  <1>1. /\ pc' = [pc EXCEPT ![c] = "idle"] /\ copy' = [copy EXCEPT ![c] = NoCopy]
        /\ cidr' = [cidr EXCEPT ![c] = NoBlock] /\ tries' = [tries EXCEPT ![c] = 0]
    BY DEF Return
  <1>2. TypeOK'
    BY <1>1, EmptyFacts, ConstantsAssumption DEF IInv, TypeOK
  <1>3. \A d \in Clusters :
            Pending(d)' => Pending(d) /\ copy'[d] = copy[d] /\ cidr'[d] = cidr[d]
    BY <1>1 DEF IInv, TypeOK, Pending
  <1>4. CopyFresh' /\ ChoiceFits'
    BY <1>3 DEF IInv, CopyFresh, ChoiceFits
  <1>5. LedgerDisjoint'
    BY DEF IInv, LedgerDisjoint
  <1> QED BY <1>2, <1>4, <1>5 DEF IInv

-----------------------------------------------------------------------------
\* One lemma per kind of step.

LEMMA DeployBroker_Step ==
    ASSUME IInv, NEW config \in BrokerConfigs, DeployBroker(config)
    PROVE  IInv' /\ Grants!Reset
  <1>1. /\ deploys' = deploys + 1
        /\ configMap' = GeneralGlobalnetConfigMap(config)
        /\ rev' = IF configMap' = configMap THEN rev ELSE rev + 1
        /\ UNCHANGED <<faults, info, pc, copy, cidr, tries, applied>>
    BY DEF DeployBroker, clusterVars
  <1>2. configMap' \in GlobalnetConfigMap /\ configMap'.clusters = EmptyLedger
    BY <1>1, EmptyFacts, ConstantsAssumption
       DEF GeneralGlobalnetConfigMap, ConfigMapData, GlobalnetConfigMap, BrokerConfig
  <1>3. TypeOK'
    BY <1>1, <1>2 DEF IInv, TypeOK
  <1>4. CopyFresh'
    BY <1>1 DEF IInv, TypeOK, CopyFresh, Pending
  <1>5. ChoiceFits'
    BY <1>1 DEF IInv, ChoiceFits, Pending
  <1>6. LedgerDisjoint'
    BY <1>2, EmptyFacts, DisjointFacts DEF LedgerDisjoint
  <1> QED BY <1>2, <1>3, <1>4, <1>5, <1>6 DEF IInv, Grants!Reset, Grants!Empty, Grants!NoBlock,
             EmptyLedger, NoBlock

LEMMA StartJoin_Step ==
    ASSUME IInv, NEW c \in Clusters, StartJoin(c)
    PROVE  IInv' /\ UNCHANGED configMap
  <1>1. /\ pc[c] = "idle"
        /\ pc' = [pc EXCEPT ![c] = IF "globalnet" \in info[c].components
                                   THEN "read" ELSE "deploy"]
        /\ cidr' = [cidr EXCEPT ![c] = info[c].range]
        /\ UNCHANGED <<configMap, rev, deploys, faults, info, copy, tries, applied>>
    BY DEF StartJoin, brokerVars
  <1>2. info[c].range \in Block \cup {NoBlock}
    BY ConstantsAssumption DEF IInv, TypeOK, BrokerInfo
  <1>3. TypeOK'
    BY <1>1, <1>2 DEF IInv, TypeOK
  <1>4. \A d \in Clusters :
            Pending(d)' => Pending(d) /\ copy'[d] = copy[d] /\ cidr'[d] = cidr[d]
    BY <1>1 DEF IInv, TypeOK, Pending
  <1>5. CopyFresh' /\ ChoiceFits'
    BY <1>1, <1>4 DEF IInv, CopyFresh, ChoiceFits
  <1>6. LedgerDisjoint'
    BY <1>1 DEF IInv, LedgerDisjoint
  <1> QED BY <1>1, <1>3, <1>5, <1>6 DEF IInv

\* A read that leads straight to the deployment.
LEMMA ReadDone_Step ==
    ASSUME IInv, NEW c \in Clusters, ReadDisabled(c) \/ ReadRecorded(c)
    PROVE  IInv' /\ UNCHANGED configMap
  <1>1. PICK b \in Block \cup {NoBlock} :
           /\ pc' = [pc EXCEPT ![c] = "deploy"]
           /\ cidr' = [cidr EXCEPT ![c] = b]
           /\ UNCHANGED <<configMap, rev, deploys, faults, info, copy, tries, applied>>
    <2>1. CASE ReadDisabled(c)
      BY <2>1 DEF ReadDisabled, brokerVars
    <2>2. CASE ReadRecorded(c)
      <3>1. configMap.clusters[c] \in Block \cup {NoBlock}
        BY DEF IInv, TypeOK, GlobalnetConfigMap
      <3>2. AssignGlobalnetIPs(c) = {configMap.clusters[c]}
        BY <2>2 DEF ReadRecorded, AssignGlobalnetIPs
      <3> QED BY <2>2, <3>1, <3>2 DEF ReadRecorded, brokerVars
    <2> QED BY <2>1, <2>2
  <1>2. TypeOK'
    BY <1>1 DEF IInv, TypeOK
  <1>3. \A d \in Clusters :
            Pending(d)' => Pending(d) /\ copy'[d] = copy[d] /\ cidr'[d] = cidr[d]
    BY <1>1 DEF IInv, TypeOK, Pending
  <1>4. CopyFresh' /\ ChoiceFits'
    BY <1>1, <1>3 DEF IInv, CopyFresh, ChoiceFits
  <1>5. LedgerDisjoint'
    BY <1>1 DEF IInv, LedgerDisjoint
  <1> QED BY <1>1, <1>2, <1>4, <1>5 DEF IInv

LEMMA ReadAssigns_Step ==
    ASSUME IInv, NEW c \in Clusters, ReadAssigns(c)
    PROVE  IInv' /\ UNCHANGED configMap
  <1>1. PICK b \in AssignGlobalnetIPs(c) :
           /\ cidr' = [cidr EXCEPT ![c] = b]
           /\ copy' = [copy EXCEPT ![c] = [rev |-> rev, map |-> configMap]]
           /\ pc' = [pc EXCEPT ![c] = "update"]
           /\ UNCHANGED <<configMap, rev, deploys, faults, info, tries, applied>>
    BY DEF ReadAssigns, brokerVars
  <1>2. configMap.clusters[c] = NoBlock
    BY DEF ReadAssigns
  <1>3. b \in Block /\ \A d \in Clusters \ {c} : Disjoint(configMap.clusters[d], b)
    BY <1>2, AssignmentFits DEF IInv
  <1>4. TypeOK'
    BY <1>1, <1>3 DEF IInv, TypeOK
  <1>5. /\ copy'[c] = [rev |-> rev, map |-> configMap] /\ cidr'[c] = b
        /\ rev \in Nat
        /\ \A d \in Clusters \ {c} :
              /\ Pending(d)' <=> Pending(d)
              /\ copy'[d] = copy[d] /\ cidr'[d] = cidr[d]
    BY <1>1 DEF IInv, TypeOK, Pending
  <1>6. CopyFresh'
    <2>1. SUFFICES ASSUME NEW d \in Clusters, Pending(d)'
                   PROVE  copy'[d].rev <= rev' /\ (copy'[d].rev = rev' => copy'[d].map = configMap')
      BY DEF CopyFresh
    <2>2. CASE d = c
      BY <1>1, <1>5, <2>2
    <2>3. CASE d # c
      BY <1>1, <1>5, <2>1, <2>3 DEF IInv, CopyFresh
    <2> QED BY <2>2, <2>3
  <1>7. ChoiceFits'
    <2>1. SUFFICES ASSUME NEW d \in Clusters, Pending(d)'
                   PROVE  /\ copy'[d].map.clusters[d] = NoBlock
                          /\ cidr'[d] \in Block
                          /\ \A e \in Clusters \ {d} :
                                Disjoint(copy'[d].map.clusters[e], cidr'[d])
      BY DEF ChoiceFits
    <2>2. CASE d = c
      BY <1>2, <1>3, <1>5, <2>2
    <2>3. CASE d # c
      BY <1>5, <2>1, <2>3 DEF IInv, ChoiceFits
    <2> QED BY <2>2, <2>3
  <1>8. LedgerDisjoint'
    BY <1>1 DEF IInv, LedgerDisjoint
  <1> QED BY <1>1, <1>4, <1>6, <1>7, <1>8 DEF IInv

\* An accepted update adds the cluster's grant to the current ledger.
LEMMA StoreEntry_Step ==
    ASSUME IInv, NEW c \in Clusters, pc[c] = "update", UpdateAccepted(c), StoreEntry(c)
    PROVE  /\ configMap' = [configMap EXCEPT !.clusters[c] = cidr[c]]
           /\ configMap' \in GlobalnetConfigMap
           /\ rev' = rev + 1 /\ rev \in Nat
           /\ LedgerDisjoint'
           /\ Grants!Grant(c, cidr[c]) /\ cidr[c] \in Block
           /\ \A d \in Clusters : Pending(d) => copy[d].rev < rev'
  <1>1. copy[c].map = configMap
    BY DEF IInv, CopyFresh, Pending, UpdateAccepted
  <1>2. configMap' = [configMap EXCEPT !.clusters[c] = cidr[c]] /\ rev' = rev + 1
    BY <1>1 DEF StoreEntry
  <1>3. /\ configMap.clusters[c] = NoBlock
        /\ cidr[c] \in Block
        /\ \A d \in Clusters \ {c} : Disjoint(configMap.clusters[d], cidr[c])
    BY <1>1 DEF IInv, ChoiceFits, Pending
  <1>4. configMap \in GlobalnetConfigMap /\ rev \in Nat
    BY DEF IInv, TypeOK
  <1>5. configMap'.clusters = [configMap.clusters EXCEPT ![c] = cidr[c]]
    BY <1>2, <1>4 DEF GlobalnetConfigMap
  <1>6. configMap' \in GlobalnetConfigMap
    BY <1>2, <1>3, <1>4 DEF GlobalnetConfigMap
  <1>7. configMap.clusters \in [Clusters -> Block \cup {NoBlock}]
    BY <1>4 DEF GlobalnetConfigMap
  <1>8. LedgerDisjoint'
    <2>1. SUFFICES ASSUME NEW d \in Clusters, NEW e \in Clusters, d # e
                   PROVE  Disjoint(configMap'.clusters[d], configMap'.clusters[e])
      BY DEF LedgerDisjoint
    <2>2. CASE d = c
      BY <1>3, <1>5, <1>7, <2>1, <2>2, DisjointFacts
    <2>3. CASE e = c
      BY <1>3, <1>5, <1>7, <2>1, <2>3
    <2>4. CASE d # c /\ e # c
      BY <1>5, <1>7, <2>1, <2>4 DEF IInv, LedgerDisjoint
    <2> QED BY <2>2, <2>3, <2>4
  <1>9. Grants!Grant(c, cidr[c])
    BY <1>3, <1>5 DEF Grants!Grant, Grants!Disjoint, Grants!NoBlock, Grants!Addresses,
       Grants!LastIP, Disjoint, NoBlock, Addresses, LastIP
  <1>10. \A d \in Clusters : Pending(d) => copy[d].rev < rev'
    BY <1>2, <1>4 DEF IInv, CopyFresh, TypeOK
  <1> QED BY <1>2, <1>3, <1>4, <1>6, <1>8, <1>9, <1>10

LEMMA Update_Step ==
    ASSUME IInv, NEW c \in Clusters, UpdateGlobalnetConfigMap(c) \/ UpdateAnswerLost(c)
    PROVE  IInv' /\ Grants!Grant(c, cidr[c]) /\ cidr[c] \in Block
  <1>1. pc[c] = "update" /\ UpdateAccepted(c) /\ StoreEntry(c)
    BY DEF UpdateGlobalnetConfigMap, UpdateAnswerLost
  <1>2. /\ configMap' \in GlobalnetConfigMap
        /\ rev' = rev + 1 /\ rev \in Nat
        /\ LedgerDisjoint'
        /\ Grants!Grant(c, cidr[c]) /\ cidr[c] \in Block
        /\ \A d \in Clusters : Pending(d) => copy[d].rev < rev'
    BY <1>1, StoreEntry_Step
  <1>3. /\ pc' \in [Clusters -> {"idle", "read", "update", "deploy"}]
        /\ ~ Pending(c)'
        /\ copy' \in [Clusters -> [rev : Nat, map : GlobalnetConfigMap]]
        /\ cidr' \in [Clusters -> Block \cup {NoBlock}]
        /\ tries' \in [Clusters -> 0 .. RetrySteps - 1]
        /\ faults' \in Nat /\ deploys' = deploys /\ info' = info /\ applied' = applied
        /\ \A d \in Clusters \ {c} :
              (Pending(d)' <=> Pending(d)) /\ copy'[d] = copy[d] /\ cidr'[d] = cidr[d]
    <2>1. CASE UpdateGlobalnetConfigMap(c)
      BY <2>1, EmptyFacts
         DEF UpdateGlobalnetConfigMap, StoreEntry, IInv, TypeOK, Pending
    <2>2. CASE UpdateAnswerLost(c)
      BY <2>2, EmptyFacts, ConstantsAssumption
         DEF UpdateAnswerLost, StoreEntry, Return, IInv, TypeOK, Pending
    <2> QED BY <2>1, <2>2
  <1>4. TypeOK'
    BY <1>2, <1>3 DEF IInv, TypeOK
  <1>5. CopyFresh'
    <2>1. SUFFICES ASSUME NEW d \in Clusters, Pending(d)'
                   PROVE  copy'[d].rev <= rev' /\ copy'[d].rev # rev'
      BY DEF CopyFresh
    <2>2. d # c /\ Pending(d) /\ copy'[d] = copy[d] /\ copy[d].rev < rev'
      BY <1>2, <1>3, <2>1
    <2>3. copy[d].rev \in Nat
      BY DEF IInv, TypeOK
    <2> QED BY <1>2, <2>2, <2>3
  <1>6. ChoiceFits'
    <2>1. SUFFICES ASSUME NEW d \in Clusters, Pending(d)'
                   PROVE  /\ copy'[d].map.clusters[d] = NoBlock
                          /\ cidr'[d] \in Block
                          /\ \A e \in Clusters \ {d} :
                                Disjoint(copy'[d].map.clusters[e], cidr'[d])
      BY DEF ChoiceFits
    <2>2. d # c /\ Pending(d) /\ copy'[d] = copy[d] /\ cidr'[d] = cidr[d]
      BY <1>3, <2>1
    <2> QED BY <2>2 DEF IInv, ChoiceFits
  <1> QED BY <1>2, <1>4, <1>5, <1>6 DEF IInv

LEMMA UpdateConflict_Step ==
    ASSUME IInv, NEW c \in Clusters, UpdateConflict(c)
    PROVE  IInv' /\ UNCHANGED configMap
  <1>1. UNCHANGED <<configMap, rev, deploys, faults, info, applied>>
    BY DEF UpdateConflict, brokerVars
  <1>2. CASE MayRetry(c)
    <2>1. /\ tries' = [tries EXCEPT ![c] = @ + 1]
          /\ pc' = [pc EXCEPT ![c] = "read"]
          /\ copy' = [copy EXCEPT ![c] = NoCopy]
          /\ UNCHANGED cidr
      BY <1>2 DEF UpdateConflict
    <2>2. tries' \in [Clusters -> 0 .. RetrySteps - 1]
      BY <1>2, <2>1, ConstantsAssumption DEF IInv, TypeOK, MayRetry
    <2>3. TypeOK'
      BY <1>1, <2>1, <2>2, EmptyFacts DEF IInv, TypeOK
    <2>4. \A d \in Clusters :
              Pending(d)' => Pending(d) /\ copy'[d] = copy[d] /\ cidr'[d] = cidr[d]
      BY <2>1 DEF IInv, TypeOK, Pending
    <2>5. CopyFresh' /\ ChoiceFits'
      BY <1>1, <2>4 DEF IInv, CopyFresh, ChoiceFits
    <2>6. LedgerDisjoint'
      BY <1>1 DEF IInv, LedgerDisjoint
    <2> QED BY <1>1, <2>3, <2>5, <2>6 DEF IInv
  <1>3. CASE ~ MayRetry(c)
    <2>1. Return(c)
      BY <1>3 DEF UpdateConflict
    <2> QED BY <1>1, <2>1, Return_Keeps DEF IInv, TypeOK
  <1> QED BY <1>2, <1>3

LEMMA Returning_Step ==
    ASSUME IInv, NEW c \in Clusters, ReadFails(c) \/ Deploy(c) \/ Fail(c)
    PROVE  IInv' /\ UNCHANGED configMap
  <1>1. Return(c) /\ UNCHANGED <<configMap, rev, deploys, info>>
    BY DEF ReadFails, Deploy, Fail, brokerVars
  <1>2. faults' \in Nat
    BY DEF ReadFails, Deploy, Fail, IInv, TypeOK
  <1>3. applied' \in [Clusters -> [kind : {"none", "submariner", "serviceDiscovery"},
                                   cidr : Block \cup {NoBlock}]]
    <2>1. CASE Deploy(c)
      <3>1. info[c].range \in Block \cup {NoBlock} /\ cidr[c] \in Block \cup {NoBlock}
        BY ConstantsAssumption DEF IInv, TypeOK, BrokerInfo
      <3> QED BY <2>1, <3>1 DEF Deploy, IInv, TypeOK
    <2>2. CASE ReadFails(c) \/ Fail(c)
      BY <2>2 DEF ReadFails, Fail, IInv, TypeOK
    <2> QED BY <2>1, <2>2
  <1> QED BY <1>1, <1>2, <1>3, Return_Keeps DEF IInv, TypeOK

\* Every step keeps the invariant, and is a step of the ledger or leaves it alone.
LEMMA Step_IInv ==
    ASSUME IInv, [Next]_vars
    PROVE  IInv' /\ [Grants!Next]_(configMap.clusters)
  <1>1. CASE UNCHANGED vars
    BY <1>1 DEF vars, brokerVars, clusterVars, IInv, TypeOK, CopyFresh, ChoiceFits,
                LedgerDisjoint, Pending
  <1>2. ASSUME NEW config \in BrokerConfigs, DeployBroker(config)
        PROVE  IInv' /\ Grants!Next
    BY <1>2, DeployBroker_Step DEF Grants!Next
  <1>3. ASSUME NEW c \in Clusters, StartJoin(c) \/ Proceed(c) \/ Fail(c) \/ UpdateAnswerLost(c)
        PROVE  IInv' /\ (UNCHANGED configMap \/ Grants!Next)
    <2>1. CASE StartJoin(c)
      BY <2>1, StartJoin_Step
    <2>2. CASE ReadDisabled(c) \/ ReadRecorded(c)
      BY <2>2, ReadDone_Step
    <2>3. CASE ReadAssigns(c)
      BY <2>3, ReadAssigns_Step
    <2>4. CASE UpdateGlobalnetConfigMap(c) \/ UpdateAnswerLost(c)
      <3>1. IInv' /\ Grants!Grant(c, cidr[c]) /\ cidr[c] \in Block
        BY <2>4, Update_Step
      <3>2. cidr[c] \in Grants!Block
        BY <3>1 DEF Grants!Block, Grants!Addr, Block, Addr
      <3> QED BY <3>1, <3>2 DEF Grants!Next
    <2>5. CASE UpdateConflict(c)
      BY <2>5, UpdateConflict_Step
    <2>6. CASE ReadFails(c) \/ Deploy(c) \/ Fail(c)
      BY <2>6, Returning_Step
    <2> QED BY <1>3, <2>1, <2>2, <2>3, <2>4, <2>5, <2>6 DEF Proceed
  <1> QED BY <1>1, <1>2, <1>3 DEF Next, vars, brokerVars

-----------------------------------------------------------------------------
\* The inductive invariant holds in every state.
THEOREM Invariance == Spec => []IInv
  <1>1. Init => IInv
    BY Init_IInv
  <1>2. IInv /\ [Next]_vars => IInv'
    BY Step_IInv
  <1> QED BY <1>1, <1>2, PTL DEF Spec

\* The variables of the join keep their types.
THEOREM TypeCorrect == Spec => []TypeOK
  <1>1. IInv => TypeOK
    BY DEF IInv
  <1> QED BY <1>1, Invariance, PTL

\* No address is ever recorded for two clusters (globalcidr_cm.go:91-121).
THEOREM RecordedDisjoint == Spec => []LedgerDisjoint
  <1>1. IInv => LedgerDisjoint
    BY DEF IInv
  <1> QED BY <1>1, Invariance, PTL

\* The ConfigMap implements the ledger: grants are made one at a time, to
\* clusters that have none, and only a deployment of the broker revokes them.
THEOREM ImplementsLedger == Spec => LedgerOfGrants
  <1>1. Init => Grants!Init
    BY DEF Init, NoConfigMap, NoConfigMapData, EmptyLedger, NoBlock, Grants!Init, Grants!Empty, Grants!NoBlock
  <1>2. IInv /\ [Next]_vars => [Grants!Next]_(configMap.clusters)
    BY Step_IInv
  <1> QED BY <1>1, <1>2, Invariance, PTL DEF Spec, LedgerOfGrants, Grants!Spec

-----------------------------------------------------------------------------
(***************************************************************************)
(* What the clusters run with.  A second deployment of the broker empties  *)
(* the ledger under clusters that have joined, so this holds only if the   *)
(* ConfigMap is written once, with globalnet enabled, and every joining    *)
(* cluster has the globalnet component.                                    *)
(***************************************************************************)

DeployedOnce ==
    /\ MaxDeploys <= 1
    /\ \A config \in BrokerConfigs : config.enabled
    /\ \A i \in BrokerInfos : "globalnet" \in i.components

\* The ConfigMap comes first, and says that globalnet is enabled.
EnabledFirst ==
    /\ deploys = 0 => ~ configMap.exists
    /\ configMap.exists => configMap.enabled
    /\ ~ configMap.exists =>
          \A c \in Clusters : pc[c] \in {"idle", "read"} /\ applied[c].kind # "submariner"

\* A cluster deploys what is recorded for it, and goes on running with it.
RecordedFirst ==
    \A c \in Clusters :
        /\ pc[c] = "deploy" =>
              configMap.clusters[c] # NoBlock /\ cidr[c] = configMap.clusters[c]
        /\ applied[c].kind = "submariner" =>
              configMap.clusters[c] # NoBlock /\ applied[c].cidr = configMap.clusters[c]
        /\ applied[c].kind # "submariner" => applied[c].cidr = NoBlock

OnceInv == EnabledFirst /\ RecordedFirst

LEMMA Once_Update ==
    ASSUME IInv, OnceInv, NEW c \in Clusters, UpdateGlobalnetConfigMap(c) \/ UpdateAnswerLost(c)
    PROVE  OnceInv'
  <1>1. pc[c] = "update" /\ UpdateAccepted(c) /\ StoreEntry(c)
    BY DEF UpdateGlobalnetConfigMap, UpdateAnswerLost
  <1>2. configMap' = [configMap EXCEPT !.clusters[c] = cidr[c]] /\ cidr[c] \in Block
    BY <1>1, StoreEntry_Step
  <1>3. configMap \in GlobalnetConfigMap /\ configMap.clusters[c] = NoBlock
    <2>1. copy[c].map = configMap /\ copy[c].map.clusters[c] = NoBlock
      BY <1>1 DEF IInv, CopyFresh, ChoiceFits, Pending, UpdateAccepted
    <2> QED BY <2>1 DEF IInv, TypeOK
  <1>4. /\ configMap'.exists = configMap.exists /\ configMap'.enabled = configMap.enabled
        /\ configMap'.clusters = [configMap.clusters EXCEPT ![c] = cidr[c]]
        /\ configMap.clusters \in [Clusters -> Block \cup {NoBlock}]
    BY <1>2, <1>3 DEF GlobalnetConfigMap
  <1>5. NoBlock \notin Block
    BY SizesAssumption DEF NoBlock, Block
  <1>6. /\ deploys' = deploys /\ applied' = applied
        /\ \A d \in Clusters \ {c} : pc'[d] = pc[d] /\ cidr'[d] = cidr[d]
        /\ pc'[c] = "deploy" => cidr'[c] = cidr[c]
    BY DEF UpdateGlobalnetConfigMap, UpdateAnswerLost, StoreEntry, Return, IInv, TypeOK
  <1>7. EnabledFirst'
    BY <1>1, <1>4, <1>6 DEF OnceInv, EnabledFirst
  <1>8. RecordedFirst'
    <2>1. SUFFICES ASSUME NEW d \in Clusters
                   PROVE  /\ pc'[d] = "deploy" =>
                                configMap'.clusters[d] # NoBlock /\ cidr'[d] = configMap'.clusters[d]
                          /\ applied'[d].kind = "submariner" =>
                                /\ configMap'.clusters[d] # NoBlock
                                /\ applied'[d].cidr = configMap'.clusters[d]
                          /\ applied'[d].kind # "submariner" => applied'[d].cidr = NoBlock
      BY DEF RecordedFirst
    <2>2. CASE d = c
      BY <1>2, <1>3, <1>4, <1>5, <1>6, <2>2 DEF OnceInv, RecordedFirst
    <2>3. CASE d # c
      BY <1>4, <1>6, <2>3 DEF OnceInv, RecordedFirst
    <2> QED BY <2>2, <2>3
  <1> QED BY <1>7, <1>8 DEF OnceInv

LEMMA Once_Step ==
    ASSUME DeployedOnce, IInv, OnceInv, [Next]_vars
    PROVE  OnceInv'
  <1>1. CASE UNCHANGED vars
    BY <1>1 DEF vars, brokerVars, clusterVars, OnceInv, EnabledFirst, RecordedFirst
  <1>2. ASSUME NEW config \in BrokerConfigs, DeployBroker(config)
        PROVE  OnceInv'
    <2>1. deploys = 0
      BY <1>2, ConstantsAssumption DEF DeployBroker, DeployedOnce, IInv, TypeOK
    <2>2. ~ configMap.exists
      BY <2>1 DEF OnceInv, EnabledFirst
    <2>3. /\ configMap'.exists /\ configMap'.enabled /\ deploys' = 1
          /\ UNCHANGED <<pc, cidr, applied>>
      BY <1>2, <2>1 DEF DeployBroker, DeployedOnce, GeneralGlobalnetConfigMap, ConfigMapData,
                        clusterVars
    <2>4. EnabledFirst'
      BY <2>3 DEF EnabledFirst
    <2>5. RecordedFirst'
      BY <2>2, <2>3 DEF OnceInv, EnabledFirst, RecordedFirst
    <2> QED BY <2>4, <2>5 DEF OnceInv
  <1>3. ASSUME NEW c \in Clusters, StartJoin(c) \/ Proceed(c) \/ Fail(c) \/ UpdateAnswerLost(c)
        PROVE  OnceInv'
    <2>1. CASE StartJoin(c)
      <3>1. /\ pc' = [pc EXCEPT ![c] = "read"]
            /\ \A d \in Clusters \ {c} : cidr'[d] = cidr[d]
            /\ UNCHANGED <<configMap, deploys, applied>>
        BY <2>1 DEF StartJoin, DeployedOnce, IInv, TypeOK, brokerVars
      <3> QED BY <3>1 DEF OnceInv, EnabledFirst, RecordedFirst, IInv, TypeOK
    <2>2. CASE ReadDisabled(c)
      BY <2>2 DEF ReadDisabled, OnceInv, EnabledFirst
    <2>3. CASE ReadRecorded(c)
      <3>1. /\ configMap.exists /\ configMap.clusters[c] # NoBlock
            /\ pc' = [pc EXCEPT ![c] = "deploy"]
            /\ cidr' = [cidr EXCEPT ![c] = configMap.clusters[c]]
            /\ UNCHANGED <<configMap, deploys, applied>>
        BY <2>3 DEF ReadRecorded, AssignGlobalnetIPs, brokerVars
      <3> QED BY <3>1 DEF OnceInv, EnabledFirst, RecordedFirst, IInv, TypeOK
    <2>4. CASE ReadAssigns(c)
      <3>1. /\ configMap.exists
            /\ pc' = [pc EXCEPT ![c] = "update"]
            /\ \A d \in Clusters \ {c} : cidr'[d] = cidr[d]
            /\ UNCHANGED <<configMap, deploys, applied>>
        BY <2>4 DEF ReadAssigns, brokerVars, IInv, TypeOK
      <3> QED BY <3>1 DEF OnceInv, EnabledFirst, RecordedFirst, IInv, TypeOK
    <2>5. CASE UpdateGlobalnetConfigMap(c) \/ UpdateAnswerLost(c)
      BY <2>5, Once_Update
    <2>6. CASE UpdateConflict(c)
      <3>1. /\ pc[c] = "update" /\ pc'[c] \in {"idle", "read"}
            /\ \A d \in Clusters \ {c} : pc'[d] = pc[d] /\ cidr'[d] = cidr[d]
            /\ UNCHANGED <<configMap, deploys, applied>>
        BY <2>6 DEF UpdateConflict, Return, brokerVars, IInv, TypeOK
      <3> QED BY <3>1 DEF OnceInv, EnabledFirst, RecordedFirst
    <2>7. CASE ReadFails(c) \/ Fail(c)
      <3>1. /\ pc'[c] = "idle"
            /\ \A d \in Clusters \ {c} : pc'[d] = pc[d] /\ cidr'[d] = cidr[d]
            /\ UNCHANGED <<configMap, deploys, applied>>
        BY <2>7 DEF ReadFails, Fail, Return, brokerVars, IInv, TypeOK
      <3> QED BY <3>1 DEF OnceInv, EnabledFirst, RecordedFirst
    <2>8. CASE Deploy(c)
      <3>1. /\ pc[c] = "deploy" /\ pc'[c] = "idle"
            /\ \A d \in Clusters \ {c} : /\ pc'[d] = pc[d] /\ cidr'[d] = cidr[d]
                                        /\ applied'[d] = applied[d]
            /\ UNCHANGED <<configMap, deploys>>
        BY <2>8 DEF Deploy, Return, brokerVars, IInv, TypeOK
      <3>2. configMap.exists /\ cidr[c] = configMap.clusters[c] /\ cidr[c] # NoBlock
        BY <3>1 DEF OnceInv, EnabledFirst, RecordedFirst
      <3>3. \/ applied'[c] = [kind |-> "submariner", cidr |-> configMap.clusters[c]]
            \/ applied'[c] = [kind |-> "serviceDiscovery", cidr |-> NoBlock]
            \/ applied'[c] = applied[c]
        BY <2>8, <3>2 DEF Deploy, IInv, TypeOK
      <3>4. EnabledFirst'
        BY <3>1, <3>2 DEF OnceInv, EnabledFirst
      <3>5. RecordedFirst'
        <4>1. SUFFICES ASSUME NEW d \in Clusters
                       PROVE  /\ pc'[d] = "deploy" =>
                                    /\ configMap.clusters[d] # NoBlock
                                    /\ cidr'[d] = configMap.clusters[d]
                              /\ applied'[d].kind = "submariner" =>
                                    /\ configMap.clusters[d] # NoBlock
                                    /\ applied'[d].cidr = configMap.clusters[d]
                              /\ applied'[d].kind # "submariner" => applied'[d].cidr = NoBlock
          BY <3>1 DEF RecordedFirst
        <4>2. CASE d = c
          BY <3>1, <3>2, <3>3, <4>2 DEF OnceInv, RecordedFirst
        <4>3. CASE d # c
          BY <3>1, <4>3 DEF OnceInv, RecordedFirst
        <4> QED BY <4>2, <4>3
      <3> QED BY <3>4, <3>5 DEF OnceInv
    <2> QED BY <1>3, <2>1, <2>2, <2>3, <2>4, <2>5, <2>6, <2>7, <2>8 DEF Proceed
  <1> QED BY <1>1, <1>2, <1>3 DEF Next

\* The second invariant holds in every state of a broker deployed once.
THEOREM OnceInvariance ==
    ASSUME DeployedOnce
    PROVE  Spec => []OnceInv
  <1>1. Init => OnceInv
    BY DEF Init, OnceInv, EnabledFirst, RecordedFirst, NoConfigMap, NoConfigMapData, Nothing
  <1>2. IInv /\ OnceInv /\ [Next]_vars => OnceInv'
    BY Once_Step
  <1> QED BY <1>1, <1>2, Invariance, PTL DEF Spec

\* Deployed once, the broker's ledger tells what every joined cluster runs with.
THEOREM JoinedAsRecorded ==
    ASSUME DeployedOnce
    PROVE  Spec => []AppliedIsRecorded
  <1>1. OnceInv => AppliedIsRecorded
    BY DEF OnceInv, RecordedFirst, AppliedIsRecorded
  <1> QED BY <1>1, OnceInvariance, PTL

\* Deployed once, no address belongs to two joined clusters.
THEOREM JoinedDisjoint ==
    ASSUME DeployedOnce
    PROVE  Spec => []AppliedDisjoint
  <1>1. IInv /\ OnceInv => AppliedDisjoint
    <2>1. SUFFICES ASSUME IInv, OnceInv, NEW c \in Clusters, NEW d \in Clusters, c # d
                   PROVE  Disjoint(applied[c].cidr, applied[d].cidr)
      BY DEF AppliedDisjoint
    <2>2. Disjoint(configMap.clusters[c], configMap.clusters[d])
      BY <2>1 DEF IInv, LedgerDisjoint
    <2>3. \A e \in Clusters : \/ applied[e].cidr = configMap.clusters[e]
                              \/ applied[e].cidr = NoBlock
      BY <2>1 DEF OnceInv, RecordedFirst
    <2> QED BY <2>2, <2>3, DisjointFacts
  <1> QED BY <1>1, Invariance, OnceInvariance, PTL

-----------------------------------------------------------------------------
(***************************************************************************)
(* Where the recorded CIDRs lie.  The CIDR of a refused attempt is tried   *)
(* again, and only its overlaps are looked at: with two ranges it may be   *)
(* recorded outside the one that has been deployed in between.  So may a   *)
(* range of a broker info that is not the broker's.                        *)
(***************************************************************************)

OneRange(range) ==
    /\ \A config \in BrokerConfigs :
          config.enabled /\ IsValidGlobalnetConfig(config) => config.range = range
    /\ \A i \in BrokerInfos : i.range # NoBlock => Within(i.range, range)

\* The CIDRs recorded, and those about to be, lie in the range of the ConfigMap,
\* which has none only while globalnet is disabled.
RangeInv(range) ==
    /\ configMap.enabled => configMap.range = range
    /\ \A c \in Clusters :
          /\ configMap.clusters[c] # NoBlock =>
                configMap.enabled /\ Within(configMap.clusters[c], range)
          /\ cidr[c] # NoBlock => Within(cidr[c], range)
          /\ Pending(c) => copy[c].map.enabled

\* What a step of a joining cluster has to keep.
LEMMA Range_Keeps ==
    ASSUME NEW range, IInv, RangeInv(range), UNCHANGED configMap, NEW c \in Clusters,
           cidr'[c] # NoBlock => Within(cidr'[c], range),
           Pending(c)' => copy'[c].map.enabled,
           \A d \in Clusters \ {c} :
              /\ cidr'[d] = cidr[d]
              /\ (Pending(d)' => Pending(d)) /\ copy'[d] = copy[d]
    PROVE  RangeInv(range)'
  BY DEF RangeInv

LEMMA Range_Update ==
    ASSUME NEW range, IInv, RangeInv(range), NEW c \in Clusters,
           UpdateGlobalnetConfigMap(c) \/ UpdateAnswerLost(c)
    PROVE  RangeInv(range)'
  <1>1. pc[c] = "update" /\ UpdateAccepted(c) /\ StoreEntry(c)
    BY DEF UpdateGlobalnetConfigMap, UpdateAnswerLost
  <1>2. configMap' = [configMap EXCEPT !.clusters[c] = cidr[c]] /\ cidr[c] \in Block
    BY <1>1, StoreEntry_Step
  <1>3. configMap \in GlobalnetConfigMap /\ configMap.enabled
    <2>1. copy[c].map = configMap /\ copy[c].map.enabled
      BY <1>1 DEF IInv, CopyFresh, Pending, UpdateAccepted, RangeInv
    <2> QED BY <2>1 DEF IInv, TypeOK
  <1>4. /\ configMap'.enabled = configMap.enabled /\ configMap'.range = configMap.range
        /\ configMap'.clusters = [configMap.clusters EXCEPT ![c] = cidr[c]]
        /\ configMap.clusters \in [Clusters -> Block \cup {NoBlock}]
    BY <1>2, <1>3 DEF GlobalnetConfigMap
  <1>5. cidr[c] # NoBlock /\ Within(cidr[c], range)
    BY <1>2, SizesAssumption DEF RangeInv, NoBlock, Block
  <1>6. /\ ~ Pending(c)'
        /\ cidr'[c] \in {cidr[c], NoBlock}
        /\ \A d \in Clusters \ {c} :
              cidr'[d] = cidr[d] /\ (Pending(d)' => Pending(d)) /\ copy'[d] = copy[d]
    BY DEF UpdateGlobalnetConfigMap, UpdateAnswerLost, Return, IInv, TypeOK, Pending
  <1>7. ASSUME NEW d \in Clusters
        PROVE  /\ configMap'.clusters[d] # NoBlock =>
                     configMap'.enabled /\ Within(configMap'.clusters[d], range)
               /\ cidr'[d] # NoBlock => Within(cidr'[d], range)
               /\ Pending(d)' => copy'[d].map.enabled
    <2>1. CASE d = c
      BY <1>3, <1>4, <1>5, <1>6, <2>1
    <2>2. CASE d # c
      BY <1>3, <1>4, <1>6, <2>2 DEF RangeInv
    <2> QED BY <2>1, <2>2
  <1>8. configMap'.enabled => configMap'.range = range
    BY <1>4 DEF RangeInv
  <1> QED BY <1>7, <1>8 DEF RangeInv

LEMMA Range_Step ==
    ASSUME NEW range, OneRange(range), IInv, RangeInv(range), [Next]_vars
    PROVE  RangeInv(range)'
  <1>1. CASE UNCHANGED vars
    BY <1>1 DEF vars, brokerVars, clusterVars, RangeInv, Pending
  <1>2. ASSUME NEW config \in BrokerConfigs, DeployBroker(config)
        PROVE  RangeInv(range)'
    <2>1. /\ configMap'.enabled = config.enabled
          /\ configMap'.range = IF config.enabled THEN config.range ELSE NoBlock
          /\ configMap'.clusters = EmptyLedger
          /\ IsValidGlobalnetConfig(config)
          /\ UNCHANGED <<pc, cidr, copy>>
      BY <1>2 DEF DeployBroker, GeneralGlobalnetConfigMap, ConfigMapData, clusterVars
    <2> QED BY <2>1, EmptyFacts DEF RangeInv, OneRange, Pending
  <1>3. ASSUME NEW c \in Clusters, StartJoin(c) \/ Proceed(c) \/ Fail(c) \/ UpdateAnswerLost(c)
        PROVE  RangeInv(range)'
    <2>1. CASE StartJoin(c)
      <3>1. /\ cidr' = [cidr EXCEPT ![c] = info[c].range]
            /\ pc'[c] # "update" /\ \A d \in Clusters \ {c} : pc'[d] = pc[d]
            /\ UNCHANGED <<configMap, copy>>
        BY <2>1 DEF StartJoin, IInv, TypeOK, brokerVars
      <3>2. cidr'[c] # NoBlock => Within(cidr'[c], range)
        BY <3>1 DEF OneRange, IInv, TypeOK
      <3> QED BY <3>1, <3>2, Range_Keeps DEF IInv, TypeOK, Pending
    <2>2. CASE ReadDisabled(c)
      BY <2>2, Range_Keeps DEF ReadDisabled, brokerVars, IInv, TypeOK, Pending
    <2>3. CASE ReadRecorded(c)
      <3>1. /\ cidr' = [cidr EXCEPT ![c] = configMap.clusters[c]]
            /\ configMap.clusters[c] # NoBlock
            /\ pc' = [pc EXCEPT ![c] = "deploy"]
            /\ UNCHANGED <<configMap, copy>>
        BY <2>3 DEF ReadRecorded, AssignGlobalnetIPs, brokerVars
      <3>2. Within(configMap.clusters[c], range)
        BY <3>1 DEF RangeInv
      <3> QED BY <3>1, <3>2, Range_Keeps DEF IInv, TypeOK, Pending
    <2>4. CASE ReadAssigns(c)
      <3>1. PICK b \in AssignGlobalnetIPs(c) :
               /\ cidr' = [cidr EXCEPT ![c] = b]
               /\ copy' = [copy EXCEPT ![c] = [rev |-> rev, map |-> configMap]]
               /\ pc' = [pc EXCEPT ![c] = "update"]
               /\ UNCHANGED configMap
        BY <2>4 DEF ReadAssigns, brokerVars
      <3>2. configMap.enabled /\ configMap.clusters[c] = NoBlock
        BY <2>4 DEF ReadAssigns
      <3>3. Within(b, range)
        <4>1. CASE cidr[c] # NoBlock
          BY <3>2, <4>1 DEF AssignGlobalnetIPs, RangeInv
        <4>2. CASE cidr[c] = NoBlock
          <5>1. b \in AllocateGlobalCIDR(configMap.range, Others(c) \ {NoBlock}, ValidatedSize(c))
            BY <3>2, <4>2 DEF AssignGlobalnetIPs
          <5> QED BY <3>2, <5>1, AllocationFits DEF RangeInv
        <4> QED BY <4>1, <4>2
      <3>4. /\ cidr'[c] = b /\ copy'[c].map = configMap
            /\ \A d \in Clusters \ {c} :
                  cidr'[d] = cidr[d] /\ pc'[d] = pc[d] /\ copy'[d] = copy[d]
        BY <3>1 DEF IInv, TypeOK
      <3> QED BY <3>1, <3>2, <3>3, <3>4, Range_Keeps DEF Pending
    <2>5. CASE UpdateGlobalnetConfigMap(c) \/ UpdateAnswerLost(c)
      BY <2>5, Range_Update
    <2>6. CASE UpdateConflict(c) \/ ReadFails(c) \/ Fail(c) \/ Deploy(c)
      <3>1. /\ pc'[c] \in {"idle", "read"} /\ cidr'[c] \in {cidr[c], NoBlock}
            /\ \A d \in Clusters \ {c} :
                  cidr'[d] = cidr[d] /\ pc'[d] = pc[d] /\ copy'[d] = copy[d]
            /\ UNCHANGED configMap
        BY <2>6 DEF UpdateConflict, ReadFails, Fail, Deploy, Return, brokerVars, IInv, TypeOK
      <3>2. cidr'[c] # NoBlock => Within(cidr'[c], range)
        BY <3>1 DEF RangeInv
      <3> QED BY <3>1, <3>2, Range_Keeps DEF Pending
    <2> QED BY <1>3, <2>1, <2>2, <2>3, <2>4, <2>5, <2>6 DEF Proceed
  <1> QED BY <1>1, <1>2, <1>3 DEF Next

\* Where every configuration of the broker has the same range, which the broker
\* infos do not contradict, every recorded CIDR lies in the range the ConfigMap
\* announces (globalnet.go:109-122, fabric_types.go:72).
THEOREM RecordedInRange ==
    ASSUME NEW range, OneRange(range)
    PROVE  Spec => []LedgerInRange
  <1>1. Init => RangeInv(range)
    BY EmptyFacts DEF Init, RangeInv, NoConfigMap, NoConfigMapData, Pending
  <1>2. IInv /\ RangeInv(range) /\ [Next]_vars => RangeInv(range)'
    BY Range_Step
  <1>3. RangeInv(range) => LedgerInRange
    BY DEF RangeInv, LedgerInRange
  <1> QED BY <1>1, <1>2, <1>3, Invariance, PTL DEF Spec

-----------------------------------------------------------------------------
(***************************************************************************)
(* Room for two clusters.  GetValidClusterSize takes no size beyond half   *)
(* of the range; the broker checks the default size with it, a joining     *)
(* cluster the size of its own, so that no CIDR that is allocated is       *)
(* larger.  The range that a broker info gives a cluster is not checked.   *)
(* Nor is it checked that the default size has 32 bits: the allocation     *)
(* finds no prefix length for one that has not.                            *)
(***************************************************************************)

\* The range does not start at 0.0.0.0, where the search would be another.
HalfOf(range) ==
    /\ range \in Block /\ range.ip # 0
    /\ \A config \in BrokerConfigs :
          config.enabled /\ IsValidGlobalnetConfig(config) =>
             config.range = range /\ config.size < AddressSpace
    /\ \A i \in BrokerInfos : 2 * i.range.size <= range.size

AtMostHalf(b, range) == 2 * b.size <= range.size

\* Every CIDR recorded, and every one about to be, is at most half of the range,
\* and the default size is one the broker has checked.
HalfInv(range) ==
    /\ configMap.enabled =>
          /\ configMap.range = range /\ configMap.size < AddressSpace
          /\ GetValidClusterSize(range, configMap.size) # 0
    /\ \A c \in Clusters :
          AtMostHalf(configMap.clusters[c], range) /\ AtMostHalf(cidr[c], range)

\* The sizes that GetValidClusterSize accepts are rounded to what it returns.
LEMMA ValidSize ==
    ASSUME NEW range \in Block, NEW n \in Nat, GetValidClusterSize(range, n) # 0
    PROVE  /\ n # 0 /\ n # AddressSpace
           /\ n < AddressSpace => RoundUp(n) = GetValidClusterSize(range, n)
           /\ 2 * GetValidClusterSize(range, n) <= range.size
           /\ GetValidClusterSize(range, n) \in Sizes
  <1>1. /\ IsRoundUp(n % AddressSpace, GetValidClusterSize(range, n))
        /\ 2 * GetValidClusterSize(range, n) <= range.size
    BY ValidSizeIsRounded
  <1>2. AddressSpace \in Nat \ {0}
    BY SizesAssumption
  <1>3. AddressSpace % AddressSpace = 0 /\ 0 % AddressSpace = 0
    BY <1>2, BelowModulus
  <1>4. n % AddressSpace # 0
    <2>1. SUFFICES ASSUME n % AddressSpace = 0 PROVE FALSE
      OBVIOUS
    <2>2. NextPowerOf2(n) = 0
      BY <2>1 DEF NextPowerOf2
    <2> QED BY <2>2 DEF GetValidClusterSize
  <1>5. n < AddressSpace => RoundUp(n) = GetValidClusterSize(range, n)
    <2>1. SUFFICES ASSUME n < AddressSpace PROVE RoundUp(n) = GetValidClusterSize(range, n)
      OBVIOUS
    <2>2. n % AddressSpace = n
      BY <1>2, <2>1, BelowModulus
    <2>3. n <= AddressSpace
      BY <1>2, <2>1
    <2>4. IsRoundUp(n, GetValidClusterSize(range, n))
      BY <1>1, <2>2
    <2> QED BY <2>3, <2>4, RoundsUp
  <1> QED BY <1>1, <1>3, <1>4, <1>5 DEF IsRoundUp

\* Allocation looks at the rounded size only.
LEMMA AllocationRounds ==
    ASSUME NEW range \in Block, NEW recorded, NEW n \in Nat, n < AddressSpace,
           GetValidClusterSize(range, n) # 0
    PROVE  AllocateGlobalCIDR(range, recorded, n)
              = AllocateGlobalCIDR(range, recorded, GetValidClusterSize(range, n))
  <1> DEFINE s == GetValidClusterSize(range, n)
  <1>1. n # 0 /\ RoundUp(n) = s /\ s \in Sizes
    BY ValidSize
  <1> HIDE DEF s
  <1>2. s \in Nat \ {0} /\ s <= AddressSpace /\ RoundUp(s) = s
    BY <1>1, SizeIsRounded
  <1>3. n \in Nat \ {0} /\ n <= AddressSpace
    BY <1>1, SizesAssumption
  <1>4. AllocateGlobalCIDR(range, recorded, n) = FirstFree(range, recorded, s)
    BY <1>1, <1>3, AllocationDecided
  <1>5. AllocateGlobalCIDR(range, recorded, s) = FirstFree(range, recorded, s)
    BY <1>2, AllocationDecided
  <1> QED BY <1>4, <1>5 DEF s

\* What is allocated for a valid size is at most half of the range.
LEMMA AllocatesHalf ==
    ASSUME NEW range \in Block, NEW recorded, NEW n \in Nat,
           GetValidClusterSize(range, n) # 0,
           NEW b \in AllocateGlobalCIDR(range, recorded, n)
    PROVE  AtMostHalf(b, range)
  <1>1. b.size \in Sizes /\ IsRoundUp(n, b.size)
    BY DEF AllocateGlobalCIDR, FirstFree, FreeBlocks
  <1>2. b.size \in Nat /\ b.size <= AddressSpace /\ AddressSpace \in Nat
    <2>1. AddressSpace \in Nat
      BY SizesAssumption
    <2> QED BY <1>1, <2>1, SizeIsRounded
  <1>3. n < AddressSpace
    <2>1. n <= b.size
      BY <1>1 DEF IsRoundUp
    <2>2. n # AddressSpace
      BY ValidSize
    <2> QED BY <1>2, <2>1, <2>2
  <1>4. b.size = RoundUp(n)
    BY <1>1, <1>2, <1>3, RoundsUp
  <1> QED BY <1>3, <1>4, ValidSize DEF AtMostHalf

\* The sizes a join allocates for have been checked.
LEMMA SizesChecked ==
    ASSUME TypeOK, NEW range, HalfOf(range), HalfInv(range), NEW c \in Clusters,
           configMap.enabled, ConfigurationValid(c)
    PROVE  /\ ValidatedSize(c) \in Nat /\ ValidatedSize(c) < AddressSpace
           /\ GetValidClusterSize(range, ValidatedSize(c)) # 0
  <1>1. /\ range \in Block /\ configMap.range = range /\ configMap.size \in Nat
        /\ configMap.size < AddressSpace
        /\ GetValidClusterSize(range, configMap.size) # 0
        /\ info[c].size \in Nat /\ AddressSpace \in Nat \ {0}
    BY ConstantsAssumption, SizesAssumption
       DEF HalfOf, HalfInv, TypeOK, GlobalnetConfigMap, BrokerInfo
  <1>2. CASE ~ OverridesSize(c)
    BY <1>1, <1>2 DEF ValidatedSize
  <1>3. CASE OverridesSize(c)
    <2> DEFINE n == info[c].size
               s == GetValidClusterSize(range, n)
    <2>1. ValidatedSize(c) = s /\ s # 0
      BY <1>1, <1>3 DEF ValidatedSize, ConfigurationValid
    <2>2. s \in Sizes /\ 2 * s <= range.size
      BY <1>1, <2>1, ValidSize
    <2> HIDE DEF s, n
    <2>3. s \in Nat \ {0} /\ RoundUp(s) = s
      BY <2>2, SizeIsRounded
    <2>4. range.size \in Nat /\ range.size <= AddressSpace
      BY <1>1, BlockFacts, SizesAssumption
    <2>5. s < AddressSpace
      BY <1>1, <2>2, <2>3, <2>4
    <2>6. s % AddressSpace = s
      BY <1>1, <2>3, <2>5, BelowModulus
    <2>7. NextPowerOf2(s) = s
      BY <2>3, <2>6 DEF NextPowerOf2
    <2>8. ~ (s > range.size \div 2)
      BY <2>2, <2>3, <2>4
    <2> QED BY <2>1, <2>3, <2>5, <2>7, <2>8 DEF GetValidClusterSize, ClusterSizeFails
  <1> QED BY <1>2, <1>3

\* What a join may be assigned for its cluster is at most half of the range.
LEMMA AssignsHalf ==
    ASSUME TypeOK, NEW range, HalfOf(range), HalfInv(range), NEW c \in Clusters,
           configMap.enabled, ConfigurationValid(c), NEW b \in AssignGlobalnetIPs(c)
    PROVE  AtMostHalf(b, range)
  <1>1. CASE configMap.clusters[c] # NoBlock
    BY <1>1 DEF AssignGlobalnetIPs, HalfInv
  <1>2. CASE configMap.clusters[c] = NoBlock /\ cidr[c] # NoBlock
    BY <1>2 DEF AssignGlobalnetIPs, HalfInv
  <1>3. CASE configMap.clusters[c] = NoBlock /\ cidr[c] = NoBlock
    <2>1. b \in AllocateGlobalCIDR(configMap.range, Others(c) \ {NoBlock}, ValidatedSize(c))
      BY <1>3 DEF AssignGlobalnetIPs
    <2>2. configMap.range = range /\ range \in Block
      BY DEF HalfInv, HalfOf
    <2> QED BY <2>1, <2>2, SizesChecked, AllocatesHalf
  <1> QED BY <1>1, <1>2, <1>3

\* What a step of a joining cluster has to keep.
LEMMA Half_Keeps ==
    ASSUME NEW range, HalfInv(range), UNCHANGED configMap, NEW c \in Clusters,
           AtMostHalf(cidr'[c], range), \A d \in Clusters \ {c} : cidr'[d] = cidr[d]
    PROVE  HalfInv(range)'
  BY DEF HalfInv

LEMMA Half_Step ==
    ASSUME NEW range, HalfOf(range), IInv, HalfInv(range), [Next]_vars
    PROVE  HalfInv(range)'
  <1>1. AtMostHalf(NoBlock, range)
    <2>1. range.size \in Nat
      BY BlockFacts DEF HalfOf
    <2> QED BY <2>1 DEF AtMostHalf, NoBlock
  <1>2. CASE UNCHANGED vars
    BY <1>2 DEF vars, brokerVars, clusterVars, HalfInv
  <1>3. ASSUME NEW config \in BrokerConfigs, DeployBroker(config)
        PROVE  HalfInv(range)'
    <2>1. /\ configMap'.enabled = config.enabled
          /\ config.enabled => configMap'.range = config.range /\ configMap'.size = config.size
          /\ configMap'.clusters = EmptyLedger
          /\ IsValidGlobalnetConfig(config)
          /\ cidr' = cidr
      BY <1>3 DEF DeployBroker, GeneralGlobalnetConfigMap, ConfigMapData, clusterVars
    <2>2. config.enabled =>
             /\ config.range = range /\ config.size < AddressSpace
             /\ GetValidClusterSize(range, config.size) # 0
      BY <2>1 DEF HalfOf, IsValidGlobalnetConfig
    <2> QED BY <1>1, <2>1, <2>2, EmptyFacts DEF HalfInv
  <1>4. ASSUME NEW c \in Clusters, StartJoin(c) \/ Proceed(c) \/ Fail(c) \/ UpdateAnswerLost(c)
        PROVE  HalfInv(range)'
    <2>1. CASE StartJoin(c)
      <3>1. cidr' = [cidr EXCEPT ![c] = info[c].range] /\ UNCHANGED configMap
        BY <2>1 DEF StartJoin, brokerVars
      <3>2. AtMostHalf(info[c].range, range)
        BY DEF HalfOf, IInv, TypeOK, AtMostHalf
      <3> QED BY <3>1, <3>2, Half_Keeps DEF IInv, TypeOK
    <2>2. CASE ReadDisabled(c)
      BY <1>1, <2>2, Half_Keeps DEF ReadDisabled, brokerVars, IInv, TypeOK
    <2>3. CASE ReadRecorded(c) \/ ReadAssigns(c)
      <3>1. PICK b \in AssignGlobalnetIPs(c) :
               cidr' = [cidr EXCEPT ![c] = b] /\ UNCHANGED configMap
        BY <2>3 DEF ReadRecorded, ReadAssigns, brokerVars
      <3>2. AtMostHalf(b, range)
        BY <2>3, <3>1, AssignsHalf DEF ReadRecorded, ReadAssigns, IInv
      <3> QED BY <3>1, <3>2, Half_Keeps DEF IInv, TypeOK
    <2>4. CASE UpdateGlobalnetConfigMap(c) \/ UpdateAnswerLost(c)
      <3>1. /\ configMap' = [configMap EXCEPT !.clusters[c] = cidr[c]]
            /\ cidr'[c] \in {cidr[c], NoBlock}
            /\ \A d \in Clusters \ {c} : cidr'[d] = cidr[d]
        <4>1. pc[c] = "update" /\ UpdateAccepted(c) /\ StoreEntry(c)
          BY <2>4 DEF UpdateGlobalnetConfigMap, UpdateAnswerLost
        <4>2. configMap' = [configMap EXCEPT !.clusters[c] = cidr[c]]
          BY <4>1, StoreEntry_Step
        <4> QED BY <2>4, <4>2
                DEF UpdateGlobalnetConfigMap, UpdateAnswerLost, Return, IInv, TypeOK
      <3>2. /\ configMap'.enabled = configMap.enabled /\ configMap'.range = configMap.range
            /\ configMap'.size = configMap.size
            /\ configMap'.clusters = [configMap.clusters EXCEPT ![c] = cidr[c]]
            /\ configMap.clusters \in [Clusters -> Block \cup {NoBlock}]
        BY <3>1 DEF IInv, TypeOK, GlobalnetConfigMap
      <3>3. \A d \in Clusters :
               AtMostHalf(configMap'.clusters[d], range) /\ AtMostHalf(cidr'[d], range)
        BY <1>1, <3>1, <3>2 DEF HalfInv
      <3> QED BY <3>2, <3>3 DEF HalfInv
    <2>5. CASE UpdateConflict(c) \/ ReadFails(c) \/ Fail(c) \/ Deploy(c)
      <3>1. /\ cidr'[c] \in {cidr[c], NoBlock} /\ UNCHANGED configMap
            /\ \A d \in Clusters \ {c} : cidr'[d] = cidr[d]
        BY <2>5 DEF UpdateConflict, ReadFails, Fail, Deploy, Return, brokerVars, IInv, TypeOK
      <3>2. AtMostHalf(cidr'[c], range)
        BY <1>1, <3>1 DEF HalfInv
      <3> QED BY <3>1, <3>2, Half_Keeps
    <2> QED BY <1>4, <2>1, <2>2, <2>3, <2>4, <2>5 DEF Proceed
  <1> QED BY <1>2, <1>3, <1>4 DEF Next

\* A free block beside one block is a free block beside none.
LEMMA FewerTaken ==
    ASSUME NEW range, NEW a, NEW size, FreeBlocks(range, {a}, size) # {}
    PROVE  FreeBlocks(range, {}, size) # {}
  BY DEF FreeBlocks

\* Beside at most one block of at most half the range, the allocation finds a
\* block for a size that has been checked.
LEMMA SecondFits ==
    ASSUME NEW range \in Block, NEW n \in Nat, n < AddressSpace,
           GetValidClusterSize(range, n) # 0,
           NEW taken, NEW a \in Block \cup {NoBlock}, AtMostHalf(a, range),
           taken = {a} \ {NoBlock}
    PROVE  AllocateGlobalCIDR(range, taken, n) # {}
  <1> DEFINE s == GetValidClusterSize(range, n)
  <1>1. s \in Sizes /\ 2 * s <= range.size
    BY ValidSize
  <1>2. ASSUME NEW b \in Block, AtMostHalf(b, range)
        PROVE  AllocateGlobalCIDR(range, {b}, n) # {}
    <2>1. 2 * b.size <= range.size
      BY <1>2 DEF AtMostHalf
    <2>2. AllocateGlobalCIDR(range, {b}, s) # {}
      BY <2>1, SecondClusterFits
    <2>3. AllocateGlobalCIDR(range, {b}, n) = AllocateGlobalCIDR(range, {b}, s)
      BY AllocationRounds
    <2> QED BY <2>2, <2>3
  <1>3. CASE a # NoBlock
    <2>1. taken = {a} /\ a \in Block
      BY <1>3
    <2> QED BY <1>2, <2>1
  <1>4. CASE a = NoBlock
    <2> HIDE DEF s
    <2>1. PICK b \in Block : b.size = s
      BY <1>1, TwoBlocks
    <2>2. AllocateGlobalCIDR(range, {b}, n) # {}
      BY <1>1, <1>2, <2>1 DEF AtMostHalf
    <2>3. n \in Nat \ {0} /\ n <= AddressSpace
      <3>1. AddressSpace \in Nat
        BY SizesAssumption
      <3> QED BY <3>1, ValidSize
    <2>4. FreeBlocks(range, {b}, RoundUp(n)) # {}
      BY <2>2, <2>3, AllocationDecided
    <2>5. FreeBlocks(range, {}, RoundUp(n)) # {}
      BY <2>4, FewerTaken
    <2>6. AllocateGlobalCIDR(range, {}, n) # {}
      BY <2>3, <2>5, AllocationDecided
    <2> QED BY <1>4, <2>6
  <1> QED BY <1>3, <1>4

\* Where the configurations of the broker have one range, and default sizes of 32
\* bits, and no broker info gives a cluster more than half of it, an allocation
\* that finds at most one other cluster recorded succeeds (globalnet.go:199-212).
THEOREM RoomForSecond ==
    ASSUME NEW range, HalfOf(range)
    PROVE  Spec => []RoomForTwo
  <1>1. Init => HalfInv(range)
    <2>1. AtMostHalf(NoBlock, range)
      <3>1. range.size \in Nat
        BY BlockFacts DEF HalfOf
      <3> QED BY <3>1 DEF AtMostHalf, NoBlock
    <2> QED BY <2>1, EmptyFacts DEF Init, HalfInv, NoConfigMap, NoConfigMapData
  <1>2. IInv /\ HalfInv(range) /\ [Next]_vars => HalfInv(range)'
    BY Half_Step
  <1>3. IInv /\ HalfInv(range) => RoomForTwo
    <2>1. SUFFICES ASSUME IInv, HalfInv(range), NEW c \in Clusters, NEW d \in Clusters,
                          configMap.enabled, configMap.clusters[c] = NoBlock,
                          Others(c) \subseteq {configMap.clusters[d], NoBlock},
                          ConfigurationValid(c), cidr[c] = NoBlock
                   PROVE  AssignGlobalnetIPs(c) # {}
      BY DEF RoomForTwo
    <2> DEFINE taken == Others(c) \ {NoBlock}
               a == IF configMap.clusters[d] \in Others(c) THEN configMap.clusters[d] ELSE NoBlock
    <2>2. taken = {a} \ {NoBlock}
      BY <2>1
    <2>3. a \in Block \cup {NoBlock} /\ AtMostHalf(a, range)
      <3>1. configMap.clusters[d] \in Block \cup {NoBlock}
        BY <2>1 DEF IInv, TypeOK, GlobalnetConfigMap
      <3>2. AtMostHalf(configMap.clusters[d], range) /\ AtMostHalf(NoBlock, range)
        <4>1. range.size \in Nat
          BY BlockFacts DEF HalfOf
        <4> QED BY <2>1, <4>1 DEF HalfInv, AtMostHalf, NoBlock
      <3> QED BY <3>1, <3>2
    <2> HIDE DEF taken, a
    <2>4. /\ ValidatedSize(c) \in Nat /\ ValidatedSize(c) < AddressSpace
          /\ GetValidClusterSize(range, ValidatedSize(c)) # 0
      BY <2>1, SizesChecked DEF IInv
    <2>5. configMap.range = range /\ range \in Block
      BY <2>1 DEF HalfInv, HalfOf
    <2>6. AllocateGlobalCIDR(range, taken, ValidatedSize(c)) # {}
      BY <2>2, <2>3, <2>4, <2>5, SecondFits
    <2> QED BY <2>1, <2>5, <2>6 DEF AssignGlobalnetIPs, taken
  <1> QED BY <1>1, <1>2, <1>3, Invariance, PTL DEF Spec
=============================================================================
