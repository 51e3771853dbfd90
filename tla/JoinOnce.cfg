SPECIFICATION FairSpec
CONSTANTS
    AddressSpace <- MCSpace
    Sizes <- MCSizes
    c1 = c1
    c2 = c2
    c3 = c3
    Clusters <- ThreeClusters
    BrokerConfigs <- OneConfig
    BrokerInfos <- SizeInfos
    RetrySteps = 2
    MaxDeploys = 1
    MaxFaults = 1
INVARIANTS
    LedgerDisjoint
    AppliedIsRecorded
    AppliedDisjoint
PROPERTIES
    LedgerOfGrants
    EveryClusterJoins
