SPECIFICATION Spec
CONSTANTS
    AddressSpace <- MCSpace
    Sizes <- MCSizes
    c1 = c1
    c2 = c2
    c3 = c3
    Clusters <- TwoClusters
    BrokerConfigs <- ConfigsOnOff
    BrokerInfos <- AllInfos
    RetrySteps = 2
    MaxDeploys = 3
    MaxFaults = 1
INVARIANTS
    TypeOK
    LedgerDisjoint
    LedgerInRange
    RoomForTwo
PROPERTY
    LedgerOfGrants
