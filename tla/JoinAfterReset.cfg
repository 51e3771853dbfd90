SPECIFICATION Spec
CONSTANTS
    AddressSpace <- MCSpace
    Sizes <- MCSizes
    c1 = c1
    c2 = c2
    c3 = c3
    Clusters <- TwoClusters
    BrokerConfigs <- OneConfig
    BrokerInfos <- PlainInfos
    RetrySteps = 5
    MaxDeploys = 2
    MaxFaults = 0
INVARIANT
    AppliedDisjoint
