SPECIFICATION FairSpec
CONSTANTS
    AddressSpace <- MCSpace
    Sizes <- MCSizes
    c1 = c1
    c2 = c2
    c3 = c3
    Clusters <- TwoClusters
    BrokerConfigs <- OneConfig
    BrokerInfos <- DeployedInfos
    RetrySteps = 5
    MaxDeploys = 1
    MaxFaults = 0
PROPERTY
    EveryClusterJoins
