SPECIFICATION FairSpec
CONSTANTS
    AddressSpace <- MCSpace
    Sizes <- MCSizes
    BrokerConfigs <- OnOffAndBad
    FailingSteps <- Reported
    CachesKeepUp = TRUE
    MaxEdits = 2
    MaxFaults = 1
INVARIANTS
    TypeOK
    Settled
    LedgerSettled
    PhaseSettled
    PublishedWhenReady
PROPERTIES
    LedgerDeployed
    SettlesIfDeployable
