SPECIFICATION FairSpec
CONSTANTS
    AddressSpace <- MCSpace
    Sizes <- MCSizes
    BrokerConfigs <- OnAndOff
    FailingSteps <- NoSteps
    CachesKeepUp = TRUE
    MaxEdits = 1
    MaxFaults = 0
PROPERTY
    Settles
