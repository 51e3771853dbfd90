SPECIFICATION Spec
CONSTANTS
    AddressSpace <- MCSpace
    Sizes <- MCSizes
    BrokerConfigs <- AllEnabled
    FailingSteps <- LedgerOnly
    CachesKeepUp = TRUE
    MaxEdits = 1
    MaxFaults = 1
INVARIANT
    LedgerSettled
