SPECIFICATION FairSpec
CONSTANTS
    deployBroker = deployBroker
    joinBroker = joinBroker
    Operators <- Both
    Accounts <- LighthouseAccounts
    OtherUsers <- OneOther
    MaxEdits = 1
    MaxFaults = 1
INVARIANTS
    TypeOK
    Installed
PROPERTIES
    UpgradedInOrder
    UserListKept
    Finishes
