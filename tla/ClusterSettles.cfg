SPECIFICATION FairSpec
CONSTANTS
    Wishes <- MCWishes
    Components <- AnyComponents
    FailingSteps <- Failing
    MaxEdits = 3
    MaxFaults = 2
INVARIANTS
    TypeOK
    JoinSettled
PROPERTIES
    KeptUntilReady
    NeverRolledBack
    RunningWhenMade
    Settles
