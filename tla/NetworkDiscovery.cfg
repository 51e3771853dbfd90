SPECIFICATION FairSpec
CONSTANTS
    CIDRs <- MCCIDRs
    Nil = Nil
    Blank = Blank
    Separate = Separate
    Clusters <- MCClusters
    MaxFaults = 2
INVARIANTS
    TypeOK
    DiscoversWhatIsThere
PROPERTIES
    ReadsOnward
    Determines
