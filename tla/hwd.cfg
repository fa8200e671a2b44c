CONSTANTS
    N = 2
    Size = 3
    MaxRetries = 3
    Ported = TRUE
SPECIFICATION FairSpec
INVARIANTS
    TypeOK
    SentMeansListed
    MissingIsExplained
PROPERTIES
    MasterAdvances
    DiscoveryEnds
CHECK_DEADLOCK FALSE
