CONSTANTS
    N = 2
    Size = 2
    MaxRetries = 2
    Ported = FALSE
SPECIFICATION Spec
INVARIANTS
    EachNodeIsRetrieved
CHECK_DEADLOCK FALSE
