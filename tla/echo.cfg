CONSTANTS
    Timeout = 3
    MaxQueued = 3
SPECIFICATION FairSpec
INVARIANT
    Inv
PROPERTIES
    ClosedWhenIdle
    ExpiresWhenIdle
    OperationsEnd
    Released
