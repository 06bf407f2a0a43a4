CONSTANTS
    Timeout = 2
    MaxQueued = 3
SPECIFICATION FairSpec
INVARIANT
    Inv
PROPERTIES
    ClosedWhenIdle
    OperationsEnd
    Released
