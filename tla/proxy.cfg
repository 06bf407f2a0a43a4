CONSTANT Timeout = 2
SPECIFICATION FairSpec
INVARIANT
    Inv
PROPERTIES
    CutWhenIdle
    OperationsEnd
    Released
