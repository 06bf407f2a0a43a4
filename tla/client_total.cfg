CONSTANTS
    Ports = 2
    connections = 1
SPECIFICATION Spec
INVARIANT NoMoreThanTotal
CHECK_DEADLOCK FALSE
