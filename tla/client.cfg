\* Three ports with one session each, one more than was asked for: when the
\* thread of one port fails the others still make enough connections.
CONSTANTS
    Ports = 3
    connections = 2
SPECIFICATION FairSpec
INVARIANT CountersExact
PROPERTY Ends
\* The program stops when it has ended.
CHECK_DEADLOCK FALSE
