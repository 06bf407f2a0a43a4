\* Two ports, main and two workers; and memory for a connection to
\* every client, one that each port accepts into and one more, so that none of
\* the programs ever runs out of it.
CONSTANTS
    Port = {p1, p2}
    Worker = {w1, w2}
    Conn = {c1, c2, c3, c4, c5, c6}
    Main = main
    None = None
    Client = {a, b}
    MaxAsked = 1
    MaxClients = 3
    MaxErrors = 2
SPECIFICATION FairSpec
INVARIANTS
    AnswersExact
    ConnectionsSafe
PROPERTIES
    Served
    Ends
\* The servers may end, or wait for clients for ever.
CHECK_DEADLOCK FALSE
