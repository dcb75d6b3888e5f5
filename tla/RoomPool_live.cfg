CONSTANTS
    c1 = c1
    c2 = c2
    c3 = c3
    Conns <- TwoConns
    NRooms = 1
    NThreads = 2
    MaxMembers = 2
    PipeCap = 1
    MaxCreates = 2
    Faults <- NoFaults
    NoConn = NoConn
SPECIFICATION FairSpec
INVARIANTS
    TypeOK
PROPERTIES
    ImplementsLifecycle
    RequestsAreAnswered
