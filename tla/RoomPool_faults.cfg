CONSTANTS
    c1 = c1
    c2 = c2
    c3 = c3
    Conns <- ThreeConns
    NRooms = 2
    NThreads = 1
    MaxMembers = 2
    PipeCap = 2
    MaxCreates = 2
    Faults <- EveryFault
    NoConn = NoConn
SPECIFICATION Spec
SYMMETRY ConnSymmetry
CHECK_DEADLOCK FALSE
INVARIANTS
    OneMeetingPerRoom
    
