CONSTANTS
    c1 = c1
    c2 = c2
    c3 = c3
    Conns <- ThreeConns
    NRooms = 2
    NThreads = 2
    MaxMembers = 2
    PipeCap = 2
    MaxCreates = 2
    Faults <- NoFaults
    NoConn = NoConn
SPECIFICATION Spec
SYMMETRY ConnSymmetry
INVARIANTS
    NavailCountsFreeRooms
    OneMeetingPerRoom
    ReadyRoomIsEmpty
    TotalCoversMembers
