CONSTANTS
    Waits = TRUE
    MaxConnects = 2
    MaxOutages = 1
    MaxPackets = 2
    MaxTorn = 1
    MaxInterval = 2
    QueueCap = 1
    LineCap = 2
SPECIFICATION FairSpec
CHECK_DEADLOCK FALSE
INVARIANTS
    TypeOK
    SomebodyWatches
    AttachedHasWriter
    
PROPERTIES
    NothingSentLate
    ConnectedAgain
    NoPacketStays
