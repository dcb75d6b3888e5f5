CONSTANTS
    p1 = p1
    me = me
    Peers <- OnePeer
    Me = me
    Meetings <- OneMeeting
    Roles <- BothRoles
    MaxSessions = 2
    MaxClicks = 2
    MaxTroubles = 1
    MaxComings = 2
SPECIFICATION Spec
CHECK_DEADLOCK FALSE
INVARIANTS
    TypeOK
    
    
    
