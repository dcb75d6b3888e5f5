CONSTANTS
    c1 = c1
    c2 = c2
    c3 = c3
    t1 = t1
    t2 = t2
    Clients <- ThreeClients
    NFds = 4
    SendThreads <- TwoSenders
    MAXSIZE = 2
    Requests <- NoRequests
    MaxMeetings = 1
    MaxJoins = 2
    Reconnects = FALSE
    NoClient = NoClient
    NoMsg = NoMsg
SPECIFICATION Spec
SYMMETRY Symmetry
CHECK_DEADLOCK FALSE
INVARIANTS
    TypeOK
    KnowsEveryMember
    
    
