CONSTANTS
    c1 = c1
    c2 = c2
    c3 = c3
    t1 = t1
    t2 = t2
    Clients <- TwoClients
    NFds = 3
    SendThreads <- OneSender
    MAXSIZE = 1
    Requests <- EveryRequest
    MaxMeetings = 2
    MaxJoins = 2
    Reconnects = TRUE
    NoClient = NoClient
    NoMsg = NoMsg
SPECIFICATION Spec
SYMMETRY Symmetry
CHECK_DEADLOCK FALSE
INVARIANTS
    OwnerIsMember
    MaxfdCoversMembers
