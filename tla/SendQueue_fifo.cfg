CONSTANTS
    main = main
    acceptor = acceptor
    s1 = s1
    s2 = s2
    s3 = s3
    m1 = m1
    m2 = m2
    Producers <- RoomProducers
    Consumers <- TwoConsumers
    Clearers  <- MainClears
    Msgs      <- TwoMsgs
    MAXSIZE   = 7
SPECIFICATION FairSpec
INVARIANTS
    TypeOK
    FullQueueKeepsSendersAwake
    NoStrandedMessage
PROPERTY ImplementsFifo
