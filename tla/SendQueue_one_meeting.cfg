CONSTANTS
    main = main
    acceptor = acceptor
    s1 = s1
    s2 = s2
    s3 = s3
    m1 = m1
    m2 = m2
    Producers <- RoomProducers
    Consumers <- RoomConsumers
    Clearers  <- NobodyClears
    Msgs      <- OneMsg
    MAXSIZE   = 9
SPECIFICATION Spec
SYMMETRY SenderSymmetry
INVARIANTS
    NoStrandedProducer
    NoMixedWaiters
