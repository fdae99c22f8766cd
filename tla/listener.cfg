SPECIFICATION FairSpec
CONSTANTS
    c1 = c1
    u1 = u1
    u2 = u2
    s1 = s1
    s2 = s2
    s3 = s3
    NoSock = NoSock
    Nobody = Nobody
    Conn <- MCConn
    Chunks <- MCChunks
    Client <- MCClient
    Sock <- MCSock
    Forwards <- MCForwards
    Idle = 1
INVARIANTS
    CountsGoroutines
    StoppedIsDrained
    SessionsOwnSockets
    LostOnlyToStall
    HonestEof
PROPERTIES
    StopReturns
    SilentSessionsEnd
    FinPassedOn
    ActsAsPipe
CHECK_DEADLOCK FALSE
