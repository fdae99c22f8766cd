SPECIFICATION FairSpec
CONSTANTS
    c1 = c1
    c2 = c2
    h1 = h1
    h2 = h2
    extra = extra
    NoName = NoName
    MainPort = MainPort
    HTTPPort = HTTPPort
    Conn <- MCConn
    Chunks <- MCChunks
    Host <- MCHost
    Segment <- MCSegment
    Path <- MCPath
    Scenes <- MCScenes
    MaxEdits = 1
INVARIANTS
    LimitHolds
    LongestPrefixWins
    PathsWellJoined
    AcceptedIsServed
    StoppedPortIsFree
    InOrder
PROPERTIES
    WaitersLeave
    ConnectionsDecided
CHECK_DEADLOCK FALSE
