SPECIFICATION FairSpec
CONSTANTS
    c1 = c1
    c2 = c2
    Conn <- MCConn
    Options <- MCOptions
    Apis = {"accept", "serve_sessions"}
    ForeignTails <- Chatty
    PublishTries = 3
    PlayTries = 4
    ForeignErrors = TRUE
    Hangs = TRUE
INVARIANTS
    TypeOK
    StreamIdAllocated
    EndsAgree
    ReadyForMedia
PROPERTIES
    HandoverSpec
    ConnectReturns
    ServerSettles
CHECK_DEADLOCK FALSE
