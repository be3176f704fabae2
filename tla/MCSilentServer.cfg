SPECIFICATION FairSpec
CONSTANTS
    c1 = c1
    c2 = c2
    Conn <- OneConn
    Options <- OnePublisher
    Apis = {"serve_sessions"}
    ForeignTails <- Silent
    PublishTries = 3
    PlayTries = 4
    ForeignErrors = FALSE
    Hangs = FALSE
PROPERTIES
    ConnectReturns
CHECK_DEADLOCK FALSE
