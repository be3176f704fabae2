SPECIFICATION FairSpec
CONSTANTS
    Conn <- MCConn
    Upstream = "up"
    Traffic <- MCTraffic
    TsMod = 4
    Names <- MCNames
    FirstTx = 10
    InitialSize = 1
    Watched = 2
INVARIANTS
    TypeOK
    HandledInOrder
    SubscribersAgree
    MetadataAgrees
    RelayKeepsMedia
PROPERTIES
    SizeInForce
    CallsReturn
    PingsAnswered
CHECK_DEADLOCK FALSE
