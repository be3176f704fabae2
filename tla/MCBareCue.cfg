SPECIFICATION Spec
CONSTANTS
    Conn <- MCConn
    Upstream = "up"
    Traffic <- BareCue
    TsMod = 4
    Names <- MCNames
    FirstTx = 10
    InitialSize = 1
    Watched = 2
INVARIANT SubscribersAgree
CHECK_DEADLOCK FALSE
