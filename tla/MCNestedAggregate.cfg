SPECIFICATION Spec
CONSTANTS
    Conn <- MCConn
    Upstream = "up"
    Traffic <- Nested
    TsMod = 4
    Names <- MCNames
    FirstTx = 10
    InitialSize = 1
    Watched = 2
INVARIANT HandledInOrder
CHECK_DEADLOCK FALSE
