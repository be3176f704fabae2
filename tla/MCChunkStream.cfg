SPECIFICATION FairSpec
CONSTANTS
    Csid = {2, 4, 5}
    Byte <- MCByte
    Traffic <- MCTraffic
    SizeIn <- MCSizeIn
    TsMod = 8
    ExtMark = 3
    LenMod = 8
    MaxChunkSize = 3
    DefaultChunkSize = 2
    Interleaving = TRUE
    ReadTimeouts = TRUE
    Idle = Idle
    MaxMessages = 3
INVARIANTS
    TypeOK
    DeliveredInOrder
    WireLeadsToWriter
PROPERTIES
    OnlyTimeoutsTear
    PipeSpec
    EventuallyDelivered
CHECK_DEADLOCK FALSE
