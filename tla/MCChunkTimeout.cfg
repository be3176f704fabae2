SPECIFICATION Spec
CONSTANTS
    Csid = {2, 4, 5}
    Byte <- MCByte
    Traffic <- MCTraffic
    SizeIn <- MCSizeIn
    TsMod = 8
    ExtMark = 3
    LenMod = 8
    MaxChunkSize = 3
    DefaultChunkSize = 2
    Interleaving = FALSE
    ReadTimeouts = TRUE
    Idle = Idle
    MaxMessages = 3
INVARIANTS
    FramingAgrees
CHECK_DEADLOCK FALSE
