SPECIFICATION FairSpec
CONSTANTS
    MaxSends = 2
    MaxReplies = 2
INVARIANTS
    TypeOK
    NothingLost
    ResetsExplained
PROPERTIES
    DrainsMeet
    EndIsSeen
CHECK_DEADLOCK FALSE
