SPECIFICATION FairSpec
CONSTANTS
    ModExEscape = 4
    TimeMod = 8
    ProbeLimit = 2
    Menus <- MCMenus
    Scenes <- MCScenes
    Names = {"", "live", "other"}
INVARIANTS
    TypeOK
    PacketsAsSent
PROPERTIES
    StreamsSettled
    OpenReturns
    AllDelivered
CHECK_DEADLOCK FALSE
