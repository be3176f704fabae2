SPECIFICATION Spec
CONSTANTS
    ModExEscape = 4
    MaxDepth = 4
    MaxMask = 300
    ShortMax = 4
    MaxSize = 70
    TimeLow = 16
    Menus <- MCMenus
    Entries <- RecordedEntries
    ReadScript <- ScriptOf
    Sayable <- ScriptSayable
    Scenes <- MCScenes
INVARIANTS
    TypeOK
    ReadsBack
    ScriptKept
CHECK_DEADLOCK FALSE
