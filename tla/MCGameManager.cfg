SPECIFICATION LiveSpec
CONSTANTS
    MaxLevels = 2
    MaxCloses = 1
    FullyAtMenu = {TRUE, FALSE}
INVARIANTS
    TypeOK
    OffOutsideLevels
    FreshPointers
    PlayersRebuiltUnread
    LevelIsAnnounced
PROPERTY CatchesUp
CHECK_DEADLOCK FALSE
