CONSTANTS
    Me = 1
    Peers = {2}
    MaxPackets = 3
SPECIFICATION LiveSpec
INVARIANTS
    TypeOK
    EventsKept
    SentWithOwnId
    QuitIsClean
PROPERTIES
    SnapshotsNeverGoBack
    QuitReturns
CHECK_DEADLOCK FALSE
