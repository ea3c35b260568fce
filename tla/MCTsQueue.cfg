CONSTANTS
    Producers = {"io", "io2"}
    Numbers = 4
    MaxQueue = 3
SPECIFICATION LiveSpec
INVARIANTS
    TypeOK
    PopsFromNonEmpty
PROPERTIES
    IsFifo
    PushReturns
    NextPushRepairs
    NextPacketStops
CHECK_DEADLOCK FALSE
