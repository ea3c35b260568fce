CONSTANTS
    Producers = {"io"}
    Numbers = 2
    MaxQueue = 2
SPECIFICATION LiveSpec
PROPERTY QueuedIsHandled
CHECK_DEADLOCK FALSE
