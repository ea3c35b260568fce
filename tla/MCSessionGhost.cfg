CONSTANTS
    MaxClients = 2
    MaxConnections = 2
    MaxGamePackets = 2
SPECIFICATION SessionSpec
PROPERTY
    RemovedIsGone
CHECK_DEADLOCK FALSE
