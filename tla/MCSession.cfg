CONSTANTS
    MaxClients = 2
    MaxConnections = 2
    MaxGamePackets = 1
SPECIFICATION SessionLiveSpec
INVARIANTS
    TypeOK
    NoSelfPeer
    EverybodyKnown
    NeverToldOwnRemoval
    NoEcho
    NoGhostPlayer
    ListedOnce
PROPERTIES
    OldestGarbageNotified
    ClientsGetToPlay
CHECK_DEADLOCK FALSE
