CONSTANTS
    Me = 1
    Peers = {2, 3}
    MaxPackets = 4
SPECIFICATION Spec
CONSTRAINT OneAtATime
PROPERTY
    IndexIsTheClients
CHECK_DEADLOCK FALSE
