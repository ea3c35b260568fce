SPECIFICATION Spec
CONSTANTS
    MaxServerSends = 1
    MaxClientSends = 1
INVARIANT CreatedIsConnected
CHECK_DEADLOCK FALSE
