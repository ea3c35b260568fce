SPECIFICATION LiveSpec
CONSTANTS
    MaxServerSends = 2
    MaxClientSends = 1
INVARIANTS
    TypeOK
    ReaderInStep
    PacketsWrittenOneByOne
PROPERTIES
    PacketsArriveInOrder
    SentIsDelivered
CHECK_DEADLOCK FALSE
