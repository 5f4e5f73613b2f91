SPECIFICATION Spec
CONSTANTS
    c1 = c1
    c2 = c2
    c3 = c3
    Conns <- MCConns
    NULL = NULL
    MAX_CONN = 2
    MAX_TXBUFFER = 2
    Lens = {1, 2}
    Packets <- MCPackets
    MaxIn = 3
    MaxOpens = 3
INVARIANTS
    TypeOK
    SlotOwnership
    BroadcastExact
    ReceivedAlone
PROPERTIES
    OneSendAtATime
    Drained
CHECK_DEADLOCK FALSE
