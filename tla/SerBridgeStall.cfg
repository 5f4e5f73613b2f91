\* espconn_sent may refuse a buffer, once.
SPECIFICATION Spec
CONSTANTS
    c1 = c1
    c2 = c1
    c3 = c1
    Conns <- MCConns
    NULL = NULL
    MAX_CONN = 1
    MAX_TXBUFFER = 2
    Lens = {1}
    Packets = {}
    MaxIn = 3
    MaxOpens = 1
PROPERTY
    BroadcastReaches
CHECK_DEADLOCK FALSE
