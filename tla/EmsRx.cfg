SPECIFICATION Spec
CONSTANTS
    serbridgeUartCb = serbridgeUartCb
    Callbacks <- MCCallbacks
    NULL = NULL
    Garbage = Garbage
    EMS_MAXBUFFERS = 3
    EMS_MAXBUFFERSIZE = 4
    RecvTaskQueueLen = 2
    MAX_CB = 2
    FifoSize = 2
    MaxLen = 2
    MaxTel = 4
INVARIANTS
    TypeOK
    IrqFits
    HeaderMatchesBody
    WholeInOrder
PROPERTIES
    TransmittedBufferStable
    AllDelivered
CHECK_DEADLOCK FALSE
