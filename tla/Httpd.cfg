SPECIFICATION Spec
CONSTANTS
    p1 = p1
    p2 = p2
    p3 = p3
    Clients <- MCClients
    Requests <- MCRequests
    Unreliable = {p2}
    FlashFaults = {}
    FileLen <- MCFileLen
    NULL = NULL
    Factory = Factory
    MAX_CONN = 2
    MAX_HEAD_LEN = 2
    BYTE = 2
    MAX_POST = 1
    READ_LEN = 2
    FIRMWARE_SIZE = 8
    SPI_FLASH_SEC_SIZE = 4
INVARIANTS
    TypeOK
    SlotOwnership
    HeapAccounted
    AnswerInOrder
    CompleteWhenClosed
    OneSendAtATime
CONSTRAINTS
    LeakBound
