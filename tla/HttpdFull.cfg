SPECIFICATION Spec
CONSTANTS
    p1 = p1
    p2 = p2
    p3 = p3
    Clients <- MCTwoClients
    Requests <- MCFullRequests
    Unreliable = {}
    FlashFaults = {}
    FileLen <- MCFileLen
    NULL = NULL
    Factory = Factory
    MAX_CONN = 2
    MAX_HEAD_LEN = 3
    BYTE = 3
    MAX_POST = 2
    READ_LEN = 2
    FIRMWARE_SIZE = 8
    SPI_FLASH_SEC_SIZE = 4
PROPERTIES
    EveryAnswerEnds
