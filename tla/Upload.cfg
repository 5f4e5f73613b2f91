SPECIFICATION Spec
CONSTANTS
    p1 = p1
    p2 = p2
    p3 = p3
    Clients <- MCTwoClients
    Requests <- MCUploads
    Unreliable = {}
    FlashFaults = {"erase", "write"}
    FileLen <- MCFileLen
    NULL = NULL
    Factory = Factory
    MAX_CONN = 2
    MAX_HEAD_LEN = 3
    BYTE = 3
    MAX_POST = 1
    READ_LEN = 2
    FIRMWARE_SIZE = 4
    SPI_FLASH_SEC_SIZE = 2
INVARIANTS
    ImageIntact
PROPERTIES
    RunningUntouched
    BootsFirmware
CONSTRAINTS
    WholeImageRuns
