SPECIFICATION Spec
CONSTANTS
    BUF_MAX = 4
    RESP_SIZE = 15
    LogText = {"quoted"}
    MaxChains = 2
    MaxWritten = 5
    MaxResets = 1
INVARIANTS
    HoldsLatest
    ShownInOrder
    ResponseFits
PROPERTY
    CatchesUp
