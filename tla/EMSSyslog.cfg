SPECIFICATION Spec
CONSTANTS
    Streams <- MCStreams
INVARIANTS
    TypeOK
    OnlySent
    BoundedLoss
PROPERTIES
    KeepsListening
CHECK_DEADLOCK FALSE
