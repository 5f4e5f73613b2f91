SPECIFICATION WifiSpec
CONSTANTS
    Home = Home
    Other = Other
    Networks <- MCNetworks
    MaxRequests = 3
    MaxEvents = 1
INVARIANTS
    UartLogHonoured
    ChangesApplied
PROPERTIES
    FailSafe
    ScanEnds
CHECK_DEADLOCK FALSE
