SPECIFICATION Spec
CONSTANTS
    MaxEdits = 5
    MaxFaults = 4
INVARIANTS
    TypeOK
PROPERTIES
    OneFaultTolerated
    ImplementsCell
