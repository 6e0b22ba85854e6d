CONSTANTS
    MaxReqs = 4
    MaxFaults = 2
    BackendCanStall = TRUE
SPECIFICATION Spec
PROPERTY ImplementsContract
CHECK_DEADLOCK FALSE
