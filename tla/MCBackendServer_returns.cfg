CONSTANTS
    MaxReqs = 4
    MaxFaults = 2
    BackendCanStall = FALSE
SPECIFICATION FairSpec
PROPERTY RequestReturns
CHECK_DEADLOCK FALSE
