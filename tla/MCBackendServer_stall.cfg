CONSTANTS
    MaxReqs = 2
    MaxFaults = 1
    BackendCanStall = TRUE
SPECIFICATION FairSpec
PROPERTY RequestReturns
CHECK_DEADLOCK FALSE
