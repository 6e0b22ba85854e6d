CONSTANTS
    MaxCmds = 3
    NKeys = 2
    NServers = 2
    PasswordSet = FALSE
    ClientCmds <- AllCmds
SPECIFICATION FairSpec
PROPERTY SessionTerminates
CHECK_DEADLOCK FALSE
