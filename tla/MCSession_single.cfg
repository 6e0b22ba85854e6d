CONSTANTS
    MaxCmds = 3
    NKeys = 2
    NServers = 2
    PasswordSet = TRUE
    ClientCmds <- SingleKeyCmds
SPECIFICATION FairSpec
PROPERTY SessionTerminates
