CONSTANTS
    MaxCmds = 2
    NKeys = 2
    NServers = 2
    PasswordSet = FALSE
    ClientCmds <- SingleKeyCmds
SPECIFICATION Spec
INVARIANT BackendErrorKeepsSession
