\* Four commands: enough for MULTI, an unsupported command, EXEC and a
\* command after it, with no password to spend one on AUTH.
CONSTANTS
    MaxCmds = 4
    NKeys = 2
    NServers = 2
    PasswordSet = FALSE
    ClientCmds <- TxCmds
SPECIFICATION Spec
INVARIANT TxErrorScoped
\* A session can hang (MCSession_hang.cfg), a real end of this program.
CHECK_DEADLOCK FALSE
