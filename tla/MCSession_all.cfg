CONSTANTS
    MaxCmds = 3
    NKeys = 2
    NServers = 2
    PasswordSet = TRUE
    ClientCmds <- AllCmds
SPECIFICATION Spec
INVARIANT TypeOK
INVARIANT RepliesInOrder
INVARIANT WaitGroupCountsPending
\* A session can hang (see MCSession_hang.cfg): the stuck state is a real
\* end of this program, not an artefact of the model.
CHECK_DEADLOCK FALSE
