CONSTANTS
    m1 = m1
    m2 = m2
    None = None
    MsgIds <- MCMsgIds
    QueueCap = 1
    MaxMsgs = 2
    MaxRestarts = 1
    MaxEvents = 3
    CliBlocksOnPipe = FALSE

SPECIFICATION Spec

\* Go waits on msgChan once every message is handled.
CHECK_DEADLOCK FALSE
INVARIANT NeverPanics
