CONSTANTS
    t1 = t1
    t2 = t2
    m1 = m1
    m2 = m2
    None = None
    ToolIds <- MCToolIds
    MsgIds <- MCMsgIds
    HasBridge = TRUE
    MaxEvents = 6

SPECIFICATION Spec

\* processStream returns after the end of the stream: the final state has no successor.
CHECK_DEADLOCK FALSE


PROPERTY MergeRefinement
INVARIANT SubReassembly
