\* One ClaudeCodeRunner.run and two recordMessage callers on the same
\* conversation, two viewers, a SubPub buffer of one message.
CONSTANTS
    r1 = r1
    w1 = w1
    w2 = w2
    w3 = w3
    v1 = v1
    v2 = v2
    None = None
    Runners = {r1}
    Recorders = {w1, w2}
    Viewers <- MCViewers
    MsgsPerWriter = 2
    BufCap = 1

SYMMETRY ViewerSymmetry

SPECIFICATION Spec

\* Every writer stops after MsgsPerWriter messages and viewers stop pulling.
CHECK_DEADLOCK FALSE

INVARIANT TypeOK
INVARIANT SeqStrictlyIncreasing
INVARIANT NoRecordedMessageLost
