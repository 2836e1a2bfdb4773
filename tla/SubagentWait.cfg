\* Two waiting RunSubagent calls on one child conversation, two polls each.
CONSTANTS
    c1 = c1
    c2 = c2
    None = None
    Calls <- MCCalls
    MaxPolls = 2
SPECIFICATION Spec
\* Every call returns and the loop drains its channel.
CHECK_DEADLOCK FALSE
INVARIANT AnswerIsOwnReply
