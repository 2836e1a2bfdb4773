\* One parent with three concurrent get-or-create callers (two asking for
\* the same slug, one for the other two's first suffix), children with
\* either slug possibly there already, one top-level conversation to
\* create, two messages and two attempts; every DSN form New completes.
CONSTANTS
    p = p
    t1 = t1
    c1 = c1
    c2 = c2
    c3 = c3
    None = None
    Parent = p
    TopIds = {t1}
    DSNs <- MCDSNs
    Callers <- MCCallers
    Base <- MCBase
    PreSlugs = {"run-tests", "run-tests-1"}
    MaxAttempts = 2
    MaxMsgs = 2
SPECIFICATION Spec
\* Every caller returns and the message bound is reached.
CHECK_DEADLOCK FALSE
INVARIANT ReferentialIntegrity
INVARIANT DeleteAllOrNothing
INVARIANT ReturnedSlugResolves
