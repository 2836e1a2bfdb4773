---------------------------- MODULE MC_ConvStore ----------------------------
EXTENDS ConvStore

CONSTANTS p, t1, c1, c2, c3

\* A DSN with no query, one whose query does not name _foreign_keys, and
\* one that turns them on itself.
MCDSNs == {[query |-> FALSE, fk |-> "absent"],
           [query |-> TRUE,  fk |-> "absent"],
           [query |-> TRUE,  fk |-> "on"]}
MCCallers == {c1, c2, c3}
\* c3's own slug is what c1 or c2 get on their first retry.
MCBase == (c1 :> "run-tests" @@ c2 :> "run-tests" @@ c3 :> "run-tests-1")
====
