--------------------------- MODULE MC_SubagentWait ---------------------------
EXTENDS SubagentWait

CONSTANTS c1, c2

MCCalls == {c1, c2}
====
