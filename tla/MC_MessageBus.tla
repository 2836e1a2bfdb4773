---------------------------- MODULE MC_MessageBus ----------------------------
(* Model-checking instance of MessageBus for one conversation.             *)
EXTENDS MessageBus, TLC

CONSTANTS r1, w1, w2, w3, v1, v2

MCViewers == {v1, v2}
ViewerSymmetry == Permutations(MCViewers)
====
