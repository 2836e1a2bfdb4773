------------------------------ MODULE MC_CCLoop ------------------------------
(* Model-checking instance of CCLoop: two message ids, so a turn can hold  *)
(* two assistant messages and an id can come back after a user event.    *)
EXTENDS CCLoop

CONSTANTS m1, m2

MCMsgIds == {m1, m2}
====
