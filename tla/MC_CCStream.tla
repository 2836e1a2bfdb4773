----------------------------- MODULE MC_CCStream -----------------------------
(* Model-checking instance of CCStream: two Task-capable tool ids so two   *)
(* sub-agents can run in parallel, two message ids so merging and          *)
(* splitting both happen, and a bridge that may fail.                     *)
EXTENDS CCStream

CONSTANTS t1, t2, m1, m2

MCToolIds == {t1, t2}
MCMsgIds == {m1, m2}
====
