------------------------------ MODULE Grouping ------------------------------
(***************************************************************************)
(* The reference merge of stream events into messages (spec 4.6): an event *)
(* is [key, role, blocks], where key is an assistant event's message.id    *)
(* or "user" for a user event; consecutive events with the same key form   *)
(* one message holding their blocks in arrival order.                      *)
(***************************************************************************)
EXTENDS Sequences, SequencesExt

RECURSIVE Grouped(_)
Grouped(evs) ==
    IF evs = <<>> THEN <<>>
    ELSE LET g == Grouped(Front(evs))
             e == Last(evs)
         IN IF g # <<>> /\ Last(g).key = e.key
            THEN [g EXCEPT ![Len(g)].blocks = @ \o e.blocks]
            ELSE Append(g, e)

\* The grouping as messages [role, blocks].
Reassembled(evs) ==
    LET g == Grouped(evs)
    IN [i \in DOMAIN g |-> [role |-> g[i].role, blocks |-> g[i].blocks]]

\* Every message but the last, which the next event may still extend.
Committed(evs) == IF evs = <<>> THEN <<>> ELSE Front(Reassembled(evs))
====
