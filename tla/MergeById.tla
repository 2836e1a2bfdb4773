------------------------------ MODULE MergeById ------------------------------
(***************************************************************************)
(* What the stream adapter promises (spec 4.6): the messages it records    *)
(* for a stream are the stream's events grouped by message: consecutive    *)
(* events with the same key (an assistant event's message.id, or "user"   *)
(* for a user event) form one message holding their blocks in order.  A    *)
(* message is recorded once the next one has begun, and the open one is    *)
(* recorded when the stream ends.  No event is lost, split or reordered.  *)
(***************************************************************************)
EXTENDS Grouping

CONSTANT Events     \* [key, role, blocks] records the stream can carry

VARIABLES
    seen,    \* the events read so far
    log,     \* the messages recorded so far, as [role, blocks]
    closed   \* the stream has ended

Init == seen = <<>> /\ log = <<>> /\ closed = FALSE

Read(e) ==
    /\ ~closed
    /\ seen' = Append(seen, e)
    /\ log' = Committed(seen')
    /\ UNCHANGED closed

Close ==
    /\ ~closed
    /\ closed' = TRUE
    /\ log' = Reassembled(seen)
    /\ UNCHANGED seen

Next == (\E e \in Events : Read(e)) \/ Close

Spec == Init /\ [][Next]_<<seen, log, closed>>
====
