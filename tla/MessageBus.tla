----------------------------- MODULE MessageBus -----------------------------
(***************************************************************************)
(* Recording and fan-out of one conversation's messages.                   *)
(*                                                                         *)
(* A writer records a message with DB.CreateMessage (src/db/db.go): inside *)
(* a write transaction of the pool's single writer connection it reads     *)
(* GetNextSequenceID and inserts the row.  The record is then published on *)
(* the conversation's SubPub topic under its sequence id.  Two kinds of    *)
(* writer exist:                                                           *)
(*   - Runners: ClaudeCodeRunner.run (src/unnamed/part_003), which calls   *)
(*     CreateMessage, reads the conversation, and publishes after the      *)
(*     transaction has returned;                                           *)
(*   - Recorders: the conversation manager's recordMessage callback, which *)
(*     the spec (4.4, 5) has publish before the write scope returns.       *)
(* Viewers are SubPub subscribers (SSE streams) with a cursor, a bounded   *)
(* buffer, eviction when the buffer is full, and cancellation.             *)
(***************************************************************************)
EXTENDS Naturals, Sequences, SequencesExt

CONSTANTS
    Runners,       \* concurrent ClaudeCodeRunner.run calls on the conversation
    Recorders,     \* concurrent recordMessage callers on the conversation
    Viewers,       \* SSE subscribers
    MsgsPerWriter, \* messages each writer records
    BufCap,        \* SubPub per-subscriber buffer (10 in the code)
    None

Writers == Runners \cup Recorders

ASSUME Runners \cap Recorders = {} /\ BufCap \in Nat \ {0} /\ MsgsPerWriter \in Nat

VARIABLES
    stored,   \* sequence_ids of the rows in insertion order
    writer,   \* holder of the pool's writer connection, or None
    pc,       \* writer control state
    nextSeq,  \* sequence id read by each writer inside its transaction
    sent,     \* messages each writer has recorded
    sub,      \* "none", "attached", "evicted" or "closed" per viewer
    cursor,   \* SubPub's last-delivered index per subscriber
    buf,      \* SubPub's buffered channel per subscriber
    start,    \* index the viewer subscribed from
    recv,     \* what the viewer has pulled, in order
    by        \* history: the writer of each sequence id

vars == <<stored, writer, pc, nextSeq, sent, sub, cursor, buf, start, recv, by>>

-----------------------------------------------------------------------------
(* GetNextSequenceID: max(sequence_id) + 1, or 1 for an empty conversation. *)
MaxSeq(s) == IF s = <<>> THEN 0 ELSE Max(ToSet(s))
NextSequenceID == MaxSeq(stored) + 1

(* db.pool.Tx: the writer connection is exclusive. *)
BeginTxNoLock(p) ==
    /\ pc[p] = "idle" /\ sent[p] < MsgsPerWriter
    /\ writer' = p   \* mutant: no mutual exclusion
    /\ pc' = [pc EXCEPT ![p] = "seq"]
    /\ UNCHANGED <<by, stored, nextSeq, sent, sub, cursor, buf, start, recv>>

BeginTx(p) ==
    /\ pc[p] = "idle" /\ sent[p] < MsgsPerWriter
    /\ writer = None
    /\ writer' = p
    /\ pc' = [pc EXCEPT ![p] = "seq"]
    /\ UNCHANGED <<by, stored, nextSeq, sent, sub, cursor, buf, start, recv>>

(* q.GetNextSequenceID inside the transaction. *)
ReadSeq(p) ==
    /\ pc[p] = "seq"
    /\ nextSeq' = [nextSeq EXCEPT ![p] = NextSequenceID]
    /\ pc' = [pc EXCEPT ![p] = "insert"]
    /\ UNCHANGED <<by, stored, writer, sent, sub, cursor, buf, start, recv>>

(* q.CreateMessage and commit.  A Runner's CreateMessage returns and frees *)
(* the writer; a Recorder still holds its write scope while it publishes.  *)
InsertReleasing(p) ==   \* mutant: every writer leaves the scope before publishing
    /\ pc[p] = "insert"
    /\ stored' = Append(stored, nextSeq[p])
    /\ by' = by @@ (nextSeq[p] :> p)
    /\ writer' = None
    /\ pc' = [pc EXCEPT ![p] = "publish"]
    /\ UNCHANGED <<nextSeq, sent, sub, cursor, buf, start, recv>>

Insert(p) ==
    /\ pc[p] = "insert"
    /\ stored' = Append(stored, nextSeq[p])
    /\ by' = by @@ (nextSeq[p] :> p)
    /\ writer' = IF p \in Runners THEN None ELSE writer
    /\ pc' = [pc EXCEPT ![p] = "publish"]
    /\ UNCHANGED <<nextSeq, sent, sub, cursor, buf, start, recv>>

(* SubPub.Publish(idx, msg): every attached subscriber whose cursor is     *)
(* below idx gets msg and its cursor moves to idx; one whose buffer is     *)
(* full is disconnected instead.                                           *)
Wants(v, n) == sub[v] = "attached" /\ cursor[v] < n

DeliverOffByOne(n) ==   \* mutant: the channel is treated as one slot larger
    /\ sub' = [v \in Viewers |->
                 IF Wants(v, n) /\ Len(buf[v]) > BufCap THEN "evicted" ELSE sub[v]]
    /\ buf' = [v \in Viewers |->
                 IF Wants(v, n) /\ Len(buf[v]) <= BufCap THEN Append(buf[v], n) ELSE buf[v]]
    /\ cursor' = [v \in Viewers |-> IF Wants(v, n) THEN n ELSE cursor[v]]

Deliver(n) ==
    /\ sub' = [v \in Viewers |->
                 IF Wants(v, n) /\ Len(buf[v]) = BufCap THEN "evicted" ELSE sub[v]]
    /\ buf' = [v \in Viewers |->
                 IF Wants(v, n) /\ Len(buf[v]) < BufCap THEN Append(buf[v], n) ELSE buf[v]]
    /\ cursor' = [v \in Viewers |-> IF Wants(v, n) THEN n ELSE cursor[v]]

(* Runner: after CreateMessage returned without error, read the           *)
(* conversation and publish the created message's sequence id.             *)
RunnerPublish(r) ==
    /\ r \in Runners /\ pc[r] = "publish"
    /\ Deliver(nextSeq[r])
    /\ pc' = [pc EXCEPT ![r] = "idle"]
    /\ sent' = [sent EXCEPT ![r] = @ + 1]
    /\ UNCHANGED <<by, stored, writer, nextSeq, start, recv>>

(* Recorder: publish, then leave the write scope. *)
RecorderPublish(w) ==
    /\ w \in Recorders /\ pc[w] = "publish"
    /\ Deliver(nextSeq[w])
    /\ writer' = IF writer = w THEN None ELSE writer
    /\ pc' = [pc EXCEPT ![w] = "idle"]
    /\ sent' = [sent EXCEPT ![w] = @ + 1]
    /\ UNCHANGED <<by, stored, nextSeq, start, recv>>

(* SubPub.Subscribe(ctx, idx): the viewer resumes from the last sequence   *)
(* id it has, here everything persisted so far.                            *)
Subscribe(v) ==
    /\ sub[v] = "none"
    /\ sub' = [sub EXCEPT ![v] = "attached"]
    /\ cursor' = [cursor EXCEPT ![v] = MaxSeq(stored)]
    /\ start' = [start EXCEPT ![v] = MaxSeq(stored)]
    /\ UNCHANGED <<by, stored, writer, pc, nextSeq, sent, buf, recv>>

(* next(): a buffered message is returned even after disconnection. *)
Pull(v) ==
    /\ sub[v] \in {"attached", "evicted"} /\ buf[v] # <<>>
    /\ recv' = [recv EXCEPT ![v] = Append(@, Head(buf[v]))]
    /\ buf' = [buf EXCEPT ![v] = Tail(@)]
    /\ UNCHANGED <<by, stored, writer, pc, nextSeq, sent, sub, cursor, start>>

(* The viewer's context is cancelled: next() returns ok=false. *)
Cancel(v) ==
    /\ sub[v] = "attached"
    /\ sub' = [sub EXCEPT ![v] = "closed"]
    /\ buf' = [buf EXCEPT ![v] = <<>>]
    /\ UNCHANGED <<by, stored, writer, pc, nextSeq, sent, cursor, start, recv>>

-----------------------------------------------------------------------------
Init ==
    /\ stored = <<>>
    /\ writer = None
    /\ pc = [p \in Writers |-> "idle"]
    /\ nextSeq = [p \in Writers |-> 0]
    /\ sent = [p \in Writers |-> 0]
    /\ sub = [v \in Viewers |-> "none"]
    /\ cursor = [v \in Viewers |-> 0]
    /\ buf = [v \in Viewers |-> <<>>]
    /\ start = [v \in Viewers |-> 0]
    /\ recv = [v \in Viewers |-> <<>>]
    /\ by = <<>>

Next ==
    \/ \E p \in Writers : BeginTx(p) \/ ReadSeq(p) \/ Insert(p)
    \/ \E r \in Runners : RunnerPublish(r)
    \/ \E w \in Recorders : RecorderPublish(w)
    \/ \E v \in Viewers : Subscribe(v) \/ Pull(v) \/ Cancel(v)

Spec == Init /\ [][Next]_vars

-----------------------------------------------------------------------------
TypeOK ==
    /\ stored \in Seq(Nat)
    /\ writer \in Writers \cup {None}
    /\ pc \in [Writers -> {"idle", "seq", "insert", "publish"}]
    /\ nextSeq \in [Writers -> Nat]
    /\ sent \in [Writers -> 0..MsgsPerWriter]
    /\ sub \in [Viewers -> {"none", "attached", "evicted", "closed"}]
    /\ cursor \in [Viewers -> Nat] /\ start \in [Viewers -> Nat]
    /\ buf \in [Viewers -> Seq(Nat)] /\ \A v \in Viewers : Len(buf[v]) <= BufCap
    /\ recv \in [Viewers -> Seq(Nat)]
    /\ by \in [ToSet(stored) -> Writers]

StrictlyIncreasing(s) == \A i \in 1..Len(s) - 1 : s[i] < s[i + 1]

Quiescent == \A p \in Writers : pc[p] = "idle" /\ sent[p] = MsgsPerWriter

(* CreateMessage assigns sequence ids that strictly increase in the order  *)
(* the rows are inserted, so no two messages of the conversation share     *)
(* one, whatever the writers' interleaving (spec 8.1).                      *)
SeqStrictlyIncreasing == StrictlyIncreasing(stored)

Recorded(q) == SelectSeq(q, LAMBDA n : by[n] \in Recorders)

(* Whatever the runners do, a message written by the conversation         *)
(* manager's recordMessage, which publishes before leaving its write       *)
(* scope, reaches every viewer still attached once the writers are done:  *)
(* each one after its resume point, in sequence order (spec 4.4, 5).      *)
NoRecordedMessageLost ==
    Quiescent =>
        \A v \in Viewers : sub[v] = "attached" =>
            Recorded(recv[v] \o buf[v]) = Recorded(SelectSeq(stored, LAMBDA n : n > start[v]))

(* Once every writer has finished, a viewer still attached has been handed *)
(* every persisted message after the point it subscribed from, in order:   *)
(* nothing recorded is lost to a live stream (spec 4.2, 5, 8.3).            *)
NoLostMessage ==
    Quiescent =>
        \A v \in Viewers : sub[v] = "attached" =>
            recv[v] \o buf[v] = SelectSeq(stored, LAMBDA n : n > start[v])

====
