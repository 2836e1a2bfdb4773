------------------------------ MODULE CCStream ------------------------------
(***************************************************************************)
(* The Claude Code stream adapter: claudeCodeLoop.processStream            *)
(* (src/unnamed/part_002, lines 181-517).  It reads the CLI's stream-json  *)
(* lines, merges assistant events that share a message id, records the     *)
(* reassembled messages into the parent conversation through               *)
(* recordMessage, and routes events carrying a parent_tool_use_id into a   *)
(* child conversation opened on first use through ccSubagentBridge.        *)
(*                                                                         *)
(* Data is abstracted to what the reassembly tells apart: a content block  *)
(* is its kind and, for tool blocks, its tool_use id; every event carries  *)
(* one block (the CLI emits one content block per stream event).  Text and *)
(* thinking blocks are handled by identical code and are both "text" here. *)
(* The environment emits only what the CLI can emit: a tool_use id once, a *)
(* tool_result only for an emitted tool_use, and sub-agent events for a    *)
(* Task only between its tool_use and its tool_result.                     *)
(***************************************************************************)
EXTENDS Naturals, Sequences, SequencesExt

CONSTANTS
    ToolIds,    \* tool_use ids the parent's assistant may emit
    MsgIds,     \* message.id values of assistant events
    None,       \* nil pointer / empty string
    HasBridge,  \* l.cm.ccSubagentBridge != nil
    MaxEvents   \* bound on the number of stream lines

ASSUME HasBridge \in BOOLEAN /\ MaxEvents \in Nat /\ None \notin ToolIds \cup MsgIds

VARIABLES
    mainLog,     \* messages recorded into the parent conversation
    curA,        \* currentAssistantMsg content, or None
    curU,        \* currentUserMsg content, or None
    curID,       \* currentMsgID
    taskInputs,  \* tool_use ids of Task invocations seen at top level
    sess,        \* subagentSessions: tool id -> [lastID, pa, pu] or None
    working,     \* agentWorking flag of each child conversation manager
    subLog,      \* messages recorded into each child conversation
    mainSeen,    \* history: top-level events in arrival order
    subSeen,     \* history: events routed to each child session
    emitted,     \* history: tool_use ids the CLI has emitted
    resulted,    \* history: tool_use ids whose tool_result was emitted
    nEvents,     \* stream lines consumed
    done         \* processStream has returned

vars == <<mainLog, curA, curU, curID, taskInputs, sess, working, subLog,
          mainSeen, subSeen, emitted, resulted, nEvents, done>>

-----------------------------------------------------------------------------
Blk(k, id, task) == [k |-> k, id |-> id, task |-> task]
Text == Blk("text", None, FALSE)
ToolUse(t, task) == Blk("tool_use", t, task)
ToolResult(t) == Blk("tool_result", t, FALSE)
Blocks == {Text} \cup {ToolUse(t, b) : t \in ToolIds \cup {None}, b \in BOOLEAN}
                 \cup {ToolResult(t) : t \in ToolIds \cup {None}}

\* flushAssistant: EndOfTurn = !hasToolUse
HasToolUse(bs) == \E i \in DOMAIN bs : bs[i].k = "tool_use"
AsstMsg(bs) == [role |-> "assistant", blocks |-> bs, eot |-> ~HasToolUse(bs)]
UserMsg(bs) == [role |-> "user", blocks |-> bs, eot |-> FALSE]
Msgs == [role : {"assistant", "user"}, blocks : Seq(Blocks), eot : BOOLEAN]

\* The records a flush produces: one message if one is pending, else none.
FlushAssistant(p) == IF p = None THEN <<>> ELSE <<AsstMsg(p)>>
FlushUser(p) == IF p = None THEN <<>> ELSE <<UserMsg(p)>>
Opened(p) == IF p = None THEN <<>> ELSE p

NoSession == None
NewSession == [lastID |-> None, pa |-> None, pu |-> None]

\* Which blocks each branch of the event switch keeps.
KeptAsst(b) == b.k \in {"text", "tool_use"}
KeptTopUser(b) == b.k = "tool_result"
KeptSubUser(b) == b.k \in {"text", "tool_result"}
Keep(b, kept) == IF kept THEN <<b>> ELSE <<>>

-----------------------------------------------------------------------------
(* Top-level assistant event: a new message starts when the id changes or  *)
(* nothing is open; starting one flushes the open assistant, then user.    *)
StartsNewTopAlways(id) == TRUE   \* mutant: message ids ignored
StartsNewTop(id) == id # curID \/ curA = None

(* Sub-agent assistant event on session s (the same rule per session).     *)
StartsNewSub(s, id) == id # s.lastID \/ s.pa = None

SubAsst(s, id, b) ==
    LET new == StartsNewSub(s, id)
    IN [s   |-> [lastID |-> id,
                 pa |-> (IF new THEN <<>> ELSE s.pa) \o Keep(b, KeptAsst(b)),
                 pu |-> IF new THEN None ELSE s.pu],
        out |-> IF new THEN FlushAssistant(s.pa) \o FlushUser(s.pu)
                       ELSE <<>>]

\* mutant: the open assistant is not flushed by a sub-agent user event
SubUserNoFlush(s, b) ==
    [s   |-> [s EXCEPT !.pu = Opened(s.pu) \o Keep(b, KeptSubUser(b))],
     out |-> <<>>]

SubUser(s, b) ==
    [s   |-> [s EXCEPT !.pa = None,
                       !.pu = Opened(s.pu) \o Keep(b, KeptSubUser(b))],
     out |-> FlushAssistant(s.pa)]

(* flushSubagentAssistant; flushSubagentUser; SetAgentWorking(false)       *)
Settle(s) ==
    [s   |-> [s EXCEPT !.pa = None, !.pu = None],
     out |-> FlushAssistant(s.pa) \o FlushUser(s.pu)]

(* A top-level user event whose tool_use_result is present settles the     *)
(* session of every tool_result it carries before anything else.           *)

SettleOnResult(b, marker) ==
    IF marker /\ b.k = "tool_result" /\ sess[b.id] # NoSession
    THEN LET r == Settle(sess[b.id]) IN
         /\ sess' = [sess EXCEPT ![b.id] = r.s]
         /\ subLog' = [subLog EXCEPT ![b.id] = @ \o r.out]
         /\ working' = [working EXCEPT ![b.id] = FALSE]
    ELSE UNCHANGED <<sess, subLog, working>>

-----------------------------------------------------------------------------
Init ==
    /\ mainLog = <<>>
    /\ curA = None /\ curU = None /\ curID = None
    /\ taskInputs = {}
    /\ sess = [t \in ToolIds |-> NoSession]
    /\ working = [t \in ToolIds |-> FALSE]
    /\ subLog = [t \in ToolIds |-> <<>>]
    /\ mainSeen = <<>>
    /\ subSeen = [t \in ToolIds |-> <<>>]
    /\ emitted = {} /\ resulted = {}
    /\ nEvents = 0
    /\ done = FALSE

Line == ~done /\ nEvents < MaxEvents /\ nEvents' = nEvents + 1 /\ done' = done

Seen(key, role, kept) == [key |-> key, role |-> role, blocks |-> kept]

(* The CLI emits each tool_use id once. *)
CliToolUse(b) ==
    emitted' = IF b.k = "tool_use" THEN emitted \cup {b.id} ELSE emitted

TopAssistant(id, b) ==
    /\ Line
    /\ b.k = "tool_use" => b.id \notin emitted
    /\ CliToolUse(b)
    /\ taskInputs' = IF b.k = "tool_use" /\ b.task THEN taskInputs \cup {b.id}
                                                   ELSE taskInputs
    /\ LET new == StartsNewTop(id) IN
       /\ mainLog' = mainLog \o (IF new THEN FlushAssistant(curA) \o FlushUser(curU)
                                        ELSE <<>>)
       /\ curA' = (IF new THEN <<>> ELSE curA) \o Keep(b, KeptAsst(b))
       /\ curU' = IF new THEN None ELSE curU
       /\ curID' = id
    /\ mainSeen' = Append(mainSeen, Seen(id, "assistant", Keep(b, KeptAsst(b))))
    /\ UNCHANGED <<sess, working, subLog, subSeen, resulted>>

TopUser(b, marker) ==
    /\ Line
    /\ b.k = "tool_result" => b.id \in emitted \ resulted
    /\ resulted' = IF b.k = "tool_result" THEN resulted \cup {b.id} ELSE resulted
    /\ SettleOnResult(b, marker)
    /\ mainLog' = mainLog \o FlushAssistant(curA)
    /\ curA' = None
    /\ curU' = Opened(curU) \o Keep(b, KeptTopUser(b))
    /\ mainSeen' = Append(mainSeen, Seen("user", "user", Keep(b, KeptTopUser(b))))
    /\ UNCHANGED <<curID, taskInputs, subSeen, emitted>>

(* getOrCreateSubagentSession: nil without a bridge, before the Task       *)
(* tool_use was seen, or when the bridge fails; the event is then dropped. *)
(* A session it creates starts with SetAgentWorking(true) on the child.   *)
SessionFor(t, bridgeOK) ==
    IF ~HasBridge THEN NoSession
    ELSE IF sess[t] # NoSession THEN sess[t]
    ELSE IF t \notin taskInputs \/ ~bridgeOK THEN NoSession
    ELSE NewSession

(* No session: the event is logged and skipped. *)
Drop(t) ==
    UNCHANGED <<sess, working, subLog, subSeen>>

ApplySub(t, r, seen) ==
    /\ sess' = [sess EXCEPT ![t] = r.s]
    /\ working' = IF sess[t] = NoSession THEN [working EXCEPT ![t] = TRUE]
                                         ELSE working
    /\ subLog' = [subLog EXCEPT ![t] = @ \o r.out]
    /\ subSeen' = [subSeen EXCEPT ![t] = Append(@, seen)]

(* The CLI runs a Task's sub-agent between its tool_use and tool_result.   *)
SubLine(t) ==
    /\ Line
    /\ t \in emitted \ resulted
    /\ UNCHANGED <<mainLog, curA, curU, curID, taskInputs, mainSeen,
                   emitted, resulted>>

SubAssistant(t, id, b, bridgeOK) ==
    /\ SubLine(t)
    /\ LET s == SessionFor(t, bridgeOK) IN
       IF s = NoSession THEN Drop(t)
       ELSE ApplySub(t, SubAsst(s, id, b), Seen(id, "assistant", Keep(b, KeptAsst(b))))

SubUserEvent(t, b, bridgeOK) ==
    /\ SubLine(t)
    /\ LET s == SessionFor(t, bridgeOK) IN
       IF s = NoSession THEN Drop(t)
       ELSE ApplySub(t, SubUser(s, b), Seen("user", "user", Keep(b, KeptSubUser(b))))

(* End of the stream (EOF, a scanner error, or the CLI killed by ctx): the *)
(* deferred function flushes the parent's open messages and settles every  *)
(* session.                                                                 *)
EndOfStream ==
    /\ ~done
    /\ done' = TRUE
    /\ mainLog' = mainLog \o FlushAssistant(curA) \o FlushUser(curU)
    /\ curA' = None
    /\ curU' = None
    /\ sess' = [t \in ToolIds |-> IF sess[t] = NoSession THEN NoSession
                                  ELSE Settle(sess[t]).s]
    /\ subLog' = [t \in ToolIds |-> subLog[t] \o
                    (IF sess[t] = NoSession THEN <<>> ELSE Settle(sess[t]).out)]
    /\ working' = [t \in ToolIds |-> IF sess[t] = NoSession THEN working[t] ELSE FALSE]
    /\ UNCHANGED <<curID, taskInputs, mainSeen, subSeen, emitted,
                   resulted, nEvents>>

TopAsstBlocks == {Text} \cup {ToolUse(t, k) : t \in ToolIds, k \in BOOLEAN}
TopUserBlocks == {Text} \cup {ToolResult(t) : t \in ToolIds}

Next ==
    \/ \E id \in MsgIds, b \in TopAsstBlocks : TopAssistant(id, b)
    \/ \E b \in TopUserBlocks, marker \in BOOLEAN : TopUser(b, marker)
    \/ \E t \in ToolIds, id \in MsgIds, b \in {Text, ToolUse(None, FALSE)}, ok \in BOOLEAN :
          SubAssistant(t, id, b, ok)
    \/ \E t \in ToolIds, b \in {Text, ToolResult(None)}, ok \in BOOLEAN :
          SubUserEvent(t, b, ok)
    \/ EndOfStream

Spec == Init /\ [][Next]_vars

-----------------------------------------------------------------------------
TypeOK ==
    /\ mainLog \in Seq(Msgs)
    /\ curA \in Seq(Blocks) \cup {None} /\ curU \in Seq(Blocks) \cup {None}
    /\ curID \in MsgIds \cup {None}
    /\ taskInputs \subseteq ToolIds
    /\ \A t \in ToolIds :
          /\ sess[t] \in {NoSession} \cup
                [lastID : MsgIds \cup {None}, pa : Seq(Blocks) \cup {None},
                 pu : Seq(Blocks) \cup {None}]
          /\ working[t] \in BOOLEAN
          /\ subLog[t] \in Seq(Msgs)
    /\ emitted \subseteq ToolIds /\ resulted \subseteq emitted
    /\ nEvents \in 0..MaxEvents /\ done \in BOOLEAN

(* The abstract merge rule of MergeById, for the parent stream: its       *)
(* events are the top-level events, its log what recordMessage received    *)
(* (EndOfTurn is a function of the blocks and is left out).                *)
Strip(l) == [i \in DOMAIN l |-> [role |-> l[i].role, blocks |-> l[i].blocks]]

SeenEvents ==
    {Seen(id, "assistant", Keep(b, KeptAsst(b))) : id \in MsgIds, b \in TopAsstBlocks}
    \cup {Seen("user", "user", Keep(b, KeptTopUser(b))) : b \in TopUserBlocks}

Merge == INSTANCE MergeById
    WITH Events <- SeenEvents, seen <- mainSeen, log <- Strip(mainLog), closed <- done

Pending(pu, pa) == FlushUser(pu) \o FlushAssistant(pa)

(* processStream implements the merge rule: every step of the parent's     *)
(* reassembly (merging an event into the open message, flushing on a new   *)
(* id or a user event, the deferred flush at EOF) is a step of MergeById,  *)
(* so the recorded messages are the grouping of the events read, none lost *)
(* split or reordered, and a message is recorded once the next has begun.  *)
MergeRefinement == Merge!Spec

(* The same for every child conversation: what was recorded through the    *)
(* child's recordMessage, followed by its open messages, is the reference  *)
(* grouping of the sub-agent events routed to it.                          *)
SubReassembly ==
    \A t \in ToolIds : sess[t] # NoSession =>
        Strip(subLog[t] \o Pending(sess[t].pu, sess[t].pa)) = Merge!Reassembled(subSeen[t])
====
