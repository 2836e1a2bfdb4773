------------------------------- MODULE CCLoop -------------------------------
(***************************************************************************)
(* claudeCodeLoop as src/server/claudecode_loop.go has it: the turn loop   *)
(* (QueueUserMessage, Go, processMessage) composed with its stream         *)
(* reassembly, and the Claude CLI's on-disk session it drives.             *)
(*                                                                         *)
(* Go takes one message at a time from msgChan (capacity 100).             *)
(* processMessage sets the working flag, picks --session-id when the       *)
(* in-memory history is empty and --resume otherwise, starts the CLI and   *)
(* reads its stdout line by line.  Assistant events start a new message    *)
(* when message.id differs from the open one (line 209: no nil check);     *)
(* user events flush the open assistant message.  flushAssistant and       *)
(* flushUser append to history (and record through recordMessage).  When  *)
(* the scanner stops, cmd.Wait is called; on return the deferred flush and *)
(* SetAgentWorking(false) run.                                             *)
(*                                                                         *)
(* The CLI persists its session when it accepts a prompt and refuses       *)
(* --session-id for a session that exists and --resume for one that does   *)
(* not.  A line longer than the scanner's 1 MiB buffer stops the scanner;  *)
(* the CLI then either exits or blocks on the pipe nobody reads.  A panic  *)
(* in the loop goroutine ends the server process.  A restart loses the     *)
(* loop's channel, history and flag but not the CLI's session.             *)
(* A message is its role and the kinds of its blocks.                      *)
(***************************************************************************)
EXTENDS Naturals, Sequences, Grouping

CONSTANTS
    MsgIds,           \* message.id values of assistant events
    None,             \* nil pointer, and the empty currentMsgID
    QueueCap,         \* msgChan capacity (100 in the code)
    MaxMsgs,          \* user messages sent over a behaviour
    MaxRestarts,      \* server restarts over a behaviour
    MaxEvents,        \* stream events of one turn
    CliBlocksOnPipe   \* the CLI may write more than the pipe holds after a long line

ASSUME None \notin MsgIds /\ CliBlocksOnPipe \in BOOLEAN

VARIABLES
    queue,        \* messages waiting in msgChan
    history,      \* l.history
    working,      \* the manager's agentWorking flag
    phase,        \* "idle", "launch", "streaming", "blocked" or "exited"
    mode,         \* "session-id" or "resume": the flag of the current turn
    cliSession,   \* the CLI has the session on disk
    curA,         \* currentAssistantMsg blocks, or None
    curU,         \* currentUserMsg blocks, or None
    curID,        \* currentMsgID
    turnSeen,     \* history: the assistant and user events of this turn
    turnStart,    \* history: Len(history) when this turn's stream began
    rejected,     \* history: some turn's CLI refused its session flag
    panicked,     \* history: the loop goroutine panicked
    sent,         \* user messages queued so far
    restarts      \* restarts so far

vars == <<queue, history, working, phase, mode, cliSession, curA, curU, curID,
          turnSeen, turnStart, rejected, panicked, sent, restarts>>
turnVars == <<curA, curU, curID, turnSeen, turnStart>>

-----------------------------------------------------------------------------
Msg(role, bs) == [role |-> role, blocks |-> bs]
FlushA(p) == IF p = None THEN <<>> ELSE <<Msg("assistant", p)>>
FlushU(p) == IF p = None THEN <<>> ELSE <<Msg("user", p)>>
Opened(p) == IF p = None THEN <<>> ELSE p
Ev(key, role, bs) == [key |-> key, role |-> role, blocks |-> bs]

\* A user event keeps only its tool_result blocks.
KeptUser(b) == IF b = "tool_result" THEN <<b>> ELSE <<>>

\* The process's in-memory state when it (re)starts.
Fresh ==
    /\ queue' = 0 /\ history' = <<>> /\ working' = FALSE /\ phase' = "idle"
    /\ curA' = None /\ curU' = None /\ curID' = None
    /\ turnSeen' = <<>> /\ turnStart' = 0

Init ==
    /\ queue = 0 /\ history = <<>> /\ working = FALSE /\ phase = "idle"
    /\ curA = None /\ curU = None /\ curID = None
    /\ turnSeen = <<>> /\ turnStart = 0
    /\ mode = "session-id" /\ cliSession = FALSE
    /\ rejected = FALSE /\ panicked = FALSE /\ sent = 0 /\ restarts = 0

(* QueueUserMessage: the send blocks while the channel is full. *)
QueueUserMessage ==
    /\ sent < MaxMsgs /\ queue < QueueCap
    /\ queue' = queue + 1 /\ sent' = sent + 1
    /\ UNCHANGED <<history, working, phase, mode, cliSession, rejected, panicked,
                   restarts>> /\ UNCHANGED turnVars

(* Go receives a message; processMessage sets the flag and picks the      *)
(* session flag from len(l.history).                                      *)
StartTurn ==
    /\ phase = "idle" /\ queue > 0
    /\ queue' = queue - 1
    /\ working' = TRUE
    /\ mode' = IF history = <<>> THEN "session-id" ELSE "resume"
    /\ phase' = "launch"
    /\ UNCHANGED <<history, cliSession, rejected, panicked, sent, restarts>>
    /\ UNCHANGED turnVars

(* StdoutPipe or Start fails: return err; the deferred SetAgentWorking(false). *)
StartFails ==
    /\ phase = "launch"
    /\ phase' = "idle" /\ working' = FALSE
    /\ UNCHANGED <<queue, history, mode, cliSession, rejected, panicked, sent,
                   restarts>> /\ UNCHANGED turnVars

SessionFlagValid == (mode = "session-id") = ~cliSession

\* The stream's locals start empty once the CLI is running.
NewStream ==
    /\ curA' = None /\ curU' = None /\ curID' = None
    /\ turnSeen' = <<>> /\ turnStart' = Len(history)

(* The CLI accepts the prompt and persists the session. *)
CliAccepts ==
    /\ phase = "launch" /\ SessionFlagValid
    /\ cliSession' = TRUE /\ phase' = "streaming"
    /\ NewStream
    /\ UNCHANGED <<queue, history, working, mode, rejected, panicked, sent, restarts>>

(* The CLI refuses the session flag and exits with no output. *)
CliRejects ==
    /\ phase = "launch" /\ ~SessionFlagValid
    /\ rejected' = TRUE /\ phase' = "exited"
    /\ NewStream
    /\ UNCHANGED <<queue, history, working, mode, cliSession, panicked, sent, restarts>>

Line == phase = "streaming" /\ Len(turnSeen) < MaxEvents

(* An assistant event with a new id flushes the open assistant, then the   *)
(* open user message, and opens a message holding its block.               *)
AssistantNewNoUserFlush(id, b) ==   \* mutant: the open user message is dropped
    /\ Line /\ id # curID
    /\ history' = history \o FlushA(curA)
    /\ curA' = <<b>> /\ curU' = None /\ curID' = id
    /\ turnSeen' = Append(turnSeen, Ev(id, "assistant", <<b>>))
    /\ UNCHANGED <<queue, working, phase, mode, cliSession, turnStart, rejected,
                   panicked, sent, restarts>>

AssistantNew(id, b) ==
    /\ Line /\ id # curID
    /\ history' = history \o FlushA(curA) \o FlushU(curU)
    /\ curA' = <<b>> /\ curU' = None /\ curID' = id
    /\ turnSeen' = Append(turnSeen, Ev(id, "assistant", <<b>>))
    /\ UNCHANGED <<queue, working, phase, mode, cliSession, turnStart, rejected,
                   panicked, sent, restarts>>

(* The same id while a message is open: the block is appended to it. *)
AssistantSame(id, b) ==
    /\ Line /\ id = curID /\ curA # None
    /\ curA' = Append(curA, b)
    /\ turnSeen' = Append(turnSeen, Ev(id, "assistant", <<b>>))
    /\ UNCHANGED <<queue, history, working, phase, mode, cliSession, curU, curID,
                   turnStart, rejected, panicked, sent, restarts>>

(* The same id after a user event flushed the message: the append through *)
(* the nil currentAssistantMsg panics.  The deferred flush and             *)
(* SetAgentWorking(false) run, and the unrecovered panic ends the process; *)
(* the server comes back with a fresh loop.                                *)
AssistantNil(id, b) ==
    /\ Line /\ id = curID /\ curA = None
    /\ panicked' = TRUE
    /\ Fresh
    /\ UNCHANGED <<mode, cliSession, rejected, sent, restarts>>

(* A user event flushes the open assistant and extends the user message. *)
User(b) ==
    /\ Line
    /\ history' = history \o FlushA(curA)
    /\ curA' = None /\ curU' = Opened(curU) \o KeptUser(b)
    /\ turnSeen' = Append(turnSeen, Ev("user", "user", KeptUser(b)))
    /\ UNCHANGED <<queue, working, phase, mode, cliSession, curID, turnStart,
                   rejected, panicked, sent, restarts>>

(* stdout ends: the CLI finished, failed, or ctx killed it. *)
CliExit ==
    /\ phase = "streaming"
    /\ phase' = "exited"
    /\ UNCHANGED <<queue, history, working, mode, cliSession, rejected, panicked,
                   sent, restarts>> /\ UNCHANGED turnVars

(* A line over the 1 MiB buffer stops the scanner (bufio.ErrTooLong) and   *)
(* cmd.Wait is called with stdout unread: the CLI exits if what it still   *)
(* writes fits in the pipe, and otherwise blocks writing, so Wait never    *)
(* returns.                                                                 *)
LongLine(blocks) ==
    /\ phase = "streaming"
    /\ phase' = IF blocks THEN "blocked" ELSE "exited"
    /\ UNCHANGED <<queue, history, working, mode, cliSession, rejected, panicked,
                   sent, restarts>> /\ UNCHANGED turnVars

(* cmd.Wait returns: the deferred flush of the assistant then the user    *)
(* message, then the deferred SetAgentWorking(false).                      *)
FinishTurnNoClear ==   \* mutant: the flag is not cleared on return
    /\ phase = "exited"
    /\ history' = history \o FlushA(curA) \o FlushU(curU)
    /\ curA' = None /\ curU' = None /\ phase' = "idle"
    /\ UNCHANGED <<queue, working, mode, cliSession, curID, turnSeen, turnStart,
                   rejected, panicked, sent, restarts>>

FinishTurn ==
    /\ phase = "exited"
    /\ history' = history \o FlushA(curA) \o FlushU(curU)
    /\ curA' = None /\ curU' = None /\ phase' = "idle" /\ working' = FALSE
    /\ UNCHANGED <<queue, mode, cliSession, curID, turnSeen, turnStart,
                   rejected, panicked, sent, restarts>>

(* The server process restarts; the CLI's session survives. *)
Restart ==
    /\ restarts < MaxRestarts
    /\ restarts' = restarts + 1
    /\ Fresh
    /\ UNCHANGED <<mode, cliSession, rejected, panicked, sent>>

Blocks == {"text", "tool_use"}
UserBlocks == {"text", "tool_result"}

Next ==
    \/ QueueUserMessage \/ StartTurn \/ StartFails \/ CliAccepts \/ CliRejects
    \/ \E id \in MsgIds, b \in Blocks :
          AssistantNew(id, b) \/ AssistantSame(id, b) \/ AssistantNil(id, b)
    \/ \E b \in UserBlocks : User(b)
    \/ CliExit
    \/ \E blocks \in (IF CliBlocksOnPipe THEN BOOLEAN ELSE {FALSE}) : LongLine(blocks)
    \/ FinishTurn \/ Restart

(* The loop goroutine keeps running, and the CLI's stdout ends within      *)
(* --max-turns; the user, the CLI's output and restarts carry no fairness. *)
Fairness ==
    /\ WF_vars(StartTurn) /\ WF_vars(CliAccepts) /\ WF_vars(CliRejects)
    /\ WF_vars(CliExit) /\ WF_vars(FinishTurn)

Spec == Init /\ [][Next]_vars /\ Fairness

-----------------------------------------------------------------------------
Msgs == [role : {"assistant", "user"}, blocks : Seq(Blocks \cup UserBlocks)]

TypeOK ==
    /\ queue \in 0..QueueCap /\ history \in Seq(Msgs) /\ working \in BOOLEAN
    /\ phase \in {"idle", "launch", "streaming", "blocked", "exited"}
    /\ mode \in {"session-id", "resume"} /\ cliSession \in BOOLEAN
    /\ curA \in Seq(Blocks) \cup {None} /\ curU \in Seq(UserBlocks) \cup {None}
    /\ curID \in MsgIds \cup {None} /\ turnStart \in 0..Len(history)
    /\ rejected \in BOOLEAN /\ panicked \in BOOLEAN
    /\ sent \in 0..MaxMsgs /\ restarts \in 0..MaxRestarts

\* What this turn has appended to history, followed by its open messages.
TurnMessages ==
    SubSeq(history, turnStart + 1, Len(history)) \o FlushA(curA) \o FlushU(curU)

(* While a turn's stream is read and until its deferred flush, the history *)
(* it appended, with the messages still open, is the reference grouping of *)
(* the turn's events (spec 4.6): the id-change rule, the flush of the user *)
(* message on a new assistant message and the flush of the assistant on a *)
(* user event lose, split or reorder nothing.                              *)
TurnReassembly ==
    phase \in {"streaming", "blocked", "exited"} => TurnMessages = Reassembled(turnSeen)

(* Every turn clears the working flag when processMessage returns, on the *)
(* error paths (a refused flag, a failed start) as on success, so the     *)
(* conversation is never shown as working forever (spec 4.4, 8.5).       *)
WorkingClears == working ~> ~working

(* spec 4.6: --session-id on the first turn and --resume thereafter, so   *)
(* the CLI never refuses a turn's session flag.                           *)
NoRejectedTurn == ~rejected

(* spec 7: "No kind is a panic": no stream the CLI can emit makes the     *)
(* event loop of processMessage panic.                                     *)
NeverPanics == ~panicked
====
