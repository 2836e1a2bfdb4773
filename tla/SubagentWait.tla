----------------------------- MODULE SubagentWait -----------------------------
(***************************************************************************)
(* SubagentRunner.RunSubagent with wait=true (src/server/subagent.go):     *)
(* AcceptUserMessage on the child conversation, then waitForResponse polls *)
(* isAgentWorking and, once the flag reads false, returns the text of the  *)
(* conversation's latest message (getLastAssistantResponse).               *)
(*                                                                         *)
(* The child's conversation manager and turn loop are not under src/; they *)
(* are modelled from spec 4.4: AcceptUserMessage persists the user message *)
(* and enqueues it; the loop sets agentWorking, records the turn's         *)
(* messages, ends with an end-of-turn agent message or an error message,   *)
(* and then clears the flag.  A message is its kind and the call whose     *)
(* prompt started its turn.                                                *)
(***************************************************************************)
EXTENDS Naturals, Sequences, SequencesExt

CONSTANTS
    Calls,     \* concurrent RunSubagent calls on the same child conversation
    MaxPolls,  \* polls before the deadline passes
    None

VARIABLES
    stored,    \* the child's persisted messages, in sequence order
    queue,     \* the turn loop's channel: calls whose prompt waits
    working,   \* the child's agentWorking flag
    cur,       \* the call whose turn the loop runs, or None
    toolDone,  \* the current turn has run its tool round
    wpc,       \* per call: "accept", "poll" or "done"
    polls,     \* polls made so far
    answer     \* per call: the message returned, a "timeout" record, or None

vars == <<stored, queue, working, cur, toolDone, wpc, polls, answer>>

Msg(kind, call) == [kind |-> kind, call |-> call]

-----------------------------------------------------------------------------
Init ==
    /\ stored = <<>> /\ queue = <<>> /\ working = FALSE /\ cur = None
    /\ toolDone = FALSE
    /\ wpc = [c \in Calls |-> "accept"]
    /\ polls = [c \in Calls |-> 0]
    /\ answer = [c \in Calls |-> None]

(* RunSubagent: AcceptUserMessage persists the prompt and queues it. *)
AcceptUserMessage(c) ==
    /\ wpc[c] = "accept"
    /\ stored' = Append(stored, Msg("user", c))
    /\ queue' = Append(queue, c)
    /\ wpc' = [wpc EXCEPT ![c] = "poll"]
    /\ UNCHANGED <<working, cur, toolDone, polls, answer>>

(* Turn loop: take the next message and set agentWorking. *)
LoopStart ==
    /\ cur = None /\ queue # <<>>
    /\ cur' = Head(queue) /\ queue' = Tail(queue)
    /\ working' = TRUE /\ toolDone' = FALSE
    /\ UNCHANGED <<stored, wpc, polls, answer>>

(* One tool round: a non-end-of-turn agent message and its tool result. *)
LoopToolRound ==
    /\ cur # None /\ ~toolDone
    /\ stored' = stored \o <<Msg("agent", cur), Msg("tool", cur)>>
    /\ toolDone' = TRUE
    /\ UNCHANGED <<queue, working, cur, wpc, polls, answer>>

(* The turn ends: the end-of-turn agent message, or the LLM error, is     *)
(* recorded, then agentWorking is cleared.                                 *)
LoopEnd(kind) ==
    /\ cur # None
    /\ stored' = Append(stored, Msg(kind, cur))
    /\ working' = FALSE /\ cur' = None
    /\ UNCHANGED <<queue, toolDone, wpc, polls, answer>>

(* waitForResponse, one iteration: past the deadline it returns the        *)
(* timeout text; otherwise it asks isAgentWorking; a false answer returns  *)
(* getLastAssistantResponse, the latest message; a true one sleeps.        *)
PollTimeout(c) ==
    /\ wpc[c] = "poll" /\ polls[c] = MaxPolls
    /\ wpc' = [wpc EXCEPT ![c] = "done"]
    /\ answer' = [answer EXCEPT ![c] = Msg("timeout", c)]
    /\ UNCHANGED <<stored, queue, working, cur, toolDone, polls>>

Poll(c) ==
    /\ wpc[c] = "poll" /\ polls[c] < MaxPolls
    /\ IF working
       THEN /\ polls' = [polls EXCEPT ![c] = @ + 1]
            /\ UNCHANGED <<wpc, answer>>
       ELSE /\ wpc' = [wpc EXCEPT ![c] = "done"]
            /\ answer' = [answer EXCEPT ![c] = Last(stored)]
            /\ UNCHANGED polls
    /\ UNCHANGED <<stored, queue, working, cur, toolDone>>

Next ==
    \/ \E c \in Calls : AcceptUserMessage(c) \/ PollTimeout(c) \/ Poll(c)
    \/ LoopStart \/ LoopToolRound
    \/ \E kind \in {"agent_eot", "error"} : LoopEnd(kind)

Spec == Init /\ [][Next]_vars

-----------------------------------------------------------------------------
(* A call that returns before its deadline returns the reply the child    *)
(* agent produced for that call's own prompt: the end-of-turn message or  *)
(* the error of the turn it started (the tool's contract: "wait for the   *)
(* agent to finish").                                                      *)
AnswerIsOwnReply ==
    \A c \in Calls :
        wpc[c] = "done" /\ answer[c].kind # "timeout" =>
            answer[c] \in {Msg("agent_eot", c), Msg("error", c)}
====
