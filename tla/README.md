# TLA+ models of Shelley's conversation core

This directory holds TLA+ models of the parts of Shelley (`src/`) where the
order of steps matters: message recording and fan-out, the Claude Code stream
adapter and its turn loop, sub-agent orchestration, slug derivation, and the
schema migrations. Every module is translated from the Go source. The few parts
whose code is not under `src/` (the SQLite pool, SubPub, the conversation
manager's turn loop) are modelled from `spec.md` and marked `spec_modelled` in
`PROJECT.json`.

## 1. Inventory

| Component | Source | State it keeps | Operations |
|---|---|---|---|
| Message store | `src/db/db.go` | conversations, messages with per-conversation `sequence_id`, `migrations` table | `CreateMessage` (reads `GetNextSequenceID` and inserts in one write transaction), conversation create/archive/delete, `GetOrCreateSubagentConversation`, `Migrate`; `New` turns foreign keys on |
| Pool | not under `src/` (spec 4.1) | one writer connection, N readers | `Tx`, `Rx`, `Exec` |
| SubPub | `src/subpub/subpub_test.go` only (spec 4.2) | per subscriber: a cursor, a 10-slot buffer, a context | `Subscribe(idx)`, `Publish(idx, msg)`, `next()` |
| Conversation manager | not under `src/` (spec 4.4) | `agentWorking`, `recordMessage`, subscribers, turn loop | `AcceptUserMessage`, `SetAgentWorking`, `recordMessage` (write and publish) |
| Stream adapter | `src/unnamed/part_002` `processStream` | the open assistant and user messages, the open message id, Task inputs, sub-agent sessions | one branch per stream event, and a deferred flush at EOF |
| Claude Code loop | `src/unnamed/part_002` (same loop as `claudecode_loop.go`) | `msgChan` (capacity 100), in-memory `history` | `QueueUserMessage`, `Go`, `processMessage` |
| Slug | `src/unnamed/part_002` `ccDescriptionToSlug` | none (pure) | map runes, collapse `--`, trim, truncate to 40 |
| ClaudeCodeRunner | `src/unnamed/part_003` | none of its own | `RunSubagent`, `run`: `CreateMessage`, then `Publish` for each stream event |
| SubagentRunner | `src/server/subagent.go` | none of its own | `RunSubagent`: `AcceptUserMessage`, then poll `isAgentWorking` and return the latest message |
| Claude Code loop, `server/` copy | `src/server/claudecode_loop.go` | as the Claude Code loop; the stream locals of `processMessage` | the same turn loop, with stream reassembly inline in `processMessage` and no sub-agent routing |

Not modelled: `conversationIDToUUID` (a hash), system-prompt generation
(`part_004`), the MCP handler, paths, ntfy notifications, and the web UI. They
are pure I/O, formatting or glue with no concurrency. `PROJECT.json` lists each
one with the reason.

**Interactions.**
- Writers record a conversation's messages through `CreateMessage` and publish
  each one on the conversation's SubPub topic under its sequence id. The
  writers are the manager's `recordMessage`, the Claude Code adapter through
  `recordMessage`, and `ClaudeCodeRunner.run` directly.
- Viewers (SSE streams) subscribe with the last sequence id they have.
- The stream adapter opens a child conversation through the bridge for every
  Task sub-agent. It names the child by the slug of the Task description, and
  flips the child manager's working flag.
- `SubagentRunner` drives a child conversation and reads its working flag to
  decide when the answer is ready.

**What makes each component correct.**
- Sequence ids strictly increase (spec 8.1).
- A viewer still attached gets every persisted message after its resume
  point (spec 4.2, 8.3).
- Merged stream events give exactly the messages of the merge-by-id rule
  (spec 4.6).
- Each child records exactly the grouping of the sub-agent events routed to it.
- The working flag is cleared after every turn (spec 8.5).
- The CLI accepts each turn's session flag (spec 4.6).
- No stream makes the loop panic (spec 7).
- The sub-agent's answer is the reply to its own prompt.
- Get-or-create by slug resolves uniquely (spec 3).
- Slugs are normalised idempotently (spec 8.6).
- `Migrate` can be rerun, and a successful run leaves every file applied and
  recorded (spec 8.4).

## 2. Modules

| Module | Models | State and actions |
|---|---|---|
| `CCStream` | `processStream` (part_002 181-517) | The variables `curA`/`curU`/`curID` are `currentAssistantMsg`/`currentUserMsg`/`currentMsgID`. `sess` is `subagentSessions`. `working` is each child's flag. `mainLog`/`subLog` are what `recordMessage` received. The actions are one per event kind (`TopAssistant`, `TopUser`, `SubAssistant`, `SubUserEvent`) plus `EndOfStream` (the deferred flush). History variables (`mainSeen`, `subSeen`) record the events so the reference grouping can be computed. `Drop` is an event for which `getOrCreateSubagentSession` returns nil (no bridge, Task not seen yet, or the bridge failed). |
| `MergeById`, `Grouping` | spec 4.6 | The abstract stream adapter. `Grouping` holds the reference merge (`Grouped`, `Reassembled`, `Committed`). `MergeById` is a state machine over the events read (`seen`), the messages recorded (`log`) and `closed`: `Read(e)` records every message but the open one, and `Close` records the rest. `CCStream` instantiates it with `seen <- mainSeen`, `log <- Strip(mainLog)`, `closed <- done`. |
| `CCLoop` | `claudecode_loop.go` (whole file) | The turn loop composed with the stream reassembly of that file. The channel is a count. `history` is `l.history`, and `cliSession` is the CLI's on-disk session. The loop actions are `QueueUserMessage`, `StartTurn` (receive, `SetAgentWorking(true)`, choose the flag from `len(history)`), `StartFails`, `CliAccepts`/`CliRejects`, `CliExit`, `LongLine` (the 1 MiB scanner limit), `FinishTurn` (the deferred flush and flag reset) and `Restart`. The stream actions are `AssistantNew`, `AssistantSame` and `AssistantNil`, the three outcomes of line 209. `AssistantNil` appends through nil: the panic ends the process, and the server comes back fresh. `User` is the user-event branch. |
| `Slug` | `ccDescriptionToSlug` | RECURSIVE operators for `strings.ReplaceAll`, the collapse loop and `strings.Trim`, checked against `RefSlug`, a one-pass `FoldLeft` word join. A description is a sequence of rune classes. |
| `MessageBus` | `CreateMessage`, `ClaudeCodeRunner.run`'s publish, `recordMessage`, SubPub | Writers step through `BeginTx` (the writer connection), `ReadSeq` (`GetNextSequenceID`), `Insert`, then publish. A Runner's `Insert` leaves the write scope before publishing. A Recorder publishes first (`RecorderPublish`). Viewers `Subscribe` at the persisted maximum, `Pull`, and `Cancel`. `Deliver` is `Publish`'s cursor filter and eviction. |
| `SubagentWait` | `SubagentRunner.RunSubagent`/`waitForResponse` | `AcceptUserMessage`, then `Poll`/`PollTimeout`. The child's turn loop is spec-modelled: `LoopStart` sets the flag, `LoopToolRound` records, and `LoopEnd` records the end-of-turn or error message and then clears the flag. |
| `ConvStore` | `New`'s foreign-key flag, `CreateConversation`, `CreateMessage`, `Archive`/`UnarchiveConversation`, `DeleteConversation`, `GetOrCreateSubagentConversation` | `convs`, `msgs` and `archived` are the rows. `fk` is what `New` decided from the DSN (`ForeignKeysOn`). `written` and `created` are history variables: every message row ever inserted, every id ever generated. Each store method is one write transaction, so one action. `CreateMessage` is refused on the foreign key for an unknown conversation. `DeleteConversation` is refused, and rolled back with its messages, for a parent that still has sub-agents. The get-or-create callers step through `Lookup` (the read transaction), then `CreateAttempt`, which is one insert: on a unique violation it retries with the next `-k` suffix, and it fails on the foreign key if the parent is gone. `CreateError` returns any other error, and `Exhausted` is the attempt bound. |
| `Migrate` | `DB.Migrate`/`executeMigration` | `Check`/`CheckError` is the `sqlite_master` query. `Skip`, `ExecStmt` (one statement of the file) and `RecordFile` (the separate `INSERT`) follow. `Crash` and `Rerun` are process restarts, possibly with a release that ships more files. `applied`/`recorded` persist; the loop state does not. |

The MC modules (`MC_*.tla`) give model values to the constants.

## 3. Runs

| Run | Result | What it shows |
|---|---|---|
| `ccstream` | pass, 2.1M states | `processStream` implements `MergeById` for the parent stream (`MergeRefinement`, checked as a PROPERTY). Every child's recorded messages equal the reference grouping of the events routed to it. |
| `bus` | pass, 3.4M states | Runner {r1} and recorders {w1,w2} each write 2 messages, with 2 viewers and a buffer of 1. Sequence ids strictly increase. Viewers never hold more than the buffer. Every message of a recorder (which publishes inside its write scope) reaches every viewer still attached. |
| `bus_lost` | **violation** | The runner inserts seq 1 and leaves the write scope. A recorder inserts seq 2 and publishes it. The runner then publishes seq 1, which the viewer's cursor filters out, so the message is lost to that live viewer. |
| `slug` | pass, 9331 inputs | The code equals the reference for every description of up to 5 runes, with the cap at 3. |
| `cc_loop` | pass, 160k states | Every stdout line fits the scanner's buffer. `TurnReassembly`: each turn's history, with its open messages, is the reference grouping of the turn's events. `WorkingClears`: the flag is cleared after every turn (liveness under weak fairness), across restarts and panics. |
| `cc_loop_restart` | **violation** | The CLI accepts a first turn and exits with no assistant or user event. The history stays empty, so the next turn passes `--session-id` again and the CLI refuses it. A restart does the same. |
| `cc_loop_panic` | **violation** | Assistant `m1`, a user event, then assistant `m1` again: line 209 keeps the flushed (nil) message, and the append at line 221 panics. |
| `cc_loop_stuck` | **violation** | A line over 1 MiB stops the scanner. `cmd.Wait` waits on a CLI blocked writing to the unread pipe, so the flag never clears and the loop takes no further message. |
| `subagent_wait` | **violation** | Accept, then poll before the loop starts: the answer is the prompt itself. |
| `conv_store` | pass, 499k states | The setup has three get-or-create callers under one parent, top-level creates, message inserts, archives and deletes, and every DSN form `New` completes. `ReferentialIntegrity`: no message or sub-agent references a missing conversation. `DeleteAllOrNothing`: a conversation still present keeps every message inserted into it, also after a refused delete of a parent. `ReturnedSlugResolves`: the returned (id, slug) is found again by the slug, also when the suffix equals another caller's requested slug. |
| `migrate` | pass | With 2 crashes, 1 failed check and an upgrade, a `Migrate` call that returns nil (`DoneMeansMigrated`) leaves every shipped file applied in full and recorded. A file skipped as already recorded was recorded by an earlier call only after its statements ran. |
| `migrate_crash` | **violation** | Either of two paths makes `Migrate` fail. (1) A crash between the ALTER and its `INSERT` makes every later `Migrate` fail. (2) A `sqlite_master` error other than `ErrNoRows` reruns every file, and the ALTER fails. Without both, reruns and upgrades succeed. |

Every property of a passing run has a mutant in `PROJECT.json`, an operator
defined just before the definition it replaces. Each one is a plausible bug
that TLC catches: no writer lock, a buffer off by one,
releasing before publishing, a single collapse pass, not clearing the flag,
dropping the open user message on a new assistant message, running the migration's `INSERT` before its statements, losing `New`'s `&_foreign_keys=on` branch,
deleting messages outside the delete's transaction, and returning the
requested slug instead of the one used.

## 4. Bounds and why they suffice

- **CCStream.** 2 tool ids, 2 message ids and 6 events. That covers two
  interleaved Tasks, the same id after a user event, and a result before and
  after sub-agent events.
- **MessageBus.**
  - 3 writers with 2 messages each, so publishes can arrive out of order.
  - A buffer of 1, so eviction happens with 2 messages. The code's 10 only
    changes when eviction happens, not what it does.
  - 2 viewers (symmetric) that subscribe at any point.
- **Slug.** All 6 rune classes up to length 5, with the cap at 3 so that a cut
  falls both inside a word and on a dash.
- **CCLoop.** 2 messages, a channel of 1, 1 restart, 2 message ids and 3
  events per turn. That is enough for a turn with no output before another
  turn, for an id coming back after a user event, and for a full channel. With
  3 messages or 4 events the state space grows past 4M states.
- **SubagentWait.** 2 calls with 2 polls each.
- **ConvStore.**
  - 3 callers, one of whose slugs is another's first suffix.
  - Existing children with either slug, and 2 attempts, so the attempt
    bound is reached.
  - 1 top-level id and 2 messages. That is enough to insert into a child,
    delete it, and try to delete its parent.
  - 3 DSN forms: no query, a query without `_foreign_keys`, and
    `_foreign_keys=on`.
- **Migrate.** Three files shaped like the real ones: a base file, the
  idempotent settings file, and the ALTER+INDEX file.

## 5. Fairness

Only `CCLoop` states a liveness property. Its fairness is weak fairness on
the loop's steps and on the CLI's exit. The loop goroutine runs while its
context lives, and the CLI exits within `--max-turns 25` or when its context is
cancelled. User messages and restarts carry no fairness. `LongLine` carries no fairness either: whether a line exceeds 1 MiB is up to the CLI's output. In `cc_loop` (`CliBlocksOnPipe = FALSE`) a long line is followed by the CLI's exit. In `cc_loop_stuck` the CLI may instead block on the pipe, and no fair step is then enabled.

## 6. Not modelled, and what is left

- Recording errors in `processStream` are logged and ignored; the model
  records every flush.
- Tool-result content parsing and the text of messages are abstracted away.
- The bridge factory is not under `src/`. Two Tasks with the same description
  get one slug. With the test's bridge (`CreateSubagentConversation`), every
  event of the second Task is dropped on the taken slug. A get-or-create
  bridge would record both Tasks into one child. `CCStream` keys children by
  tool id, so it does not express a shared child.
- Read-only queries (`GetConversationByID`, the list and search queries,
  `GetSubagents` and `handleGetSubagents`), the tool-set configuration in
  `subagent.go`, `ntfy.go` (one HTTP POST per event, formatted from a
  payload) and `paths.go` hold no state that a step changes, so no model
  state corresponds to them.
- The conversation registry's idle eviction is not modelled.
- `UpdateConversationSlug` and `UpdateConversationCwd` are not modelled. Their
  callers are outside `src/`, and the working directory is not state that any
  property reads. A DSN that sets `_foreign_keys=off` itself is kept by `New`.
  It turns foreign keys off, and `conv_store` does not include it.
- Run budget. The check keeps at most 12 runs, so some earlier runs were
  retired:
  - the slug-idempotence violation: `"aa-a"` becomes `"aa-"` and then `"aa"`;
  - a violation showing that two concurrent get-or-create callers with one
    slug get two children. That is the suffix retry's design (spec 4.3), and
    `conv_store` checks instead that what each caller gets back resolves.
- Also planned: the pool's readers against the writer, and the spec's
  agent-working computation (spec 4.4) as a pure operator against the flag
  kept by the loop.
