# TamfisCode: TLA+ models of the agent runtime

`tamfis_code` is a coding agent for the terminal: it asks a language model for
an answer, runs the tools the model calls, and goes round until the task has an
outcome. This directory holds TLA+ models of its runtime, the TLC
configurations that check them on small instances, and theorems about them with
machine-checked proofs. Paths are relative to the repository, and
`runner_local.py`, `state.py` and so on are files of `tamfis_code/`.

    tlc -workers 2 -config MCTaskRun.cfg MCTaskRun.tla     # every run: see "The runs"
    tlapm TaskRunProofs.tla                                # every proof: see "The proofs"

## Parts of the system

One process runs one terminal session; in it, everything is one `asyncio` loop.
Processes meet in files under the user's home directory only: `state.json` (the
session rows, behind a lock file), `swarm_mailbox.sqlite3` (requests of swarm
workers), and one file per job, checkpoint or ledger.

A turn goes through the parts like this. The **prompt loop** takes a line from
the keyboard or from the queue of its session row and gives it to the **unified
runtime**, which lets one execution at a time in. `run_local_agent_turn`
(`runner_local.py`) begins a run with the **orchestrator**, which owns a plan
and an **execution controller**. Round after round (**round accounting**) it
asks a route - a provider with a model, found by **provider routing** - and
reads the answer as it **streams** in. Tool calls pass the **approval gate**,
which consults rules, the **approval policy**, the **permission race** (rules,
classifier and user against each other) or, in a swarm worker, the **approval
mailbox**; admitted calls are queued and executed by the **tool dispatch**
through the **capability gateway**, on **files** and processes, and each result
is reported back to the orchestrator. An answer without calls passes the
**completion gate** and completes the turn. On the way the turn writes its row
in the **session store**, and takes from it the instructions that the
**composer** put there meanwhile.

| Part | State | Operations | Correct means |
| --- | --- | --- | --- |
| Execution controller (`runtime/controller.py`, `runtime/state.py`, `runtime/budgets.py`) | `RuntimeSnapshot`: phase, failure reason, counters, fingerprints | guard, observe, extend, renew, repair, revise, validate, complete, fail | no illegal transition; no budget exceeded beyond what was granted; no blind repetition; a terminal phase is final |
| Task orchestration (`orchestrator/engine.py`, `runner_local.py`) | run, plan, queue of calls, retries | begin, plan, rounds, guard, dispatch, record, validate, complete, fail | one step in progress; done steps stay done; an ended task leaves nothing open; the turn ends |
| Completion gate (`orchestrator/validator.py`, `engine.py`) | tool records, the session's ledger, retries | preflight, finalize, complete | a completed answer claims nothing that no edit named and git did not show |
| Round accounting and recovery ladder (`runner_local.py`) | round, cap, route, fallback, per-fault retries, checks | ask, fall back, compact, roll over, correct, detect loops, verify, complete | a completed change was checked; the turn ends |
| Streamed completions (`runner_local.py`) | text trusted and held back, calls, clocks, partial answer | read, race with steering, reconnect, continue on another route | text is shown once and whole; calls are of this reply |
| Provider routing and failover (`providers.py`, `routing.py`) | route health, the current key, nested retries | resolve, ask, shrink, rotate, fall back | a request ends; a failed route is avoided, not the others |
| Approval policy and rules (`safety.py`, `permissions.py`, `orchestrator/approvals.py`) | none | risk, policy decision, static verdict | (operators of the three parts below) |
| Permission race (`permission_race.py`) | racers, window, grace | start, answer, wake, expire, cancel | decided by somebody entitled to, whatever the order; always decided |
| Approval gate (`runner_local.py`) | read-only flag, session approvals, review, batch decisions | batch approval, delegate, review, boundary, rules, mailbox, single approval, hooks | nothing risky runs without a word for it; read-only stays read-only |
| Tool dispatch (`runner_local.py`, `provider_protocols.py`) | queue, groups, cache, validation flags, messages | screen, answer, enqueue, group, run, take up, recover | concurrency does not show; every result reaches the model; validation is not stale |
| Capability gateway, MCP client, commands (`capability_gateway.py`, `mcp_client.py`, `mcp.py`) | in-flight and completed requests by idempotency key; a pipe; processes | execute, fail over, wait, time out, move to the background, watch, kill | at most one local execution per key; an answer goes to its request; no process is lost |
| Files and their ledger (`mcp.py`, `safety.py`, `state.py`) | contents, ledger of changes, checkpoint fingerprints | read, write, edit, create, record, trim, revert, resume | a revert restores what a text can restore; trimming deletes nothing |
| Approval mailbox and swarms (`mailbox.py`, `swarm.py`) | the table of requests; a coordinator per swarm | file, await, claim, resolve, expire, sweep, drain | one handler per request; an answer is final; a worker never waits for ever |
| Session store (`state.py`, `fs_atomic.py`) | rows: queue, plans, cursor, lifecycle | read, change, merge and write; mint, reuse, supersede, fork, reset, clear | nothing another process wrote is lost |
| Live input and prompt loop (`live_input.py`, `interactive.py`), background jobs (`background.py`) | prompt, draft, queue, interrupt; one JSON file per job | type, enter, recall, queue, pause, stop, run; spawn, announce, list, stop | what is typed is kept and taken once; a stop stops |
| Unified runtime, parallel agents (`runtime/unified.py`, `agents.py`) | one active execution; history, journal, checkpoint | run exclusively, stream, fan out, cancel, review, record | exclusive; every execution reaches one true record |
| Remote agent (`remote_agent.py`) | durable outbox, running requests | receive, execute, reply, replay, stop | every request answered, executed once unless the process died in it |
| Checkpoints, journal, ledger, resume (`runtime/`) | one JSON file per task | save, load, resume | what is resumed is what was last saved |
| Open agent platform (`openhands/`) | leases, event logs, automations | acquire, renew, release; append, stream; run due | a lease has one holder; sequence numbers are dense |
| Context and compression (`orchestrator/context.py`, `compression.py`) | messages | compact | tool calls keep their results |
| Everything else: rendering, CLI, configuration, telemetry, spreadsheets, workspace helpers, text patterns of safety and hooks | none that others depend on | | |

`PROJECT.json` lists every part with its sources and what is modelled of it.

### What is hard here

- *Interleavings within a process.* Calls of one group run concurrently; the
  classifier and the user race; input arrives while a round is under way; an
  approval takes the terminal from a user who is typing; requests share route
  health and the current key; callers of one key wait for each other.
- *Interleavings between processes.* Each operation on a session row reads
  before it takes the lock. Coordinators of several processes claim from one
  table. Editors change the files the agent works on.
- *Long sequences of legal calls.* The turn has some twenty counted retries,
  each reset or not by the others, and a dozen places that change the route.
  The controller has five budgets with extensions that take back failures. A
  provider's request nests four sorts of retries.
- *State used after it became stale.* A cached read, a confirmed validation, a
  batch's permissions, a window fitted to the route that failed, a circuit
  opened by another request, a stop left behind by an earlier turn.
- *Results that do not say what was done.* A tool's result is a success when its
  function returned: a write may have been refused, a command may have failed or still
  run in the background. A failure may come after the file was replaced.
- *Failures in the middle.* Calls answered in place of execution, a turn that
  returns inside a batch, a coordinator that dies holding a claim, a stream that
  breaks inside a word or a call, a revert that stops halfway.
- *Crashes, lost and repeated messages.* The remote agent's requests are sent
  again over connections that break; its outbox survives the process. Plans,
  counters, checks and file fingerprints of a turn are rebuilt from records.

## The modules

| Module | Models | Composes |
| --- | --- | --- |
| `ExecutionController` | the methods of `ExecutionController`, as operators on a snapshot | |
| `TaskRun` | the orchestrator's operations in the order the agent loop calls them | extends `ExecutionController` |
| `RoundLoop` | the loop around the rounds: budget, routes, corrections, checks, outcome | |
| `StreamedCompletion` | one answer from its first request to the end of its fallback chain | |
| `ProviderRoutes` | concurrent requests over shared route health | |
| `ApprovalPolicy` | risk, policy and static verdict, and what a race may answer | |
| `PermissionRace` | the race itself, task by task | extends `ApprovalPolicy` |
| `ApprovalGate` | all that a call passes before it is queued | extends `ApprovalPolicy` |
| `GatedRace` | the gate with the race in it, shown to implement `ApprovalGate` | extends `ApprovalGate`, instantiates `PermissionRace` |
| `ToolRound` | a round of tool calls from the answer to the last result | |
| `CapabilityCalls` | a call below the dispatch: remote hop, ledger of keys, process | |
| `FileMutations` | files, the ledger of their changes, reverts, checkpoint and resumption | |
| `CompletionGate` | the three judgements on a finished answer | |
| `ApprovalPromise` | what a worker may rely on: an abstract request and its answer | |
| `ApprovalMailbox` | the table, coordinators and workers, shown to implement the promise | extends `ApprovalPolicy`, instantiates `ApprovalPromise` |
| `SessionStore` | rows, lock and merge of `state.json` | |
| `TypedInput` | prompt, composer, queue, turn and one background job | |
| `UnifiedRuntime` | the one execution of a process, its review and its records | |
| `RemoteAgent` | bridge, server and outbox file | |
| `DispatchProofs` | theorems about a round of calls and the calls below it; how the rounds run out | extends `ToolRound` and `CapabilityCalls` |
| `TaskRunProofs` | theorems about the turn and its plan; how the turn runs out | extends `TaskRun` |
| `RecordProofs` | theorems about the mailbox's table, and about the ledger of changes and its reverts | extends `ApprovalMailbox` and `FileMutations` |
| `InstructionProofs` | theorems about instructions and the rows that keep them | extends `SessionStore` and `TypedInput` |
| `DeliveryProofs` | theorems about what is delivered once: results, and the calls and the text of an answer; how a request runs out | extends `RemoteAgent` and `StreamedCompletion` |
| `RuntimeProofs` | theorems about the runtime and its requests to providers | extends `UnifiedRuntime` and `ProviderRoutes` |
| `ApprovalGateProofs` | theorems about the gate, and about the gate with its race | extends `GatedRace` |
| `CompletionProofs` | theorems about what a completed turn has behind it; how a turn runs out | extends `RoundLoop` and `CompletionGate` |
| `MC...` | the constants of the runs | |

The turn is cut along its interfaces. `TaskRun` sees a round as calls and
results and knows every budget of the controller; `RoundLoop` sees a round as
one step (`RunTools`) and an answer as one of `Answers`, and knows every retry
of the loop; `ToolRound` and `ApprovalGate` are the inside of that step, without
and with the question whether a call may run; `StreamedCompletion` is the inside
of an answer, and `ProviderRoutes` the inside of a request made through the
manager. `TypedInput` sees a turn as rounds and gates only.

Where one module replaces another by what it promises, that is checked.
`ApprovalGate` takes a race to be one choice from `RaceOutcomes`; `GatedRace`
runs the race in its place; that every behaviour is one of `ApprovalGate`
(`GateImplemented`, the abstract specification as a property) is checked and proved.
`ApprovalPromise` is what the gate assumes of the mailbox; that the mailbox
implements it (`Promised`) is checked and proved.

`UnifiedRuntime` and `CompletionGate` have no run. Their properties are
theorems, for every value of the constants.

### State and actions

**ExecutionController** - `RuntimeSnapshot` is a record with the fields of the
dataclass; each method is an operator from a snapshot to a snapshot, `raised`
stands for the `RuntimeError` of an illegal transition. Fingerprints are model
values. Counters that only matter up to a limit saturate one past it (`Bump`).
The wall clock is the one bit `epoch_exhausted()` returns.

**TaskRun** - `rt` is the snapshot, `agent` the run's phase, `steps` the
statuses of the plan, `pc` the place in the loop, `batch` the calls not yet
guarded, `queue` those allowed whose results are outstanding, the rest the
counters of the loop that belong to no snapshot. `Begin`, `StartTurn`,
`ReplacePlan`, `AddFollowUp`, `RepairRound`, `Validate`, `CompleteTurn` and the rest are
the calls the loop makes, each with what the callee changes in the run, the plan
and the snapshot; `AllowCall`, `BlockRepeat`, `RefuseTerminal`, `EndDrained` are
the answers to a guard, with the flush of the queue before a turn ends. Which
tools are called and what they return is chosen freely. `EpochRunsOut` may come
at any time. What can change outside a round - fail and revive - is `Fail`,
`MarkRepair`, `Granted`.

**RoundLoop** - `pc` goes `top` (budget) - `live` (instructions) - `context`
(window) - `ask` - one of `Answers` - back to `top`, or through `final` and
`judge` to `done`; `retry`/`exhausted` are the fallback of a failed request,
`stuck`/`looping` the recovery from a loop, `rescue` the last answer without
tools. `route` is provider and model, `stalled` the routes left because they
looped, `used` the counted retries by name, `struck` and `corrected` the
providers that were already corrected for a fault. `work`, `ran`, `confirmed`,
`tries` are the flags of verify-before-finish; `since` and `slipped` are history variables:
which commands have really passed since the last change, and whether a result since
the last reported change said something else than what was done. `Results` keeps the two
apart: the loop confirms the commands in `after`, whose results are successes - among them one
that failed, one that was moved to the background, one whose text contains the project's
command (11576) - while only those in `passed` have ended without an error, and `hidden` changes
of files, by a command or by a write that then failed, reach `since` and not the loop. A turn is an initial value:
free or pinned, with or without fallback, strict, planned, editing, resumed, with the
project's own checks; a resumed one starts with any flags its records can give
(`Restored`).

**ApprovalPolicy** - a call is its kind, its risk, whether it leaves the
workspace, whether the deny-list matches, which rule matches, and whether its
arguments parsed. Which text has which risk is a fact of the call.

**PermissionRace** - two tasks and a coroutine that waits for them. `done`
keeps the racers finished and not yet looked at: `asyncio.wait` returns a set
without order, and `Wake` takes any decisive member of it. `WindowExpires`,
`Cancelled` and `GraceExpires` are its other ways on; `deaf` racers ignore
cancellation.

**ApprovalGate** - one round is `ModelCallsTools`, then `ApproveBatch` or
`NoBatchApproval`, then per call a pass through the stages in the order of the
code, where each gate is an action that refuses and one that lets pass. `consent` and
`always` are histories of what people agreed to. `Delegate` and `Escalate` are the
two ways the read-only flag is lifted.

**GatedRace** - `OpenRace` starts a race for the call at the approval stage,
`RunRace` is any step of `PermissionRace`, `CloseRace` takes the outcome into
the gate. Between two races the race's variables have one value.

**ToolRound** - `todo` are calls not yet processed, `queue` what is admitted,
`groups` the flush under way, `settled` the results of the group at work that
have not been taken up, `talk` the messages of the round. A call of the group at
work may succeed, fail or time out in any order (`CallSucceeds`, `CallFails`);
results are taken up in order (`FinishCall`). What a call has done (`Does`) and what its
result says are two choices: a write with a success may have been refused or have found
the file as asked, one that fails may have replaced it, a check with a success may
have failed or run on in the background, and commands may edit files. The loop goes by the
result (`TakeEffect`), the histories by what was done: `seen` and `applied` (which writes a read
saw, which changed their file), `writes` and `checkedAt` (how many writes changed a file and
said so, and how many there were when the last check with a success ran), `sound` (a check
has passed and no file was changed since) and `slipped` (since the last write with a
success, a result did not say what its call had done).

**CapabilityCalls** - `pc` walks a caller through the gateways; `requests`,
`replies` and `reader` are the pipe to the remote server, which all calls share
and only one may read; `inflight` and `completed` are the ledger; `proc`,
`signalled`, `jobs` the local command. `Cancel` may hit a caller wherever it
waits, `PeerExit` the server at any time. A late reply stays in the pipe and is
read by the next caller.

**FileMutations** - a content is a number, new for each write. A tool knows it by
its text only: `Decoded` is what reading makes of it (`mcp.py` 2389 and 2478 drop bytes
that are no UTF-8, and line ends become one), `Redacted` what `_sanitize_store` makes of a
text with secrets (`state.py` 275-323). `write` is a
write between the file and its record; its pre-image is the decoded text, and a content that
does not read back as it was written is not recorded. `ledger` are the recorded changes with or
without their pre-image: those in memory have the text as it was read, and once the
state file is read back (`Reload`, in another process's wake, or `ResumeTurn`) they have it
redacted. `checkpoint` is what the turn's checkpoint holds. A revert writes the text that the entry has,
a step per file (`RevertNext`), and another program may write between any
two (`ExternalWrite`). `before`, `preimage`, `foreign`, `unrecorded` and
`evicted` are histories.

**ApprovalMailbox** - `status` and `created` are the table, `stage` and
`handling` a coordinator, `waits` a worker. Every SQL transaction is one step;
what a coordinator does between two of them is not, so workers, other
coordinators, deaths (`Die`) and the clock (`Tick`) come between.

**SessionStore** - `disk` is the file, `work[p]` the copy of a row that process
`p` has read and changed and not yet written. `Begin` is the read, outside the
lock; `Put` is `put_session_state`: lock, merge by id with the row as it is now,
caps, write. `Reserve` is the launch that takes a new id and reserves it in one
locked step, `Reuse` the one that takes an idle row, `Supersede`, `Fork`,
`ResetTaskState` and `ClearSession` the rest.

**StreamedCompletion** - `reply` is what a provider sets out to say, as a
sequence of letters, which recur, and calls in each of their written forms. A stream may break
between any two letters, so what a continuation begins with may look like a repetition and be
none: "Hel" is continued by "lo", and `Novel` (`_novel_continuation`), which
compares characters, drops the l. `Window` is how far back it looks, `from` the
item the provider began an attempt with: where it was cut, or before. `content` is
trusted, `pending` is the held-back tail, `durable` the partial answer that a
reconnection or the next route continues; `shown` and `saved` are what the user
and the checkpoint have. The provider may at any item stall, break, end early,
spoil the text, or repeat itself on a continuation.

**ProviderRoutes** - `cooling` is the process-wide health table, `nimKey` the
manager's current key; `call[r]` is the innermost call of a request together
with the rest of the fallback loop around it, for the code's recursive calls pass
on their exception unchanged. `Outages` are circuits left open by requests before.

**TypedInput** - `repl`, `turn`, `input` are the three tasks of the event loop
(the loop, the turn, the prompt of the composer); `listener` the composer's
flags, `queue` the instructions of the row with class, order and the time they
were made relative to this turn. A line is its number; `fate` says what became of it.
`pause_async`/`GateOpens`/`resume` lend the terminal to an approval. `spawn_background_task`,
`Announce`, `WriteRecord`, `read_job` and `FinishListing` are the job.

**UnifiedRuntime** - a caller is one call of the runtime: a turn, a stream or
a sub-task. From the lock to the start of the operation is one step; the
operation's end, the review, the journal and the checkpoint are not, and each
write may fail. `history` and `checkpoint` are what was recorded of a call.

**CompletionGate** - a tool record keeps what `validate_completion` looks at: whether it was
a success, whether a command's exit code was 0 or is not there yet, and the files an edit names or
git shows. What the call has written is no part of it (`Call(entry, written)`): an edit that was refused or had nothing
to change is a success that names its file, and commands write files too. `changed`, `hollow`, `git`
and `before` are histories: files that were written, that an edit named and did not write, that git showed, and
the ledger that a resumed turn goes on from. A resumed turn starts with any records, as
`_resume_tool_records` restores them. A report keeps what its wording claims. `Answer` is the loop's own look, with
the session's ledger merged in, `Judge` is `_finalize_completed_answer` and `CompleteTask`
the orchestrator's `complete`, with this turn's records alone, as the code
does; `Failing` names the checks that fail and `IsError` those that send the
answer back. Corrections and reroutes are counted as the loop counts them.

**RemoteAgent** - `phase[b]` is the bridge's task, `handler[r]` the task of a
request with the websocket it was given, `disk` the outbox file. `Drop` breaks
the connection, `Crash` the process; `Accept` is the server, which asks again
for what it has no result of.

## The runs

State counts are those of the complete state space.

| Run | Configuration | Distinct states | Properties |
| --- | --- | --- | --- |
| `task_run` | `MCTaskRun.cfg` | 1 161 935 | `NoIllegalTransition`, `ToolCallCeiling`, `NoBlindRepetition`, `PlanIsConsistent`, `CompletedStepsKept`, `TurnEnds` |
| `round_loop` | `MCRoundLoop.cfg` | 1 136 870 | `CompletedIsVerified`, `TurnEnds` |
| `gated_race` | `MCGatedRace.cfg` | 496 343 | `RiskyCallsAreConsented`, `ReadOnlyIsKept`, `GateImplemented`, `RaceSettles` |
| `tool_round` | `MCToolRound.cfg` | 2 110 392 | `ConflictsRunInOrder`, `ValidationIsFresh`, `ResultsArrive`, `RoundEnds` |
| `approval_mailbox` | `MCApprovalMailbox.cfg` | 86 682 | `HandledByOne`, `Promised`, `WaitEnds` |
| `session_store` | `MCSessionStore.cfg` | 1 203 352 | `SavedIsNotLost`, `FreshIdsDiffer` |
| `remote_agent` | `MCRemoteAgent.cfg` | 96 055 | `OneRunPerRequest`, `ResultsSurvive`, `EveryRequestAnswered` |
| `capability_calls` | `MCCapabilityCalls.cfg` | 261 562 | `OneLocalRunPerKey`, `AnswerIsOwn`, `NoStrayProcess`, `EveryCallerAnswered` |
| `file_mutations` | `MCFileMutations.cfg` | 3 739 147 | `RevertRestoresTurn`, `NothingLostToTrimming` |
| `provider_routes` | `MCProviderRoutes.cfg` | 551 618 | `NoRouteStranded`, `RotationIsFresh`, `RequestEnds` |
| `streamed_completion` | `MCStreamedCompletion.cfg` | 478 480 | `ReplyIsWhole`, `CallsAreOfThisReply`, `RequestEnds` |
| `typed_input` | `MCTypedInput.cfg` | 136 318 | `TypedTextIsKept`, `StopIsObeyed`, `AcceptedIsTaken` |

Deadlock is not checked: a turn, a race, a request and a swarm really stop. That
they stop where they should is what the properties with `Ends`, `Settles`,
`Answered` and `Taken` in their names say.

### What each shows, and within which bounds

*task_run.* The budgets are 1 (consecutive empty results 2), each with one
extension, and there are two rounds of two calls over two actions: enough to
spend every budget, take its extension, spend that, and go on calling. One
action is a command, so that the extra repair a failed command brings is there.
Plans have up to two steps: fresh, drafted, restored (with a step in progress
and failed steps before it, as a crash leaves them), replaced in mid-turn,
extended by a follow-up. Two steps are needed to have two in progress, or a
completed one to lose. `ToolCallCeiling` relates a counter to a ceiling that moves;
`NoBlindRepetition` counts executions with a history variable of its own, because the code clears its
counter; `PlanIsConsistent` says that one step is in progress and that an ended task leaves none open.

*round_loop.* Two routes of two providers; the small one is premium, and its window
is overrun when the conversation grows once. One round per budget, two
extensions, one of every retry, one kind of complaint: all counters reach their
limit together, and in any order. The code's values are larger - 40 rounds, 1000
extensions, 2 identical rounds (`IdenticalRounds`), a loop window of 6, 1 reminder, 1
correction per fault, 2 tries per check, 3 for an unfinished plan, 8 planned
reads, 3 hooks, 3 rollovers, 3 deterministic failures - but each is compared
with its counter alone, and 0, limit and limit + 1 are all the comparisons tell
apart. Four turns: free with edits and no project command; pinned, with the
project's test; resumed and pinned with a layout check only; resumed, strict,
with the test. In every round a command's result and what it did are chosen apart, so `CompletedIsVerified`
is about what has passed: it excepts a turn in which, since the last change that was reported, a result
did not say what was done (`slipped`), and no other.

*gated_race.* One call of each sort that some gate tells apart (ten), turns
whose settings open or close each gate (eleven), two rounds of two calls: what
one call leaves behind (an "always", a review flag, a lifted boundary) meets the
next call of the round and of the next round. Each single approval is raced task by task, with
any set of racers deaf to cancellation: the race is finite, so this is all of it.

*tool_round.* Two files, so that calls may and may not conflict; up to four
calls in rounds of up to three: a group of two with a third that conflicts with
one of them, and a second round that meets the first one's cache and flags.
Calls of a group settle in every order and may never settle by themselves. Each write, check and
command does what its result says or not; `ValidationIsFresh` says what a confirmation is
worth all the same: no write that changed a file and said so came after the check it rests on,
and unless a result since then hid something, that check passed on the files as they are.

*approval_mailbox.* Two swarms in two processes with one worker each, two
requests. The clock runs to 3, a worker waits 1, a request is stale after 2: the
order of 120 s and 900 s with the interesting coincidences. Processes die and
start again at any step.

*session_store.* Two processes, identical to each other and hence a symmetry
set (no liveness is checked in this run), two ids, two items of which the second
is more urgent, caps of 1: a queue overflows with the second item. Every
operation is split at the lock. The cursor, which meets no other field, does not
move in this run (`MaxEvent` 0). `SavedIsNotLost` joins the queue and the plans.

*remote_agent.* One bridge (two: see below), two requests, two connections, one
crash, one failing save, channels of two messages. A request can thus be sent
on the connection that breaks, again on the second, and again after the crash.

*capability_calls.* Two callers go through the pipe and have a local namesake, so
that a late reply meets another request and a broken pipe meets the fallback.
Two callers share key and arguments, a third has the key with other arguments, the
fourth none. Two run a command that completes, times out or is moved to the
background, whichever comes first, and may run again.

*file_mutations.* One source file and one artifact, which is trimmed and
reverted by other rules; two turns, four written contents, one change by another
program; a ledger of two entries and the bodies of one: the third change drops
an entry, the second a body. A turn may crash between a write and its record. The files found hold bytes that
are no text and a secret; of the contents written one holds a secret, one has line ends that reading changes,
one is plain text. With what decoding and redaction leave of them there are eight (`MaxContents`).
`RevertRestoresTurn` says that a reverted file is what it was before the turn, its
text, or its text with the secrets replaced (`Versions`), and nothing else: no
content of a later write, of the turn or of the one before.

*provider_routes.* A turn on AUTO with fallback and streaming, and a pinned
request without (the title). Two NIM keys and two models, two free OpenRouter
models, Ollama, the gateway: every rotation has one step and then an end. The
faults each provider may answer with are those its own branches tell apart. Circuits
may be open for Ollama only, or for everything, when the two requests begin.

*streamed_completion.* Replies of four items or less: letters from e, l and o, of which one recurs ("llo"), prose with a call in each of its
forms (native, as JSON, in tags) and one spoilt by a provider's channel marks. A tail of one item is held back; a
continuation repeats up to two letters, the window is three, so that a
repetition, an accidental one and both together fit into it. (The code's 8000
characters are more than most answers: a repetition that does not fit is not in this run, but is in the theorem.)
There are two reconnections and two routes where the code has three and more: the first continues what was
shown, the second continues after an attempt that was hidden, and no later one meets anything new.
The idle clock reaches 2 and the total clock 3: either comes first. `ReplyIsWhole` says
what is lost to an accidental repetition: the letters that the continuation says
after what it repeats, if with it they spell an end of what was there, and no others.

*typed_input.* Three lines: one in the queue, one in the prompt, one recalled
for rewording. Stops come from the keyboard, from the composer and from another terminal, in
every phase of a turn; approvals open and close at any time.

### Fairness

- `TaskRun`: weak fairness of `Loop`, the coroutine of the turn. What it awaits
  has a limit: the stream's time-outs, the tools' (`mcp.py` 3314-3424,
  `TOOL_CALL_TIMEOUT_SECONDS`). `EpochRunsOut` has no fairness: a turn may finish in time.
- `RoundLoop`: weak fairness of `Next`, one coroutine whose waits are limited
  by the stream, first-byte and tool time-outs and the deadline of the fallback.
- `ToolRound`: weak fairness of `Process`, and of each call's time-out. A call
  itself has none; it may hang, and `RoundEnds` must not depend on it.
- `GatedRace`: weak fairness of starting, waking, the classifier, its
  window and the grace period. None for the user, who may never answer: then
  the race waits, and `RaceSettles` is stated for races in which it need not.
- `ApprovalMailbox`: weak fairness of the clock and of the worker's poll only.
  Coordinators may stall or die; `WaitEnds` holds all the same.
- `RemoteAgent`: weak fairness of the bridge, its handlers, the server's
  reading and its asking again. Connections break a bounded number of times;
  `EveryRequestAnswered` excepts a bridge that used up its connections.
- `CapabilityCalls`: weak fairness of each caller and of the watcher of its
  job. None of the remote server: every wait for it has a limit. `Abandoned` is what is
  excepted from `EveryCallerAnswered` (divergences, below).
- `ProviderRoutes`: weak fairness of each request's steps; waits for the first
  byte and for the rest have limits.
- `StreamedCompletion`: weak fairness of the runner and of its clocks, none of
  the provider.
- `TypedInput`: weak fairness of what the event loop runs when it is ready
  (opening and closing the prompt, enqueueing, the loop's look at the queue, the
  end of a gate, of a pause, of a turn that was stopped), strong fairness of `TurnEnds`: a turn
  that goes through gates again and again ends nevertheless, as `RoundLoop` shows.
  `GateOpens` is a human's answer. None of the keyboard, another terminal or the job.
- `SessionStore`, `FileMutations`, `UnifiedRuntime`, `CompletionGate`: none,
  only safety is stated.

### What comments say and the code does not do

Some claims of comments and documents are stated as formulas that the model,
like the code, does not satisfy. They stand at the end of their module and no
run checks them: with one of them as the only property of a run, TLC ends with a
counterexample. What does hold is the property named last.

*`ApprovalGate!CatastrophicNeverRuns`*. `permission_race.py:15`: "a user's reflexive
"yes" at the prompt cannot resurrect `rm -rf /`". The approval of a batch
(`runner_local.py:11288`) is decided by `resolve_approval_decision_async`, which
does not consult the deny-list, and calls approved with their batch skip the race.
Holds: `RiskyCallsAreConsented`.

*`ToolRound!EveryCallIsAnswered`*. `runner_local.py:10963-10964`: "every tool_call_id
needs a matching role=="tool" response either way". When the same unoffered tool is called
again, the loop leaves the route (11130) without answering the round's calls.
Likewise, the `fresh_read` message inserted after a failed edit (11471-11510)
takes the place of the assistant message that later results of the batch belong
to, and `provider_protocols.py:312` drops them. Holds: `ResultsArrive`, outside
these two cases each call has exactly one result that survives.

*`SessionStore!CursorMovesForward`*. `state.py:1161-1163`: "Sequence ids only ever move
forward for a given session -- never regress state from a stale/out-of-order
write (e.g. a slower concurrent `logs --follow` process finishing after a newer
one)". The maximum (1164) is taken with the copy read before the lock.

*`RoundLoop!ResumedIsVerified`*. `runner_local.py:11541-11543`: "A further edit
after a clean verify run invalidates that result -- require re-verifying
against the latest code, not whatever was true before this change." A resumed turn
(8464) restores the flag from any successful saved command, before or after the edit.
`orchestrator/validator.py` (about 718) ignores the order in the same way.
Holds: `CompletedIsVerified`, for turns that were not resumed.

*`ToolRound!ConfirmedHasPassed`, `OnlyChangesCount`; `RoundLoop!FailedCheckIsFatal`.*
`runner_local.py:3478-3479`: "the model must see the operation's truth, not only transport
success". `call_tool` (`mcp.py` about 1852) reports a success when the handler returns;
`_semantic_tool_failure` (3472-3509) finds some failures in the text of a result, and no exit code. So
11572-11577 takes a check that failed, or one that Ctrl+B moved to the background (`mcp.py` 3400-3417),
for one that passed, while the restoring of records (8447-8455) and a command called directly (12609) do look at
the exit code. `runner_local.py:10688-10690`: "Real functional checks [...] still hard-fail". `mcp.py:2410`:
"Identical content is a truthful result, never a mutation", but the text
that says so is a success, and 11529-11545 sets `any_mutation` for it, as for
"❌ Refused destructive replacement" (2391-2403) and "❌ Failed to verify write" (2420-2421).
Hold: `ValidationIsFresh`, `CompletedIsVerified`: what such results cannot
do is outlive the next reported change.

*`CapabilityCalls!NoReplayAfterRemoteRun`*. `capability_gateway.py:377`: "A local retry is never attempted after an ambiguous
remote execution". 400-423 send the request to the local gateway when the
transport fails or times out, whether or not the server had read it.
Holds: `OneLocalRunPerKey`, `AnswerIsOwn`.

*`FileMutations!RevertDeletesOnlyCreated`*. The help of `revert` (`cli.py:2604`):
it "restores each file to its content before that change, or deletes it if that
mutation created the file". `mcp.py:3061` records an artifact without a pre-image, also
one that replaced an older file, and its revert deletes it. Holds:
`NothingLostToTrimming`, for files that are not artifacts.

*`FileMutations!RevertRestoresBytes`*. `safety.py:625`: the original content is "the exact
pre-mutation bytes needed to restore". It is the text that `read_text` made of them with
`errors="ignore"` (`mcp.py` 2389, 2478), and, once the state file is read back, that text with its secrets
replaced (`_save_raw`, `state.py` 640-680, 275-323): a revert (`safety.py` 673-679) then writes the placeholder into
the file. Holds: `RevertRestoresTurn`, up to `Versions`.

*`StreamedCompletion!ReplyIsNotCut`, `JsonIsNoAnswer`*. `runner_local.py:5334-5339`:
"Let the reply finish: the follow-up is already queued", but a reconnection
forgets that it was put off. 5535-5536: "the JSON itself is never returned as an
assistant answer", but one that ends in the held-back tail is not looked for. Hold: `ReplyIsWhole`, `CallsAreOfThisReply`.

*`StreamedCompletion!NothingLost`, `NothingRepeated`*. `runner_local.py:2276`: "reconnect without losing or
duplicating text". 2395-2408 drops the longest beginning of the continuation that the text ends with: "Hel"
continued by "lo" becomes "Helo". A continuation that stops inside what it repeats is no such
beginning, and that part is shown twice. Holds: `ReplyIsWhole`, for the rest.

*`TypedInput`, five*. `FarewellIsNotATask`: after a farewell "the interaction is
over" (`live_input.py:1749`), but it is queued in a class that neither the turn
nor the loop (`interactive.py:1751`) takes for a stop, and the loop runs it as a task.
`NothingIsStranded`: a claimed instruction "must not stay `running` forever"
(`runner_local.py:6472`), but one claimed together with a stop does (9202-9208).
`EnterIsHeard`: a message dropped by a teardown was a bug mended (`live_input.py:1395`), but a line
entered just before a gate closes the prompt is dropped (1440-1449).
`StopsOfThisTurnCount`: a stop made "BEFORE this run started targeted a previous
run" (`runner_local.py:6452`), but the start is noted after planning (9138).
`CompletedStaysCompleted`: a job that succeeded is not "later misreported as
merely stopped" (`background.py:121-123`), but a listing that read the record
before it was written, and looked for the process afterwards, writes just that
(92-105, 186-203). Hold: `TypedTextIsKept`, `StopIsObeyed`, `AcceptedIsTaken`.

*`UnifiedRuntime`, three*. `SubtasksAreRun`: `execute_tasks` (`agents.py`) is to "Fan out N
sub-objectives concurrently", but each goes through the one runtime of the
process, which refuses a second execution (`unified.py:122-123`). `NeverQueued`: "Fail
fast instead of queueing a second agent behind the first" (119-121), but a call
that finds the lock free and promised to a stream queues. `ReturnedAsRecorded`:
the reviewer is to "block unsupported completion claims" (`cognitive.py:4-5`),
but the record says partial and the caller is handed the result that says
completed (268-280). Hold: the four theorems.

*`CompletionGate`, four*. `SuccessWrites`: `_successful_mutation_paths` is to "Return paths written by successful mutation
tools" (`validator.py:366`), but the path of an edit that was refused, or had nothing to
change, is among them. `FixIsReal`: "a fix/change request needs a real
mutation, verified existing diff, or evidence-backed no-change conclusion" (`runner_local.py:10809-10811`), but
such an edit counts as a mutation, and for a resumed turn so does any entry of the session's ledger
(8422-8437). `ReadOnlyNeedsNoChange`: "The effective runtime mode is
authoritative; do not demand a mutation in read-only" (`validator.py:651-653`), but
`complete` (`engine.py:920`) does not pass that mode on, and a read-only debug turn that
two judgements let through is refused by the third. `PreflightIsExact`:
"Preflight the exact deterministic validator" (`runner_local.py` about 10747), but
the preflight merges the session's ledger (10764-10793), so a new edit turn in a session with
earlier edits passes it with nothing done, skips the corrections and is refused
by the finalizer. Hold: the three theorems. `ClaimsAreBacked` names the edits that
reported success without a write as what they are, and `NewFixProvesItsWork` is "a brand-new task
must still prove its own work" (8420-8421): it says nothing of resumed turns with a ledger.

*Two bridges of one device* (`remote_agent.py:92-94`, 106) need no formula: with
`Bridges = {b1, b2}` `ResultsSurvive` fails. Both read the outbox file when they start; b1
records r1's result and replaces the file; b2 records r2's and replaces the
file by its own, without r1. The server, cut off, has neither; a crash now loses r1's result, and r1 runs again.

## The proofs

TLC checks instances; the theorems hold for every value of the constants that
satisfies the named assumptions: `BudgetsAssumption` and `TurnAssumption`
(budgets are natural numbers, the tool budget and the repetition limit
positive as the code needs), `GateAssumption` of `ApprovalGate` (calls are
calls, file mutations are risky, bounds are positive), `MailboxAssumption`
(a worker waits for less than a request takes to become stale),
`RoundLoopAssumption` (of the types of its constants, and that counted retries
are at least one),
`RoundAssumption` (of the types of `ToolRound`'s constants),
`StoreAssumption` (bounds and priorities are natural numbers, a list has room for
one entry), `RemoteAgentAssumption` (a request has one home),
`StreamAssumption` (of the types of its constants; a reply says nothing but letters twice, and
the arguments of a call come after it), `TypedAssumption` (lines
are numbers, and `None` is none of them),
`CapabilityAssumption` (a caller has one request, with a key or without),
`FileMutationsAssumption` (of the types of its constants, and that the ledger
keeps one entry), `TextAssumption` (what was decoded or redacted stays as it is when
that is done again, redaction leaves text, and neither makes a file of none or none of a file),
`GateAssumption` of `CompletionGate` (of the types of its constants),
`RoutesAssumption` (the order of providers lists each once, each has a model, `AUTO`
is none of them) and
`RuntimeAssumption` (what the sets of callers are; a sub-task has one parent,
which is no stream). All are ASSUMEs that TLC evaluates, but for the last and the one of
`CompletionGate`, whose modules have no run; these are hypotheses of the theorems that need them.

`TaskRunProofs`
- `NoIllegalTransitionTheorem`, `ToolCallCeilingTheorem`, `TerminalIsFinalTheorem`:
  the invariant is `ControllerInv`. The ceiling is not inductive by itself: an
  extension takes back only the failure of its own budget, so one has to know
  which failures can be outstanding (`BudgetFailuresFinal`: a repair or
  plan failure only once its extensions are used up, never one for time). `Sound` joins this
  to the type of the snapshot, and each controller method has a lemma that it
  keeps `Sound` and leaves terminal phases alone (`Follows`). The proof of a step
  cites these method by method.
- `NoBlindRepetitionTheorem`: `CountsInv` ties the history of executions
  to the controller's own counter.
- `OneStepInProgressTheorem`, `EndedPlanIsClosedTheorem` and, from both,
  `PlanIsConsistentTheorem`: `PlanInv`, for plans of any length, with a lemma for
  each operation on plans (advance, close, deliver, append, restore).
- `CompletedStepsKeptTheorem`, an action property: the same lemmas, with what
  each operation does to the steps before the one it touches. They need the
  first step that is in some status to exist and to be the least: `LeastElement`, from
  the library's fact that < is well founded on the naturals.
- `TypeOKTheorem`: with `LoopInv`, which adds the place in the loop.
- `TerminalIsFinalTheorem` states an action property that no run checks: an
  extension takes back a failure before the loop sees it, never afterwards.
- `TurnRunsDown`, the argument behind `TurnEnds`: a measure of nine numbers (rounds, answers that
  may be sent back, the stages of a round, calls to guard and to take up, plans, follow-ups, the
  epoch's time) gets smaller with every step. The budgets of the controller do not occur in it: an
  extension or a renewal lets one call through, which has left the batch. The number
  of rounds does; that the loop has finitely many is `LoopRunsDown`, below.

`ApprovalGateProofs`: `IInv` = `Types` /\ `ApprovedTogether` (what a batch
approval covers, policy or somebody approved) /\ `Past` (what a call at a later
stage has passed) /\ `Boundary` (what may have been lifted, and by whom) /\ the
properties. Its step lemma has one case per gate. From it `TypeCorrect`,
`ConsentBeforeExecution`, `UserReadOnlyHolds`, `LiftIsTheUsers` and
`ReadOnlyIsKeptAlways`, for any calls,
turns, rounds and batches. `HighestIsHighest` is the fact about the policy that
makes batch approval sound: a policy that approves the highest risk approves each.
`GateIsImplemented` is the refinement by the race. `RaceInv` says that a race that runs is
about the call at the approval stage, asks the policy the gate would ask, and
that what it will settle on is in `RaceOutcomes`. A step of the race alone is then a
stutter of the gate, a call that passes its race is the gate's one choice, and
the other steps are the gate's own. The safety of the gate carries over:
`GatedCallsAreSafe`.

`RecordProofs`, of `ApprovalMailbox`: `IInv` = `TypeOK` /\ `OneWaits` (a request is awaited by
one worker) /\ `HeardIsFiled` /\ `HeldIsClaimed` /\ `HandledByOne`. From it
`TypeCorrect`, `OneCoordinatorEach` and `MailboxKeepsPromise`: under the mapping
`Abstract` (pending and claimed are both an open request) every step of the
mailbox is a step of `ApprovalPromise` or a stutter.

`RecordProofs`, of `FileMutations`: `FilesInv` = `FilesShape` /\ `Numbered` (the entries are in the
order of the writes, and one of a text file that has its body, and no text in it, created the file)
/\ `Known` (what is recorded was noted when it was written) /\ `Chains` /\ `Undoing` (a revert
has exactly the changes in place before it, the newest first). That a reverted turn is
restored cannot be seen from one entry: each has the content that the one before it left, not
what the turn found. `Chains` says this of every turn and path that is `Clean` (nobody else wrote
the file since, each write has a usable entry, the cap dropped none): the file
holds what the latest change still in place left, and each entry that has its body what
the change before it left, the first one what was there before the turn - each up to `Versions`, for
what was reverted, or went through the state file, is not the content itself. That decoding and redaction lead from
a version of a content to a version of it is `LeavesVersions`; `ReadBackInv` is the step that redacts
the whole ledger. Between the
write and its record the file is ahead of the ledger, so the chain is about `Held`,
the content before that write. The lemmas say what a chain survives: one more entry
(`ChainGrows`), the undoing of its newest (`ChainReverted`), the loss of bodies, and
a cut that takes no entry of the turn (`ChainCopied`, with `Trimmed`, `KeptNewest` and
`Recorded`). A revert meets the newest first because `UndoOrder` counts the
entries down (`CountedDown`); when nothing is left to undo, the end of the chain is what was before the
turn. From it `RevertAlwaysRestoresTurn` and `NothingIsLostToTrimming`, action
properties, for any files, turns, writes, caps, and any decoding and redaction that meet the assumption.

`InstructionProofs`, of `SessionStore`: `IInv` = `TypeOK` /\ `RowsHold` /\ `CopiesHold` /\ `Reserved`
/\ `FreshIdsDiffer`. A list *holds* an entry if the entry is in it, or a full
list of what pushes it out. That the rows on disk hold what was queued and saved is the
property; it needs that the copies which processes have read and will write hold what
is new in them, and that an id without a row has no history. The lemmas are
about lists that keep their tail, for any strict total order of the entries: what a list
holds is held by a longer one (`LongerHolds`) and by its tail (`TailHolds`, from
`TailPushesOut`: take the entry with the least number above it that is still
pushed out; all of those are in the tail), and the tail is within its limit
(`TailIsShort`). `MergedRow` applies them to `Merged`. From it
`NothingSavedIsLost`, `FreshIdsAlwaysDiffer` (with `FreshIsNew`: the next id is above
all known ones) and `RowsAreInBounds`, for any processes, sessions, entries and limits.

`InstructionProofs`, of `TypedInput`: `TypedInv` = `TypedShape` /\ `Hands` (where a line is that
is typed or entered: before the user, in the draft, on its way) /\ `QueueOk` (the
lines in the queue are accepted ones, each once) /\ `StopOk` (a turn that was stopped in its
rounds, and still goes on, has a stop of its rounds in the queue). That no line reaches a
model twice needs `QueueOk`: what is given leaves the queue in the same step. That a stop ends the
turn needs `StopOk` in the gate, where the cancellation is swallowed. The
lemmas are about lists: one with an item more (`InsertedItem`), one less (`RemovedItem`,
`RestOfQueue`) and the items at some positions (`ItemsAt`, counting those below
each); what is drawn from a queue without repetition is a queue (`DrawnFates`). From it
`TypedTextIsAlwaysKept` and `StopIsAlwaysObeyed`, for any number of lines.

`DeliveryProofs`, of `RemoteAgent`: `IInv` = `Types` /\ `HandlersRun` (a handler works for a request
that its bridge counts as running) /\ `Queues` (after an acknowledgement its
request does not come again on that connection) /\ `DownIsSilent` /\ `Runs`: a run that no
crash took is `Held` - its result is with the server, in the handler's hand, in the
outbox, or in the file - and where the request could start once more, because it
is on its way again, the bridge has the result and will see so. `DownIsSilent` is
there because `Runs` is not inductive without it: a bridge that is restarted
would find a request in the queue of a websocket that died with its predecessor.
From it `OneRunAlways`, for any bridges and requests; and, with `FileIsOutbox`,
`ResultsAlwaysSurvive`. The second assumes one bridge, as its run does: with two it is
false, see "Two bridges" above.

`DeliveryProofs`, of `StreamedCompletion`: `CallInv` = `StreamShape` /\ `ReadOnce` (a call in tags
or in JSON was read once at most, by this attempt; the arguments of half a call
are still to come) /\ the property, with what the end of a stream says of its calls: corrupted
means bad, stopped means no half of a call. The property speaks of the result alone;
that the result has each call once needs that an attempt starts with nothing of the one
before it (`AskCalls`), and that a reply is read from front to back. From it
`CallsAreAlwaysOfThisReply`, for any replies, limits and routes.

`TextInv` is about the text: `TextShape` /\ `Reached(durable)` (the saved partial answer is what the
reply says up to its last item) /\ `Said` (an attempt has said what the reply
says from where it began up to where it is, and it began at the first item or not after the end
of the partial answer) /\ `Remembered` (what is saved is that text
as far as it left the tail that is held back) /\ `Closing` /\ `Answered`. The property
speaks of the text that was shown and saved; between a break and the continuation
one has to know where in the reply the next attempt began (`OnwardIs`). What is dropped of a continuation is
its longest beginning that the text ends with (`NovelIs`, from `SuffixIs`, `CutAt` and `LargestIs`): at
least what the attempt repeated, where it got past that and the window is large enough, and
what is dropped beyond it completes, with it, an end of the text (`Spliced`). That is all
one can say when letters recur, and it is what `Continued` says. What
a text has of a set of items (`Only`) is defined by counting positions; `CountedUp`
gives what it is of a text with one more item (`OnlyAppend`), and induction over texts, once for a
set of them (`Induction`, from `LeastElement`), what it is of two texts joined (`OnlyJoined`).
`Told(r, S, a, b)` is what a reply says of `S` from one place up to another (`ToldCat`). From it
`ReplyIsAlwaysWhole`, for any letters, replies, repetitions, windows, limits and routes.

`RequestRunsDown` is the argument behind `RequestEnds`: a measure `Rank` (the routes
left, the reconnections left on this one, the stages of an attempt, to which belongs the
time of its stream), ordered lexicographically, which is well-founded. Each step
of the runner and each tick of its clock makes it smaller, and whatever the provider sends or
the user types leaves it as it is or makes it smaller: keepalives, reasoning without end and
reconnections push no deadline back. `Budgeted` keeps the measure a triple of numbers.

`DispatchProofs`, of `ToolRound`: `RoundInv` = `Types` /\ `Placed` (a call waits in the queue
or in the groups of a flush, never in both, and the stage says where) /\
`Ordered` (what is done comes before what is grouped, that before the queue, and
that before the rest; the calls of a group are apart) /\ `Effects` (reads that ran
are ordered) /\ `Fresh` (what the turn knows of its writes, but for the results it
has yet to take up; a check with a success is of all writes that said so, and passed on the files as they
are or something slipped). That a group's members are apart and the groups in order is what
the grouping of a queue promises (`GroupingCuts`). It is defined by recursion on
the length of the queue; both that such a function exists (`SplitExists`) and what it
returns are proved by the least length for which they would fail. When a call settles
(`SettleFinds`), whatever ran before a call is apart from it, or finished and
before it. So a read has seen every earlier write of its file and no later one, and
no write shares a group with a check, which is why a check with a success is of all
writes so far even before its result is taken up. From it `ConflictsAlwaysRunInOrder` and
`ValidationIsAlwaysFresh`, for any calls, files and sizes of batches.
`TalkInv` adds the conversation: the model's calls, then one answer for each call that is no longer
waiting, queued or at work. Three lemmas carry it: `AnswersToEach` (`AnswersTo`
numbers the calls by how many are below them, which meets each of them once),
`TalkGrows` (answers to calls that were waiting) and `FinishWork` (what a result taken up leaves
of its group). From both `ResultsAlwaysArrive`.

`RoundRunsDown` is the argument behind `RoundEnds`, for rounds of any size: the
lexicographic order of calls the model may still make, phases of the round, calls without an answer
(`Unanswered`), calls the loop has not reached, the queue, and what runs. A flush in the middle
of a round takes the loop back to its calls, but a call that was queued is then waiting no more, and
one that is taken up has its answer; that the taking up of each result leaves one call less is `FinishWork` again.

`DispatchProofs`, of `CapabilityCalls`: `IInv` = `TypeOK` /\ `Ledger` (a key is in flight or
completed, never both, by a caller of that key; who runs or has started a process under
a key holds it) /\ `Waiting` (who waits for a key has the arguments of its
owner) /\ `AnswerIsOwn` /\ `Processes` (only callers that run start one). From
it `CapabilityTypes`, `OneLocalRunAlways` (two processes of one key would each hold
it), `AnswerIsAlwaysOwn` and `NoProcessStrays`, for any callers, keys and arguments.

`RuntimeProofs`, of `UnifiedRuntime`: `IInv` = `Types` /\ `Inside` (who is inside holds the
lock, and its task is the active one) /\ `Operations` (which calls run
operations, and when) /\ `Recorded` (a record is of a call that is over) /\ the
properties. That one operation runs is not inductive alone: a call whose setup failed
leaves its reservation behind, and the stream's task is looked at where the
others' operation is. From it `OneOperationAlways`, `RecordsAreTrue` (each
execution recorded once, as completed only if reviewed), `NothingIsLeftRunning` (unless a write
failed) and `DelegatedNeverRuns`, for any number of callers.

`RuntimeProofs`, of `ProviderRoutes`: `RoutesInv` says of each request that it is `Fine`: of
its type, `OnRoute`, `OnKeys` and `NotStranded`. `OnRoute`: in the loop over the
fallbacks each provider of the order was asked, is being asked, or is left; and
`AUTO` is resolved only before anybody was asked or for a smaller context. Without
the second the first is not inductive: a request that resolved `AUTO` inside the loop would
drop the provider it was about to ask. `CandidatesAreAllOthers` starts it: the fallbacks
of a provider are all others of the order. `OnKeys`: the keys that failed and the key in use
are an arc that ends at the key in use; the next key, modulo their number, is then
outside it or the arc has all keys (`NextOfArc`), in which case the code does
not rotate. Circuits and the manager's key, which other requests move, occur in
neither; that is why they hold for any number of requests. From it
`NoRouteIsStranded` and `RotationIsAlwaysFresh`.

`CompletionProofs`, of `RoundLoop`: `LoopInv` = `Credited` (something slipped, or what counts as
confirmed or run has passed since the last change, a look at the layout excepted)
/\ `OnTheWay` (an answer that the loop let go was verified then and still
is). `CompletedIsVerified` speaks of the end of a turn alone and is not inductive:
between the check and the end an answer is continued, judged, rerouted and held by hooks,
any of which may send it back to the rounds, where a change voids what was confirmed.
Nearly all actions are `Beside` this: they leave the work, its checks
and the answer alone; the others have a step each. From it `CompletedIsAlwaysVerified`,
for any project, routes, budgets, corrections and numbers of rounds.

`LoopTypes` has the limits of all counters of the loop. On it rests `LoopRunsDown`, the argument
behind `TurnEnds`: every step makes a measure `Rank` smaller, in the lexicographic order of
nine numbers - extensions left, rounds left (`Room`), how far the round has got (`Asking`),
passes of a fallback left, its candidates left, answers that may be sent back to the rounds
(`Returns`), routes that have not stalled (`Elsewhere`), nudges left, and the steps
between the cap and the end (`Closing`). No single counter falls all the time: a hook
refuses an answer after the last round and the turn goes round again, a stalled route is left and its nudges
start anew, an extension brings rounds back. The order of the components says what each
of these costs. A route that stalled may be returned to by a
fallback; that costs a returned answer, and leaving it again makes `Elsewhere` smaller by the one that
counts for being on it. So a turn has finitely many steps for any limits, routes and
providers; `Rank` and the theorem assume nothing of what the model answers.

`CompletionProofs`, of `CompletionGate`: `IInv` = `Types` /\ `HistoryIsFound` (what the history
says and what the gate finds in the records: the last check failed or not, git showed the same
files, the files of edits with a success were written or are `hollow`, and the turn counts as one
that changed something for such an edit or for the ledger it goes on from, and for nothing else) /\ `CompletedPassed` (a completed turn passed the terminal
judgement on the records it ended with). The lemmas on `Append` carry
`HistoryIsFound` over a tool call. From it `RedIsNeverCompleted`,
`CompletedClaimsAreBacked` and `NewFixAlwaysProvesItsWork`, for turns of any length, new or resumed.

Only model-checked: everything that needs fairness (the properties with `Ends`,
`Settles`, `Answered`, `Taken`), which the prover does not do, like ENABLED. Of `TurnEnds` (of the
turn and of the loop), `RoundEnds` and the stream's `RequestEnds` the descent is proved; that some step is always
possible before the end, and is taken, is TLC's part. For the `RequestEnds` of `ProviderRoutes` no
measure is given: another request that succeeds, or time that passes, closes a circuit
and so gives a model back. Every
invariant and every action property of the runs is stated by a theorem. The library's induction theorems take an operator for
their predicate, which the prover cannot instantiate; where an argument needs
induction, it takes the least counterexample from a well-founded relation. No
theorem says what a fold computes, and no module uses a recursive operator.

## What the models leave out, and what was seen on the way

The models abstract from texts: prompts, answers, command lines, paths and
messages. What they decide (the risk of a command, whether an answer narrates
work, whether a result is useful, which healthy model comes first) is a free choice or
a fact of the call. Of the modelled parts, the note of each component in
`PROJECT.json` says what is missing.

### Not modelled

- *Workspace authority and worktrees*: containment of paths and isolation by
  git are answered in one call about names; which call leaves the scope is a
  fact of the call.
- *Open agent platform*: started from the automation commands or as a library.
  Leases (`openhands/leases.py`) and automations are read, changed and written
  without a lock, so two processes can both acquire a lease; there is no
  exclusion to state. Its agents run through `UnifiedRuntime`.
- *Remote-workspace runner, API client*: clients of a service outside this repository.
- *Context and compression*: what is kept depends on the content of messages.
- *Text patterns and hooks, telemetry, command line, rendering, workspace
  helpers, spreadsheets*: texts, formats and calls to other programs.
- Of `runtime/`: the rotation of the journal and the contents of ledger and
  evidence; formats without a protocol.

### Divergences without a formula

The following differences between the code and its comments or documents were
met while modelling. The models follow the code.

*Approval*
- `permission_race.py:232` says the classifier's denial wins; 294 takes whichever
  finished racer the set yields first.
- `tool_policy.py:48-50` ("admits only proven non-mutating commands, and runner_local.py
  rejects everything else") against `runner_local.py:12155`: in a read-only turn a call
  outside the scope may mutate if it is approved. `ReadOnlyIsKept`
  therefore speaks of calls inside the scope.
- `runner_local.py:7591-7606`: resuming an interrupted change lifts read-only,
  although 7608-7611 call the user's wish "an absolute user promise that must
  never be auto-lifted mid-turn". It happens before the turn starts, so the property is about turns
  that did start read-only.
- `runner_local.py:1626`: leaving the scope makes "even read-only file tools
  classify as dangerous and therefore require explicit consent", but
  `permission_race.py:141` approves a read-only tool by its name, whatever its risk.
  `RiskyCallsAreConsented` excepts reads for this reason.
- `README.md:278-281` of the repository promises that what an `ask` rule matches is
  asked about; with a live configuration at hand, `runner_local.py:914` puts the
  configured policy in the place of that "ask".
- `runner_local.py:11667-11668` against 11247: a call whose cut-off arguments
  were recovered is judged by the rules on its empty arguments.
- `runner.py:250` against `permission_race.py:173`: "always" given in the race is not remembered
  (the branch at `runner_local.py:12405` is dead).
- `runner_local.py:11288`: the batch approval comes before the mailbox, so a worker's batch is
  approved by its policy although 12266 says "a sub-agent cannot approve its own
  mutating call".
- `runner_local.py:12092`: the second mutation of a round passes the pre-change
  review; 12082-12083 say a plan "must not silently authorize the first mutation
  in a complex code task".
- `swarm.py:169-173`: only requests older than 900 s are swept, while workers
  wait 120 s; a coordinator can answer a request its worker has given up. A claim
  whose `resolve` raised is claimed by nobody again (the worker times out, see
  `WaitEnds`). A coordinator answers any swarm's requests under its own policy.

*The turn*
- `budgets.py:1` ("Hard execution budgets") against `engine.py:847`: `mark_repair`
  fails the task and returns, its caller goes on, and the loop may still return
  a completed outcome for a controller that failed.
- `resume.py:70` against `engine.py:808`: the banner names the first step that is
  not completed, a failed one included; the plan resumes at the one in
  progress or the first pending one.
- `runner_local.py:8726`: after a rejected answer, an edit that was never applied, a live
  cancel or a partial outcome the session row stays "running"; `state.py:739`
  promises "True if `state` looks like a live process working right now, as
  opposed to a session that merely finished". Several failing returns leave the
  checkpoint "running" (9068-9075, a context too large, an empty continuation).
- `runner_local.py:9158`: the round counter and the cap are raised together, so
  the extra round is never run; 9155-9157 say "Grant exactly one model round
  after the normal loop nudge".
- `runner_local.py:9727`: a fallback is not fitted to its own window; 9251-9252 say
  "Never fire a request already guaranteed to blow the provider's context window".
- `runner_local.py` about 9755: an audit's synthesis round gets its tools back on failover (comment 9212-9216).
- `runner_local.py:8466-8472`: the answer given after a stuck loop bypasses the checks
  before completion; `CompletedIsVerified` excepts it (`rescued`).

*A round of tool calls*
- `runner_local.py:11989`: a read is answered from the cache while a write of the
  same path waits in the queue; 11320-11321 promise strict order "whenever running them out of
  strict order could change the outcome". What `ConflictsRunInOrder` says of reads is about reads that are executed.
- 11790: queued calls are dropped when the turn stops at a repeat; 11815 says "Calls already
  queued from earlier in this same round must still run and get a matching tool
  response before the round ends".
- 11406-11408, 11655: "continue", returned from the stuck-loop handler inside a
  batch, ends the turn. 11653: a stall in the middle of a group ends the turn with applied writes unrecorded.
- 11020-11026: malformed calls in a mixed batch are answered as "unoffered". Commands, delegations and kills never clear the read
  cache; delegated edits do not clear `validation_confirmed` (11541).
  `_conflicts` compares paths as spelled. 11947: `delegate_agent` overwrites `objective`.

- `mcp.py` 2419-2428: a write that raises after the file was replaced (the strict reading of
  what was there, the record of the mutation) is a failure with the file changed.
  A text with `\r\n` does not read back as it was written, so it is reported as not
  verified, and is not recorded. What a command edits is in no ledger, voids no
  confirmation and clears no cached read.

*Files and resumption*
- `safety.py:679`: a revert writes the file in place, not by a replacement; a crash in that write is not modelled.
- `resume.py:138-164` appends older commands that succeeded after the records of the
  checkpoint, so that an old success may stand last and hide a later failure
  from `validator.py:778-779` ("A later failed check/build must invalidate an earlier successful command"); "last" in
  `RedIsNotCompleted` is the order of the records.

*The store*
- `runner_local.py:6436-6440` claims an instruction once; the merge
  (`state.py:1093`) lets the writer's copy win, and a stale copy puts it back.
- `state.py:784` keeps "the most recent entries"; the list is in order of priority
  (1094), so the most urgent go first. `SavedIsNotLost` states the order the code has.
- 3387-3391: a fork computes its id outside the lock (comment 3175-3181).
  `FreshIdsDiffer` is about launches. 3329-3338: a stale write brings a cleared
  session back. 3001: the task checkpoint is written "atomically" in two writes.
  2889-2892 against 2908-2911: the escalation after failures counts all of them.
- 786-802, 1091, 2941: so, of more than 200 queued instructions, the most urgent
  are dropped. `runner_local.py:6441-6470`: the claim of queued instructions is not one
  step, and 6475-6490 mark one completed before the message it became is saved.

*Streams and providers*
- `runner_local.py:2491-2493`: a retry with another key, model or provider
  after the stream has started repeats what was shown; a reconnection does not.
- 2395-2411 against 2276: a continuation that repeats in other words is taken for new
  text. 9890-9932: a partial answer taken over on a
  recovered route is not trimmed.
- `providers.py` about 2649: the rotation of OpenRouter's models is to be
  "bounded to one pass", but the model found untried is not the one asked: the
  call with `model=None` picks among all healthy ones anew, a tried one if another
  request's success has reopened it meanwhile.
- `resolve_route` with every circuit open fails at once, although
  `fallback_candidates` promises to fall back to cooling routes.
- 1742-1756 against 531-535: an answer to an older request reopens a provider
  that was parked for lack of credit. A pinned model of OpenRouter outside the
  pool that fails parks the whole provider.
- A silence before the first byte and an empty stream are recorded twice in `route_stats`;
  `ollama_pacing.record_request` updates its file without a lock; the retry with a
  smaller context resolves AUTO again, perhaps to another provider.

*Typed input*
- `interactive.py:1751`: a queued slash command, or "exit", is claimed and never
  marked completed. `/exit` during `/execute-plan` does not leave.
- 548-570, 1764: the result of a background job closes the idle prompt and drops
  a half-typed line with its pastes; a half-typed line in the composer is lost when the turn ends.
- 3388, 3579: `/execute-plan` as the first command of a session finds `outcome` unbound.
- `state.py:2948-2955`: a stale save makes a claimed instruction queued again.
- `live_input.py:895`: `pause_async` suppresses `CancelledError`, so a Ctrl+C
  during the planning question (`runner_local.py:7481`) is swallowed. In the
  rounds, `StopIsObeyed` shows that the queued stop makes up for it.
- A correction of the scope may be taken as live text by the next turn, which
  then does not start again with the narrower scope. A recalled line stays in
  editing through `/btw` and `/status`.

*Calls below the dispatch*
- `capability_gateway.py:587`: a caller that waits for the owner of its key waits for
  ever when that owner is cancelled: `CancelledError` is no `Exception`, so the
  future is never settled and the key stays in flight (`Abandoned`).

*Runtime and completion*
- `delegate_agent` and `delegate_parallel_tasks` of a running turn go through
  `DelegatedCodingAgent.execute` to `run_local_agent_turn`
  (`runner_local.py:12622-12654`) and `get_unified_runtime`, which that turn
  occupies: they never run (`DelegatedNeverRuns`). Of a `/swarm` the first task
  runs. The same holds of parallel sessions of `acp.py` (216) and of `openhands/agent.py` (83).
- A cancellation after the operation has finished is recorded as "cancelled"; when
  `mark_turn_checkpoint_interrupted` raises, there is no record and the
  checkpoint says running; a setup that fails leaves `_runner_task` set
  while the caller's task lives.
- `validator.py:243-283` accepts a verified answer that no change is needed; the
  reviewer records it as partial. `determine_completion`
  (`orchestrator/completion.py`) has no caller.
- `openhands/automation.py`: `run_due` saves its list after a run, and undoes a
  concurrent removal.

## The plan

Done, in this order: the controller and the turn; policy, race and gate; a round
of tool calls; the mailbox and its promise; the session store; the round loop;
the remote agent; capability calls and commands; files and reverts; provider
routing; the gate with its race; streamed completions; typed input and jobs; the
unified runtime; the completion gate.

Proved: the controller and its plan, a round of tool calls, how turns and rounds run out, the gate, its race and their refinement, the mailbox
and its promise, the session store, the remote agent, capability calls, the
unified runtime, the routes and keys of a request, the calls and the text of an answer and how its
request runs out, typed lines and stops, the verification of completed turns, the completion gate, the ledger of
changes and its reverts.

To come, of the system: what of the ledger survives a resumption, the pairing of calls and
results in compression, and the multi-agent parts that do not go through the mailbox.
