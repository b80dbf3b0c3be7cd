# Formal model of subbrain

This directory holds TLA+ models of the parts of subbrain whose correctness depends on order, time and
failure, the TLC configurations that check them on small instances, and TLAPS proofs of what matters most.
Paths are relative to `src/packages/` unless they start with `docs/`, `scripts/`, `web/` or `vscode-extension/`.

    tlc -workers 2 -config MCUpkeep.cfg MCUpkeep     # one run; PROJECT.json lists them all
    tlapm UpkeepProofs.tla                           # one module of proofs

## 1. The system

subbrain is one Bun process that stands between a user (HTTP, Telegram, timers) and several model providers. All
state that lasts is in one SQLite file, written with synchronous statements; everything else is in memory. The
process runs one JavaScript event loop: code between two `await`s is atomic, and what interleaves are handlers,
timers, model calls and restarts. Every model in this directory draws its action boundaries there. Maintenance
scripts are processes of their own on the same file; the web client and the editor extension are event loops of
their own behind HTTP.

| Component | State it keeps | Operations | Module |
|---|---|---|---|
| Approval flow: gate hook (`agent/plugins-internal/approval-gate`), operator buttons (`agent/src/telegram/bot/approvals.ts`), sweeper (`agent/src/scheduler/approval-sweeper.ts`) | table `approvals`, its audit rows in `metrics_log` | before-hook, click, sweep | `ApprovalFlow` |
| Hook dispatcher (`agent/src/hooks`) | list of plugins | run the before, after and chat hooks in order | in `ApprovalFlow`, `ToolCalls` |
| Tool registry, the other plugins, MCP clients, bot and userbot (`agent/src/mcp`, `agent/plugins-internal`, `server/src/mcp-transport`, `agent/src/telegram`) | what is registered and offered, calls in flight, streams of clients, the connection of the userbot | offer, refuse, look up, run, answer, reconnect | `ToolCalls` |
| Night cycle (`agent/src/pipeline/night-cycle`) and its controller (`server/src/app/night-cycle-controller.ts`) | focus keys: cursor, retry queue; `layer4_log`; `running` | trigger, watchdog, retry pass, main batch, save queue, save cursor | `NightCycle` |
| Night steps over memory (`night-cycle/steps`, `janitor`, `prune`) | shared memory, context, focus, tasks, archive, embeddings | prune by a model, deduplicate, promote, reflect, expire, archive, digest | `SharedMemory`, `ContextPrune`, `FocusPrune`, `MemoryLayers`, `TaskBoard`, `LogWindow` |
| Shared memory (`agent/src/mcp/tools/memory`, `core/src/db/tables`) | `shared_memory`, its embeddings and full-text index | check, insert, merge, supersede, edit | `SharedMemory` |
| Context table, focus table, log window (`core/src/db/tables`) | `layer2_context`, `layer1_focus` and its shadow, embeddings of `layer4_log` | write, merge, embed, evict | `ContextPrune`, `FocusPrune`, `LogWindow` |
| Task store (`core/src/db/tables/tasks.ts`), stray tasks, migration and rollback scripts (`scripts/`) | table `tasks`, digests, the script's JSONL file | add, close, digest, adopt, undo | `TaskBoard` |
| Recall (`agent-pipeline` pre phase, `rag`) | none of its own | hippocampus loop, retrieval, ranking | `Recall` |
| Extraction (post phase, hippocampus tools) | budgets of one exchange | gate, loop of tool calls | `Extraction` |
| Reports (`agent/src/mcp/tools/telegram-report.ts`, `rag/report-context.ts`) | none | collect, truncate, send | `ReportText` |
| Rate limiter (`providers/src/rate-limiter.ts`) | timestamps of a minute, priority queue, draining flag | schedule, drain, backoff429 | `RateLimiter` |
| Model router (`providers/src/model-router*`) | one limiter per provider | chat, chatStream: retry, fallback, errors | `ModelRouter` |
| Think tag splitter (`providers/src/think-tag-transform.ts`) | carry of a stream | split a stream, split a complete answer | `ThinkStream` |
| Agent loop and context compressor (`agent/src/pipeline/agent-loop`, `context-compressor.ts`) | transcript, step, stop reason | steps, tool calls with timeouts, compression, final rows | `AgentLoop` |
| Arbitration room (`agent/src/pipeline/arbitration`) | calls, timers and aborts of one room | ask in parallel, synthesise | `Arbitration` |
| Code and dynamic tools (`agent-loop/dynamic-tools.ts`, `code-tools`) | `code_tools`, a row of agent memory, quotas | create, edit, delete, run, test | `ToolBox` |
| Chat service, stream wrapper and agent pipeline (`agent/src/services/chat`, `pipeline/agent-pipeline`) | `chats`, `chat_messages`, the captured stream, raw log | store the question, hydrate, answer, save, delete a chat | `ChatTurn`, `ChatTranscript` |
| Agent pool (`agent/src/scheduler/agent-pool`, `core/src/lib/mutex.ts`) | table `agent_tasks`, slots, cooldown | tick, claim, run, zombie sweep; not started by the server yet | `AgentPool` |
| Telegram poller (`agent/src/scheduler/telegram-poller.ts`) | focus keys: state and last update id | poll, apply, acknowledge | `TelegramPoller` |
| Freelance scout (`agent/src/scheduler/freelance`) | `freelance_leads` | tick, evaluate, insert, alert | `FreelanceScout` |
| Browser client (`agent/src/mcp/playwright`) | browser, page, launch promise | launch, close, disconnect | `BrowserClient` |
| Database schema (`core/src/db/schema.ts`) | the file and its `user_version` | base script, 22 migrations | `SchemaMigration` |
| Server start, shutdown, run schedulers, backup and restore (`server/src/app`, `core/src/db/backup`, `scripts/restore-backup.ts`) | process, files, write-ahead log, backups | start, stop, kill, back up, restore | `ServerLife` |
| Web client (`web/app`): chat page, list pages, memory editor | screen, loads in flight, typed fields | open, send, delete, filter, save | `WebChat`, `ListPages`, `MemoryEditor` |
| Editor extension (`vscode-extension/src`) | conversation, buffers of streamed calls | convert, assemble, report | `EditorChat` |
| Archive and agent tables, night text steps, providers and HTTP client, state lock | plain rows, or none | pure I/O, text | not modelled |

How they meet: an *agent loop* asks the *model router*, which asks a *limiter* and then a provider; the answer's
tool calls pass the *hook dispatcher*, where a plugin may refuse them, the *approval gate* among them until the operator
has clicked or the *sweeper* has expired the request; clients of MCP and REST call the *registry* past all plugins. A chat is prepared by *recall*, may be answered by the *room*, and is followed
by *extraction*, which writes to memory. Chats and agent runs append to `layer4_log`, which the *night cycle* reads in
batches behind a cursor and turns into memory; the other steps of the night rewrite the tables that recall reads.
`PROJECT.json` lists every component with its status, and every hazard with the line where it bites.

What is hard about it, and where:

* **interleaving:** clicks, sweeps, gates of several agents on one row; overlapping night runs; ticks of the scout that
  outlast their interval; two callers at one browser; handlers that lost the race against their timer; several
  functions of a page that write one list;
* **failure between two steps:** statements that share no transaction (row and audit entry, queue and cursor, log and
  chat, row and embedding); hooks and streams whose failures are swallowed; a client that leaves in the middle of an
  answer; one fact in three tables of which one is being deleted;
* **restart:** prompts in flight, a batch replayed, a retry queue saved before the cursor, a migration between two
  statements, a receipt sent before its id is saved, a restore between rename and copy;
* **ordering and staleness:** readers of one stream that cut it at different places; rows that change under an awaited
  embedding, ranking or verdict; answers that overtake each other; a transcript that is cut between a call and its
  result; a dialog that outlives the row it asks about;
* **limits:** a full retry queue, a full window of requests or of embeddings, budgets counted in three places, the last
  step of a run, a tool at its error limit;
* **liveness:** an unanswered prompt, a queued request, a tool or a specialist that hangs, a task of a type that is
  cooling down.

## 2. The modules

Each module is named after its component and starts with a comment on what it abstracts; the comment beside each
variable says what of the code it is. Six MC modules compose the components for TLC. The parts of one composition share
no variable and no row, so a behaviour of all of them is any interleaving of one of each: an MC module has a variable
`picked`, chosen at the start, and every behaviour moves only the part it picked. (Interleaving parts that cannot see each
other multiplies states and shows nothing.) Where parts of the code do meet, they are actions of one module: all writers
of shared memory in `SharedMemory`, all that moves a fact between tables in `MemoryLayers`.

| MC module | Parts | Runs |
|---|---|---|
| `MCServer` | `ApprovalFlow`, `SchemaMigration`, `ToolBox`, `ServerLife`, `ToolCalls` | `server_file`, `restore` |
| `MCApprovalFlow` | `ApprovalFlow` alone | `approvals_wait`, `approval_hook_failure` |
| `MCModelCalls` (over `MCModelRouter`) | `RateLimiter`, `ModelRouter`, `AgentLoop`, `ThinkStream`, `ApprovalFlow` | `model_calls`, `router_stream` |
| `MCChatTurn` | `ChatTurn`, `WebChat`, `ListPages`, `MemoryEditor`, `EditorChat` | `chat_turns` |
| `MCMemory` (over `MCSharedMemory`) | `SharedMemory`, `Recall`, `Extraction`, `ReportText` | `memory`, `memory_winner`, `report_text` |
| `MCSchedulers` | `NightCycle`, `AgentPool`, `TelegramPoller`, `FreelanceScout`, `BrowserClient`, `Arbitration` | `schedulers` |
| `MCUpkeep` | `NightCycle`, `TaskBoard`, `ContextPrune`, `FocusPrune`, `LogWindow`, `MemoryLayers` | `upkeep` |

The modules that hold theorems are `ServerProofs`, `SchedulersProofs`, `ModelCallProofs`, `ChatTranscript`, `ChatTurnProofs`,
`MemoryProofs`, `UpkeepProofs` and `TurnProofs` (section 5).

### ApprovalFlow

| Variable | Code |
|---|---|
| `approvals` | rows of the table: key (tool name and hash of canonical arguments), status, `requested_at`, `resolved_at` |
| `audit` | rows of kind `approval_decision` in `metrics_log` |
| `prompt` | what became of the Telegram message with the two buttons |
| `call`, `answer` | per agent: the handler that runs, or the code the gate refused with |
| `operator` | `resolveOperatorChat()` is not null |
| `now`, `restarts` | the clock in units of the TTL's granularity, and a bound |

The hook of a gated call has no `await` between its lookup and its insert, so each of its branches is one action:
`CallUngated`, `CallUnavailable`, `CallApproved`, `CallAwaiting`, `CallDenied`, `CallRequests`. The prompt is sent
without being awaited (`PromptShown`, `PromptLost`). `Click` is the bot's callback, including redelivered updates;
`Sweep` is a tick of the sweeper that finds something, `Restart` the loss of everything in memory followed by the
tick that `start` makes. `SweeperInstalled` says whether there is a sweeper: the server installs none. With `Faults`, `HookThrows`, `RequestUnlogged` and `ClickUnlogged` are the places where a
statement may throw after an earlier one has been written. A lookup among rows of one second may return any of them,
as SQLite may.

### ToolCalls

From the name of a tool to its answer, for agent runs that a person started (`People`) or a scheduler (`Crons`), and for
clients of MCP and REST (`Clients`).

| Variable | Code |
|---|---|
| `offers` | per run: the tools of the last request to its model, of those tried |
| `calls` | per caller: the call in flight or the last one; where it is, where its name was found, what the caller was told, the stream it asked through |
| `prompted`, `scripts` | names of dynamic tools; code tools by the name they are called by, with their state |
| `directive` | the focus key against repeated messages: none, fresh, or older than its seven days |
| `userbot` | set on the executor; `connState.connected` (`flag`); the connection itself (`line`); who reconnects it; how the last reconnect ended |
| `streams` | per client: the number of the SSE stream it opened last, and whether it is open |
| `bot`, `terminated` | whether the bot is configured; the flag of `done_with_artifact` |

The registry is data: one set of names per file that registers tools. `AsksModel` makes the list anew. A call goes through
one action per plugin, since the dispatcher awaits each (`GuardHook`, `GateHook`, `BlacklistHook`, `ApprovalHook`), and the
last of them looks the name up (`KindOf`) and starts the handler, as the code does without another await. `McpCalls` and
`RestCalls` start at the handler. Handlers are told apart by what they touch: messages (`SendEnds`), reads through the
userbot (`ReadEnds`, `ReadReconnects`, `ReadReconnected`), tools that make tools, the end of a run, and all others.
`ToolTimesOut` gives a call up and leaves its reconnect behind (`late`). `barred` and `sent` in a call are history: the
directive stood from the call to the gate; the message was delivered.

### NightCycle

`log` is `layer4_log` (the session of each row), `cursor` and `queue` are the two focus keys, `run[c]` is what one call
of `NightCycle.run` holds in local variables, `current` the call the controller waits for. `Trigger` is the controller's
guard and the run up to its first await, including the read of the queue; `DropExhausted`, `RetrySucceeds`, `RetryFails`
are the retry pass, one entry per step; `SessionSucceeds` and `SessionFails` the main batch, in any order (the code
goes through a map; the order does not matter to it); `SaveQueue` and `SaveCursor` the two writes, between which the
maintenance steps are; `FocusPruneTakesQueue` is the one of these that may touch the queue, whose focus key is not
protected; `RunThrows` an exception of the run itself; `NightRestart` a restart of the process. `WatchdogFires` is the
controller's timeout, after which the old run goes on beside a new one.

The rest is history: `processed`, the rows some run brought to an end; `givenUp`, those of sessions dropped on purpose
(attempts exhausted, pushed out of a full queue, or left out of a retry that fetches only `FetchLimit` rows); `reached`,
the end of the furthest batch whose queue was saved; `pruned`, the rows of sessions that waited when the prune took the
queue; `late`, runs that hold a copy of the queue from before another's save, and `overwritten`, the rows of sessions that
such a run took out of the queue.

The scrubbing, translation, summary and archive of a session are one outcome: the session is finished (archived,
skipped as duplicate or too short, or failed in a way the code does not retry), or `processSession` returns false.

### RateLimiter

One limiter. `timestamps` is the array of the class, each entry as the ticks after which it leaves the window, so the window needs no clock. `queue`
and `draining` are the fields of the class; `wakeIn` is what is left of the drainer's sleep. `RunNow` and `Enqueue` are
the branches of `schedule`, `Drain` one turn of the loop (it starts the whole runnable prefix of the queue and then
sleeps again or ends), `TooManyRequests` is `backoff429` as called by the router, `LimiterTick` passes time and prunes. `age`
and `ticket` are history: when a request really started and in which order requests came, kept apart from the
limiter's own timestamps so that the limit is not measured with the ruler that is being checked. The percentages of
`maxRpm` are the constants `NormalLimit` and `LowLimit`. `UntilSlot` is the wait for the *oldest* timestamp; a low or
normal request below its threshold may wake too early and sleep again, which the model does as well.

### ModelRouter

Calls of `chat` and `chatStream`. A call takes a route (providers of primary and fallback, a fallback may be missing,
both may be the same provider) and gets answers from the set the code tells apart: success, 429, 401/403, another 4xx,
5xx, or an exception that is not a `ProviderError`. `slots` and `upstream` count what the limiter granted and what was
really sent. The limiter is here only its promise to grant a slot (`Start`, `StartFallback`); `RateLimiter` says when.
For a stream, `createProxyStream` turns every failure into an error frame and a regular end (`StreamEnds`), and a client
that leaves makes the next `enqueue` throw (`ChunkAfterCancel`).

### AgentLoop

One run of the agent, collecting (`run`) or streaming (`stream`). `messages` is the transcript sent to the model, where a
message is its role, the step that pushed it and a number: for an assistant how many calls it makes, for a tool result
which call it answers. `Middle`, `KeptHead` and `KeptTail` are the split of `compressContext`; `StartStep` decides
whether to compress (`over` is nondeterministic: it is the token estimate, and stays true until a compression) and
appends the budget note, which the `finally` block takes off again. Each call of an answer is refused before its handler
starts (`CallRefused`), ends in time (`HandlerEnds`) or is given up (`TimesOut`), in which case its handler goes on in
`late`. `Finalise` writes a prefix of the rows of `finalizeAgentRun`: any of its statements may throw, and no
transaction holds them together. `history` and `covered` are history variables: every message pushed for good, and how
many of them the summary stands for.

### ChatTurn and ChatTranscript

The requests of one chat, from the question to the stored answer.

| Variable | Code |
|---|---|
| `rows` | `chat_messages` of the chat, in id order: role, request and, of an answer, the set of its deltas |
| `epoch` | the row in `chats`: counts its creations and deletions, odd while it exists |
| `log` | the user/assistant exchanges in `layer4_log` |
| `turn` | per request: mode, stage, what its client knows, what was hydrated and what was sent |
| `restarts` | a bound |

`Post` is `ChatService.handle` up to its first `await`: `persistUser` and `maybeHydrate` are one action. The pre phase
ends in `AskModel`, or in one of three failures that differ in what the client hears of them (`PrepareFails`, `PreFails`,
`EmitFails`). An answer is a sequence of *deltas*, one SSE line each; a line arrives in one network chunk (`whole`) or in
two (`head`, `tail`), and `SendKeepalive` puts the pipeline's comment between the halves. From the same pieces three
readers take the answer: the client and the wrapper line by line (`Assembled`, `Collected`), the post phase chunk by chunk
(`PerChunk`). `StreamEnds` closes the pipeline's stream and leaves `LogAnswer` running beside it, `SaveAnswer` is the
wrapper's end of stream, `ClientLeaves` its `cancel`, after which the model's stream is still read (`ChunkAfterLeaving`).
Requests without a stream take `PipelineAnswers` or `DirectAnswers`. `DeleteChat` cascades to the messages; a deleted chat
comes back with the next question. A request is taken to bring its question only, as in `tests/chat-continuity.test.ts:44`.
One that brings answers along, as the web client does from its second message on, is not hydrated and otherwise the same.

`ChatTranscript` is what the chat promises, without streams: a request puts its question into the transcript and is then
answered by one message in one step, or closed without an answer. `ChatTurn` implements it (`ImplementsTranscript`) under
the mapping `transcript <- Shown(rows)`, `phase <- Phase`; the fairness of the abstract specification makes that also say
that no request stays open.

### ThinkStream and Arbitration

`ThinkStream` is the splitter of MiniMax's reasoning: letters arrive in deltas of any cut, `carry` is what may begin a
tag. `StreamSplitsLikeOnce` compares it with the splitter of a complete answer.

`Arbitration` is one room: `Convenes` asks the specialists in parallel, `heard` is what each seat gave (`SpecialistAnswers`,
`SpecialistTimesOut`), `AllSettled` the `await` of all of them, then the synthesis with its own timer and its fallback.
`open` are the calls the router has not ended and `aborts` those whose signal is aborted, which a call may ignore. A room
that a tool entered may be aborted as a whole; that of a chat may not, since it passes no signal.

### Chat clients: WebChat, ListPages, MemoryEditor, EditorChat

`WebChat` has the one list of messages on the screen and the four asynchronous functions that write it. `ListPages` is
the list pages, with unnumbered loads. What an answered mutation reloads depends on the page: on the memory page each
layer, the pending rows included, reloads itself, whatever tab is open by then; tasks and leads reload what the page asks
for then. The search text of the memory page is in the query before it is submitted (`TypesSearch`). `MemoryEditor` is the
copy of a row beside such a list: selected, typed over, sent whole, replaced by the answer, and a dialog for deletion that
outlives its row. The three share the assumption that answers may overtake each other. `EditorChat` converts the
conversation of the editor to a request and assembles streamed calls from their fragments; an answer that was cut ends in
an error chunk and `[DONE]` and is taken for finished, and a call cut behind its name is reported with `{}`.

### Memory: SharedMemory, Recall, Extraction, ReportText

`SharedMemory` has everybody who writes that table: requests (check, embedding, insert or merge), edits of the user, and
the night with its three opinions about duplicates. Of a text its meaning counts (`Fact`) and how close two texts are
(`Cosine`); `SimilarSaySame` states what the thresholds are for, that only texts that say the same are close. `owed` and
`decided` are history: what a live row has told, and about what somebody has decided. memory-dedup and the janitor may each
fail to embed some rows. The janitor compares the rows of the last `FreshWindow` only (`Young`; seven days in the code), and
`swept` is when it read them.

`Recall` is the preparation of a request: the loop of the hippocampus with its bound in answers and time, and the retrieval
that reads the full-text index, awaits an embedding, reads the vectors and awaits a ranking, while others approve, reject,
replace and delete rows. `Extraction` is what is kept of the exchange afterwards, with budgets for tool calls, nudges,
facts and tasks, each counted in another place. `ReportText` is what of facts, events and text is sent when all is too long.

### The night's tables: TaskBoard, ContextPrune, FocusPrune, LogWindow, MemoryLayers

`TaskBoard` is every writer of `tasks`: tools and routes, the three steps of the night that age tasks, the step that adopts
stray rows of memory, the migration script with its JSONL file, and the rollback that reads it. `ContextPrune` is
`layer2_context` with its embeddings, awaited or not, under a prune whose model judges a snapshot; a text is the set of
facts it tells. `FocusPrune` is `layer1_focus`: directives, the keys in which parts of the program keep their state, and a prune
that obeys a model once and spares the keys in `Protected`, which are all that are `Owned` but the retry queue. `LogWindow` is the cap on embeddings of the log, under steps that overlap and a cap
that changes with a restart. `MemoryLayers` follows a fact through three tables: comparison across tables, promotion,
reflection, expiry, the janitor, the legacy sweep, and people who edit, approve, reject, delete and restore.

### Timers: AgentPool, TelegramPoller, FreelanceScout, BrowserClient

`AgentPool` is the scheduler of rows in `agent_tasks`: a tick takes a slot per claim, runs them side by side, and its sweep
fails rows that have been running for half an hour. `TelegramPoller` reads a page, applies the commands it has not handled,
sends receipts, and saves list and id one after the other. `FreelanceScout` has ticks that outlast their interval and may
survive a stop and a start. `BrowserClient` launches on first use; launches and closes take several awaits, and nothing
keeps one from running into the other (`crossed` is where they did).

### The file: SchemaMigration, ToolBox, ServerLife

`SchemaMigration` has the base script and the 22 migrations as data, sequences of statements that `Apply` interprets, with
the commits of the code: statement by statement up to migration 2, one transaction each from 3 on. Two processes may open
one file (at the versions in `Overlaps`), and each decides by the version it read once, so a migration may run twice; the
history variables `ran`, `behind` and `again` say which migrations were repeated that way. `ToolBox` has the tools agents make: what a call started may
outlive the call and be recorded by name when the tool has been edited, deleted or made anew. `ServerLife` has the
server, its database file and what the file system and SQLite do with it (external): a restore renames a file that the
server has open, and the write-ahead log stays at the path. A checkpoint copies the log's frames into the file and leaves
them in the log; only a close removes it. `closed` is history: the server has closed the database at the path since it last
started.

## 3. The runs

The passing runs, and the question each property asks:

| Run | Properties |
|---|---|
| `server_file` | `LiveRowIsLatest`: does the gate always see the row that counts? `DecisionIsFinal`: is an answer of the operator ever changed? `UpgradeIsWhole`: does a file of any version end with the schema of a fresh one and all its rows, whatever is killed, and what exactly is lost when two processes migrate it? `BootSucceeds`: does the server get to serve it, unless two processes set its version back? `ToolLimitsHold`: limits on errors, consultations and tools. `CleanRestoreIsExact`: after the server has closed its database, does a completed restore give the backup, and does one that was killed leave the old file whole beside the path? `CallsAreHonest`: is a standing directive kept between the plugins, is who hears of a delivery told the truth, does a client's answer come where it asked, does a scheduled run or a client run only what is meant for it, and is a userbot never left disconnected by a flag alone? |
| `model_calls` | `LimitHolds`: no window over its limit, low requests leave their reserve, order in the queue. `EveryRequestStarts`. `OutcomeFollowsAnswers`: does a caller get what the providers answered? `TranscriptIsWhole`: is every request of the loop well-formed and is nothing lost to a compression? `DoneEndsTheRun`, `RunEnds`. `StreamSplitsLikeOnce`. `RunningIsApproved`, `NoRunAfterDenial`: who may start a gated tool, for two agents and statements that do not fail |
| `chat_turns` | `ReadIsSaved`: is what a client has read stored? `ImplementsTranscript`: the refinement. `ScreenIsOneChat`, `ListIsCurrent`, `EditsStayWithTheirRow`: do the pages show and save what they claim to? `EditorKeepsCalls`: is every streamed call reported once, with all of its arguments, or with none where the answer was cut behind its name? |
| `memory` | `FactsAreKept`: does a fact only go when somebody has decided about it? `QuietNightConverges`: one live row of each fact after a quiet night, of the rows the janitor compares. `PromptIsFounded`: does a request get only rows that were active and what its budgets allow? `ExtractionIsBounded`. `ReportFits` |
| `schedulers` | `FinishedStays` of the pool. `WorkIsFinished`: is every row of the log reached (`RowsAreReached`) and every due task finished (`DueIsFinished`)? `NothingIsSkipped` of the poller. `OneAlertPerLead`. `OneKnownBrowser`. `RoomKeepsTime` |
| `upkeep` | `NoForgottenRow`: is a failed session of the night ever forgotten, but in the two ways that are named? `TasksAreKept`, `ContextIsKept`, `FocusIsKept`, `FactIsHeld`, `WindowIsKept`: does a step of the night lose, resurrect or confuse what others wrote meanwhile? |

Six runs are violated on purpose; each checks what a comment or a document says of the code:

1. `approval_hook_failure`: the dispatcher logs what a before-hook throws and goes on (`agent/src/hooks/dispatcher.ts:70`).
   A gate whose lookup or insert fails therefore does not deny: the gated handler runs without an approved row.
2. `approvals_wait`: `installApprovalSweeper` has no caller, so a row whose prompt was lost stays pending, and refuses its
   key for ever.
3. `router_stream`: `createProxyStream` catches every failure and ends normally, so `tryModel` reports success and the
   fallback of `chatStream` is reached only when its own client has left.
4. `memory_winner`: memory-dedup keeps the row updated last, the janitor of the same night the row created last and looks
   at superseded rows too; between them the live row is archived and the one left is superseded by it.
5. `report_text`: the text of a report has no heading of its own and is dropped with the last section of its context.
6. `restore`: the script renames the file but leaves the write-ahead log, which is replayed onto the restored file.

### Bounds, and why they are enough to be worth running

* *Approvals.* Three rows of one key are request, decision and renewed request, which is what every ambiguity of the
  lookup needs; `Horizon` is four TTLs, so each can lapse. `server_file` has one agent with failing statements and a
  restart, `model_calls` two agents, a gated and a free key, two rows and no faults. Two agents are enough because the
  gate's branches are atomic: a third meets the same table.
* *Schema.* All versions 0 to 22 and one kill; at versions 6, 8, 14 and 18 (`Overlaps`) a script opens the file beside the
  server. From 6 and 8 both may repeat migrations that add a column and set the version back (`SetBack`), from 14 they
  may both run migration 15, and what is repeated from 18 leaves the same file. A version-0 file is never shared: there the
  base script of one process meets migration 1 of the other and the chats are lost.
* *Tools.* Two agent runs, one code name, three tool names of which one is reserved, two errors, a stray run of a tool
  that was edited, deleted or made anew, one restart. *Life.* One of each: scheduler, row, deployment, restore, kill, two days.
* *Calls.* One scheduled run and one client, two calls between them and two streams: a stream that closes and another that
  opens while an answer is on its way, a directive between two plugins, a reconnect beside the poller's. Runs that a person
  started take no step of their own and are in the theorem only. To keep the run small, a behaviour either has calls
  that read Telegram, with its line and the streams (`lines`), or all other calls (`calls`).
* *Limiter.* One request more than the limit of 2 (normal 2, low 1); the window of 3 is longer than the limit, so phantoms
  spread over distinct ticks as they do over 60 s. *Router.* Two calls share a provider as primary of one and fallback of
  the other, which is all that calls share. *Agent loop.* Three steps allow two compressions, the second over the summary
  of the first; two calls are the least for a call after `done`; a tail of two is shorter than a step with its results, so
  cuts fall inside one. *Splitter.* Tags of 2 and 3 letters, 6 letters in deltas of up to 3: each tag can straddle each cut.
* *Chat.* Two requests are the least for a question stored between another question and its answer; one line, cut or not,
  with or without a comment in the cut, is every difference between the readers of a stream that its properties tell
  apart. A deletion and the question that creates the chat again are three epochs. *Pages.* Two chats, two views with two
  filters, two rows, two loads or requests in flight: what is needed to overtake. *Editor.* Three calls of 0, 2 and 1
  fragments over two turns.
* *Memory.* Two requests, two rows, two texts that differ, one edit and one verdict are a duplicate, its loser and a change
  between them. The requests overlap within two seconds, or within one with an edit beside them, or come one at a time:
  with an edit over two seconds, without one over three, so that rows get older than the janitor's window of one. *Recall.* One row of each layer, in every state. *Extraction.* 5 steps, one nudge, 3 facts, 3 tasks and
  batches of 2, so each budget is the first to be reached in some behaviour. *Report.* Lengths up to 4 against 6 and 7.
* *Night cycle.* In `upkeep` two runs may overlap. Two sessions overflow a queue of one; three rows in batches of two are two
  batches, so the retry pass of the second meets failures of the first; a retry fetches one row, less than a session may
  have; one fault is a restart or an exception between any two steps, or a run given up by the watchdog. In `schedulers`,
  for liveness, two rows in batches of one. *Pool.* Three rows for two slots. *Poller.* Three messages for a page of two, one death. *Scout.* Two leads, two ticks
  that overlap, three starts. *Browser.* Two callers, three launches. *Room.* A consultation that asks a role twice and one
  that asks a single role, and every room a message can call.
* *Upkeep.* Two tasks and two memory rows over three days, with ages small enough for all of them to lapse; two facts in
  three context rows; four focus keys: two directives, a stored position that is protected and the retry queue that is not; two nights that overlap at the cap of the window,
  which a restart may change to 0, 2 or 3; two facts in three rows of three tables.

`CHECK_DEADLOCK FALSE` is given where the system really may stop (all calls made, the run over, the clock at its bound).

### Seen while modelling, without a run

Kept in the models as the code has it, or left open where the code leaves it:

* *Router and limiter.* The retry after a 5xx and the fallback of an abandoned stream are sent without a slot; a 429 that
  answers a retry, a fallback or a stream does not back off. The drainer computes its sleep once, so a 429 during it can
  leave a critical request asleep beside free slots, against the comment at `rate-limiter.ts:110`. Text that ends in the
  beginning of a tag is lost at the end of a stream, against `think-tag-transform.ts:10`.
* *Agent loop, room, tools.* A streaming run that ended with an error tells its reader nothing of it. A recent tail of
  tool calls alone goes into the summary, although the compressor's header says that the last messages are kept verbatim. A
  synthesis that fails, and does not time out, is thrown out of the room although specialists answered. The failed run
  of a code tool that was replaced meanwhile counts against the new one; "per session" quotas of dynamic tools persist.
* *Calls.* `requireUserbot` refuses before `ensure()` may reconnect (`agent/src/mcp/telegram-tools.ts:8`), so after one failed
  reconnect the reading tools stay "not connected" until the poller reconnects, which it does only where the bot is
  configured, or a restart; a userbot whose first `connect()` fails is never given to the executor. `terminated` in
  `done-with-artifact.ts` is one flag of the process, and `resetTermination` has no caller: after the first accepted
  artifact every later one is refused, although its run ends. `RESERVED_NAMES` has eight names, so a dynamic tool
  may take another registered one, is then listed twice and never runs, and lists a hidden making tool for scheduled
  runs. The scheduled-blacklist hook compares names without the prefix `code_`, so only the list keeps those tools from a
  scheduled run, not the hook.
* *Chat.* `runPostFromStream` splits every network chunk by itself, so a line cut in two is missing from `layer4_log`
  (`README.md:423` of the repository calls it the complete history). A chat deleted while an answer streams to it makes the insert throw
  after the client has read the answer; an answer that ends in an error frame is stored as if complete.
* *Pages.* A row approved among the pending ones need not be in the list of its layer when that is shown again. Search text
  that was typed and not submitted is used by the next load that something else sends. The banner of a failed load goes
  when another tab's load succeeds. Loads are unnumbered, so an older answer may arrive last; a failed load of a chat leaves the new id over the old
  messages; a save of the memory editor sends every field as of its selection, and a failed one leaves typed text behind
  a dead button; a delete in flight closes whatever dialog is open when it ends. The properties of the pages say where
  these begin (`astray`, `spoilt`, `typed`), instead of pretending that they do not happen.
* *Editor.* An answer of a provider that was cut is taken for finished: a call of which nothing but its name had come is
  reported with `{}` (`provider.ts:250`, `stream-utils.ts:19-24`), and the editor would run it.
* *Night.* The watchdog resets `running` although `cycle.run()` goes on, and the run that saves last writes its copy of the
  retry queue over the other's (`overwritten`). `prune/focus.ts:11-12` says that keys of system subsystems are never pruned
  and `retry-queue.ts:4` promises a retry, but `PROTECTED_FOCUS_KEYS` lacks `pii_scrub_retry_sessions`: the focus prune
  of the same run may drop or merge the queue between its write (`index.ts:103`) and the cursor's (`:108`), and its sessions
  are not retried (`pruned`). The janitor leaves an older row beside a fresh one that says the same when memory-dedup could
  not embed one of them. `NightCycle.run` returns before the retry pass when there are no new rows. Twenty rows the classifier
  keeps starve the tail of stray tasks. A focus key stored while the model thinks is overwritten by its merge, or comes
  back after its deletion. An edited row keeps the embedding of its old
  text and can be archived as a duplicate of it. Once the window of embeddings is full, no newer row is ever embedded.
  A row without an expiry that was superseded by one with an expiry is lost when the latter lapses.
* *Recall.* A first message is seeded with rows of any status. A row rejected during the two awaits still enters the
  prompt. The budget of calls is checked between answers, so a batch may overshoot it.
* *Timers.* More than a page of messages between two polls push commands out of sight. A receipt sent before a crash is
  sent again, and numbers of closed tasks are drawn again, so a repeated "done" may close another task. A crash between
  storing a lead and its alert means no alert. A close beside a launch orphans a browser.
* *Files.* Two processes that open one old file both migrate it. From a version below 9 the slower may set `user_version`
  back and repeat what adds a column; the next start then fails at the columns that are there, and so does every later
  one. Migration 15 run twice finds no confidence it knows and makes all of the archive's null; migration 12 run twice
  computes kinds again. A version-0 file loses its chats. A backup
  that was cut off leaves a file that counts as that day's backup. A restore killed between rename and copy makes the next
  start create an empty database.

## 4. Fairness

* `ApprovalFlow`: the clock advances, and the sweeper's interval fires where there is a sweeper (`SweeperInstalled`); the
  server does not install one. Nobody obliges the operator or Telegram.
* `SchemaMigration`: the server, which the container restarts whenever it is down, opens the file and goes on. The script
  need not.
* `NightCycle`: the daily timer triggers the controller (`Trigger`) and a run makes progress (`RunStep`), because every
  model call in it is bounded by the router's timeout. Nothing is assumed of `AppendLog`, failures or restarts.
* `AgentPool`: ticks begin again and again (strong, since one cannot begin while another is at work), a tick goes on, runs
  end, scheduled times come and rows grow old. Stops, throws and deaths are bounded.
* `RateLimiter`: time passes and an expired timer fires.
* `AgentLoop`: the loop makes progress (`LoopProgress`), where a hanging handler is overtaken by its timer. No fairness is
  given to `HandlerEnds`, so `RunEnds` holds although a tool may never return.
* `Arbitration`: the two timers fire. Nothing is assumed of the models, so `RoomKeepsTime` holds of silent ones.
* `ChatTurn`: a request that has come goes on (`Step`), because every model call is bounded by the router and the rest is
  code of this process. Nobody obliges the client to come or to stay, the keep-alive timer to fire, the user to delete or
  the process to restart.

All other parts are checked for safety only, and have none.

## 5. What is proved

TLAPS proves these for all values of the constants that satisfy the modules' ASSUMEs, so for any number of rows,
requests, messages, ticks, caps and restarts. An invariant a run checks is seldom inductive; what follows names for each
theorem what had to be added to it, which is what the code really relies on.

**ServerProofs.** Of the approvals: `TypeCorrect`, `LiveRows`, `Finality`, and, when no statement fails, `DenialHolds` and
`GatedRunsApproved`. `LiveRowIsLatest` is not inductive: the insert of a renewed request needs that the row it replaces
was requested before *now*. The inductive invariant `IInv` adds `RowTimes` (no row is from the future; a resolved row
was resolved at or after its request, and an expired one more than a TTL after it) and `RowsAreGated`. The lemma
`RequestIsLater` then shows that whatever leads the gate to a new row - expiry or a stale approval - lies a TTL in the
past, so that the new row is strictly the latest. The proof goes by the kind of a step on the table (`Inserts`, `Decides`,
`Sweeps`, `Keeps`), into which `StepKinds` sorts every action. The premise `Faults = FALSE` of the last two theorems is
needed: the run `approval_hook_failure` refutes them without it.

Of a server's life: `CleanRestoresAreExact`. A database that was closed has no log and nobody has it in hand (`ClosedIsQuiet`);
a kill or a checkpoint leaves one, and then the theorem says nothing, as the run `restore` shows it must not. From the
rename of a restore to the next start only the script touches the files: the file it set aside stays (`ScriptIsSound`), so
what the next start opens is the backup that was named, and if the script was killed, the old file lies beside whatever is
at the path (`RestoredIsSound`).

Of the calls: `CallsHonest`, for any runs, clients, names, streams and making of tools. Every part of `CallsAreHonest` speaks of the end
of a call; `CallsInv` adds what is true on the way. A call that has not ended has been told nothing and has sent nothing
(`CallIsHonest`), and while it waits before the gate it is barred only if the directive is still fresh, so that past the gate
no barred message is left but one whose lookup threw (`PastTheGate`). The number of the stream a client asked through is
not above that of its last one, so a stream opened later is never taken for it (`CallIsAnswered`). What a scheduled run is
offered is not a making tool and not a stateful one, unless there is a dynamic tool of that name (`OffersFit`); dynamic
tools are only ever added, so this outlives the list (`CallIsMeant`) and lookup then prefers the dynamic tool. Of the
userbot `FlagIsTrue` is inductive itself: every step that lowers the flag leaves somebody who will raise it or report failure,
and a timeout hands that duty on (`ToolTimesOutKeeps`). It assumes that no registered name begins with `code_`
(`ScriptsAssumption`), which is true of the registry.

**SchedulersProofs.** `FinishedRowsStay` of the pool needs that a row held by a tick is running, and that nothing is held
between ticks (`PoolInv`): the sweep, with which a tick begins, and a run never meet. `PollerSkipsNothing`: what a poll
holds was the newest page of the chat as it stood at some message (`HoldsAPage`), and when the last id is saved all of
it has been applied. `OwnerAlertedOnce`: of the ticks that evaluate one lead only one is about to alert, the one whose
insert was not refused. `OneBrowserAtATime`: the launch promise tells whose turn it is (`OneAtATime`), until a close
crosses a launch. Of the night cycle: `NightTypeCorrect` and `QueueStaysASet` hold however runs overlap: the first from an invariant on the
attempts left to every entry of every copy of the queue, the second from `RunShape`, which says that the entries still
to be retried and the survivors are disjoint and together within the limit. `NothingForgotten` holds of any number of
overlapping runs, any limit of a retry, and a focus prune that takes the queue. Its invariant `CoverInv` says that no row up to
`reached` is without an end (`HasEnded`) and without a session in the queue (`ReachedIsCovered`), that the cursor is not
beyond `reached`, and of each run what its local variables promise (`RunCovers`): rows of its batch are covered by what
it has done, kept or has yet to do, and all other rows up to `reached` by its copy of the queue, unless that copy
is `late`; what a late one drops when it is saved is `overwritten`.

**ModelCallProofs.** `CallersGetTheirAnswer` has, for each place a call can be at, what is known of its answers there
(`CallOK`). `RoomSpeaksInTime` is the safety half of `RoomKeepsTime`: its invariant says which calls are open and told
to stop (`CallsAreTold`) and that a seat that timed out is not heard any more (`NobodyIsLate`); that a fallback names
somebody whom nobody outweighs needs a heaviest seat, which the well-founded order of weights gives. `TranscriptStaysWhole`
describes the transcript position by position (`LoopInv`): a lead of two messages, or three once there is a summary, then
`history` behind what the summary covers, then the budget note; results follow their calls (`ResultsFollow`), the cut
does not part them (`CutIsClean`), between steps nothing is open, and within one exactly the calls yet to be made are. It
is this that a second compression needs of the first. `DoneStaysDone` follows from the same.

Of the limiter: `LimitStaysKept`. The program counts the starts it remembers, the property all starts of a window. `LimiterInv`
says that every start still in the window has a timestamp of its own, which leaves the window when the start does
(`StartsAreStamped`), so that no window holds more starts than timestamps. The queue is in the order of priority and
tickets (`QueueInOrder`, `TicketsAreGiven`), so what the drain loop may start is a prefix of it, which it starts one by
one below the limit; a 429 fills the timestamps up and sorts them, and every start keeps one of its own.

Of the tag splitter: `StreamIsSplitLikeOnce`, for any two tags and any letters. `SplitterInv` says where in what was sent the
splitter is: behind an opening tag (`Inside`) or outside (`Outside`), with everything before it already what `Once` makes
of it (`Parsed`). No tag begins in what was passed on since (`NoneBegins`): had one begun there, the part of it that has
arrived would be a fitting end, and the longest fitting end is held back (`HoldsEnough`). The loops of the code are
recursive functions of which no proof can assume that they unfold: `LoopsEnd` shows it for loops whose text gets shorter.
That a whole delta keeps the invariant (`FeedKeeps`) is an induction on the length of the text, over a set of numbers.

**UpkeepProofs.** `WindowStaysKept` counts what a night's batches would make of the window (`Reaches`): no night wants more than the cap, and one without
errors holds what is missing.
`FocusStaysKept`: nobody but its owner changes an owned key that is protected, and the prune does not take back what a request
has read since (`FocusInv`); an owned key that is not protected is to it a directive. `ContextStaysKept`: rows not yet
judged are as they were read (`AsRead`), the rows in a question as they were shown, as long as nobody has disturbed the
night. `FactStaysHeld`: every step has to leave, for each row that readers are shown, one that tells them the same
(`Witnessed`); it can because no row is newer than the clock and an embedding is that of the row's own text (`RowIsSound`).
`TasksStayKept`: what each step of the night has read is still true of the board (`NightIsSound`), the audit file of the
script tells the truth of every task it names (`LinesAreTrue`), and no stray of the window it is about to close is left
out (`WindowSeen`).

**MemoryProofs.** `FactsStayKept`. That nothing is lost is not inductive by itself: every request, deduplication and curation
decides about rows it read some awaits ago. `MemoryInv` adds `Agreed` (a row somebody still waits about says the fact it was read
with, or all that was read of it and all it says now has been decided about), `Embedded` (an embedding is of what its row
says, unless the row was edited since), `RetiresItsOwn` (a request retires only a row that says the same as its own, or
whose fact was decided) and that ids are given in order, so nobody waits about a row not yet inserted (`NextIsUnused`).
Every step moves rows in one of a few ways (`Moves`), each of which keeps the facts (`KeepsFacts`), and the lemma `Kept` turns
this into the invariant. Of the deduplication: the rows of a cluster say one fact (`ClustersSayOne`), and it always has a
winner, which stays (`FirstOfAll`). The assumption is `SimilarSaySame`: texts close enough to be merged say the same. A
threshold at which they do not would lose facts in the code as in the model.

`QuietNightsConverge`. `QuietInv` says of each step of a night that nobody has disturbed what the rows are like: the snapshot is
what the table says, and each fact is led (`Leads`) by a live row such that no row created with it or later says the same.
That row wins its cluster in memory-dedup (`DedupKeepsFacts`), and nothing that the janitor keeps of the rows in its window
(`Swept`) can precede it and be close (`LeadersSurvive`): this needs that rows were updated in the order in which they were created, and without it the run
`memory_winner` shows the opposite. That the janitor's choice, a row stays unless one that stays precedes it and is close,
exists at all is `ChoiceExists`. Rows that are kept are apart by their stored embeddings, not always by their texts: the
winner of a cluster may get a longer text, which nobody embeds.

`ReportsFit`: what is kept of the sections is nothing, or all that is worth more than something, and fits (`KeptFits`); so
the facts go last (`FactsGoLast`).

**TurnProofs.** `ExtractionStaysBounded`: steps and nudges paid so far bound the answers asked for, and an answer in the
middle of its calls has not paid yet (`AsksArePaid`). `ToolLimitsStay`: a tool's errors are the failures recorded since its
code was stored, and what is counted as asked is what was started (`StartsAreCounted`). `PromptStaysFounded`: what the retrieval holds across its awaits was active at some time of
this request. `ListStaysCurrent`: while its loads do not overtake each other, the newest one in flight for the list on
the screen is of the query and not older than the client's last change of that list (`NewestIsWanted`), whatever was loaded for
other lists since. `ScreenStaysOneChat`: the only chat being opened is the current one and
nothing streams meanwhile (`OpensTheCurrent`); what streams belongs to the current one (`StreamsTheCurrent`). `EditsStay`: the fields
and every request in flight are of the row they name.

**ChatTranscript.** `TranscriptOneAnswer`: at most one question and one answer per request. Inductive together with
`NoneBeforeAsking`, that a request which has not come has left no message.

**ChatTurnProofs.** `TypeCorrect`, `HydratedWithOwnQuestion`, `AnswersFollow`, `ReadAnswersAreSaved`, for any number of
requests, deltas, deletions and restarts. The invariant adds `Stages` (in which stage of a request its client may still be
there, which is what lets an answer be stored once), `BornBefore` (no request is from a later life of the chat) and
`QuestionStored` (in the life of the chat it was posted to, a request's question is there). Then `ImplementsSafely`: every
step of the chat is a step of `ChatTranscript` or a stutter, by the kind of the step (`Post` asks, a stored answer answers
or closes, a step `Inside` a request closes or stutters, `Restart` loses); and along that refinement `ChatOneAnswer`, which
is `TranscriptOneAnswer` read of the chat.

Of the editor: `CallsStayKept`. `StreamInv` follows each call from its first fragment: begun, it is completed or buffered
(`BegunAreHeld`); buffered, it holds what was told of it and is not whole (`BuffersHold`), so what the end of the stream
flushes is a call without arguments or none (`ReportedAreTold`); without numbers all calls share
buffer 0, which is sound because a call is over before the next begins (`ToldInOrder`). That a request carries the results
of every answer is about the fold `ConvertMessages`. `Converting` unfolds it turn by turn, by an induction over a set of
numbers (`FromZeroOn`, which needs no operator as a parameter), and `ConvertedUpTo` is what each turn leaves for the next:
all calls have their results behind them but those of the turn itself, which is the last.

Only model-checked, and why:

* liveness and ENABLED are out of the prover's reach: `EveryRequestStarts`, `RunEnds`, `WorkIsFinished`,
  `BootSucceeds`, and the fairness half of `ImplementsTranscript` and `RoomKeepsTime`;
* `UpgradeIsWhole` is a computation on 22 given migrations, which the run does in full: the proof would be the same
  enumeration.

## 6. Limits of the models

* `getLogsBySession` fetches 1000 rows in a retry, so the rows of a longer session that it leaves out go with the session's
  success. `NoForgottenRow` counts them as given up (`FetchLimit`).
* The two ways in which an unfinished session of the night may be lost, a focus prune that takes the queue and an
  overlapping run that saves an older copy, are named in `NoForgottenRow` and not denied.
* What `layer4_log` gets of an exchange (a line cut between two network chunks is missing) is modelled in `ChatTurn` and
  no property speaks of it.
* A hook that never settles, and a handler that outlives the process, are not modelled. A wall clock that jumps is not
  expressed by the relative time of the limiter.
* `over` in the agent loop may only become false at a compression: transcripts grow otherwise.
* Database statements fail only where a failure between two of them matters.
* In `ToolCalls` the patterns of code-tool-guards are a choice, arguments are not checked against schemas, and what a
  handler stores is in the module of its store; the commands of the bot and the channel monitor are left out.
* One category of shared memory, one board of the scout, one list of the poller: the others never meet it.
* What SQLite and the file system do in `ServerLife` is modelled from how the code uses them, and marked external.
* Not modelled, with the reason per component in `PROJECT.json`: text processing, scoring, provider I/O,
  plain tables, routes, and a state lock that nothing calls.

## 7. Plan

1. Components: validation and audit of a call, the edges of memory, and the translation of provider streams.
2. Proofs: the invariants of what these add.
