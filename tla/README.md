# Mangoduck in TLA+

Mangoduck is a Telegram bot that answers messages with a language model, lets
the model call tools (search, memory, cron tasks, MCP servers), runs scheduled
prompts, and serves only chats that an admin has activated. These modules
describe it from the start of the process to the message a chat is shown, with
an eye on the places where steps of several actors meet. TLC checks them on
small instances, and TLAPS proves the results that hold for every instance.

Line numbers in `PROJECT.json` ("map") say which code each definition stands for.

## 1. Inventory

Paths are below `src/internal/`.

| Part | Code | State | Operations | What is hard | What makes it correct |
|---|---|---|---|---|---|
| Scheduled tasks | `cronjobs/service.go`, `repo/cron_tasks.go`, tools in `llm/chat/service.go` | `cron_tasks` rows; the runner's entries; `entryIDs`, `running` and its flags; the lifecycle context | start (restore), stop, trigger, add, delete | one goroutine per trigger and per update, rows and entries changed in separate steps, death between them, reused ids | rows and entries agree but where named interleavings part them; every entry can be removed; runs of a task exclude each other while its flag is not dropped; stopping ends |
| Chat turns | `llm/chat/service.go`, `history_items.go`, `repo/inputs_outputs.go` | `inputs_outputs` rows; input and stored items of a session; the placeholder | reply, scheduled run, tool call, `/clear_context` | turns of one chat overlap on one history; every step can fail; items are stored one step after another | the history is what the turns did, in order; what is delivered as an answer has been stored; no turn shows an empty message; a reply ends |
| Conversation handler, tools, memory | `telegram/conversation/handler.go`, `llm/chat/{service,tools,parsers}.go`, `repo/chats.go` | what a turn holds; the typing goroutine; one memory text per chat | receive, gate, typing, request, call a tool, deliver, report | two turns overwrite each other's memory; the goroutine of the indicator; calls by names nobody offered; a panic ends the process | no request about nothing; no call of the model ends the process; a remembered fact stays; the indicator goes out |
| Request text | `telegram/conversation/context_builder.go` | none | describe forwards, replies, quotes; escape; render | texts of others between markers, with line breaks and backslashes | the blocks are those written, the user's words can be read back |
| Access and admin panel | `telegram/chats/handlers.go`, `telegram/start`, `repo/chats.go`, `bot/notifier.go` | `chats` rows; panel messages | first message, profile refresh, gate, list, page, toggle, announce | reads before writes; any number of panels, all stale, and of presses at once | one row per chat; only activated chats are served; the panel reaches every chat and shows what is stored; activations are announced |
| MCP bridge | `mcpbridge/bridge.go` | sessions of a run, tool table | preflight, open, list pages, call, close | failures at each step; names glued together and cut again; names used as keys | sessions are closed; a call reaches the tool it was offered for |
| Delivery | `telegram/tghtml`, `telegram/tgerr`, `sendReply`, `editPlaceholderReply`, `bot/sender.go` | none beyond a call | normalize, sanitize, escape, send, retry | Telegram's parser, nesting of tags, lost answers | a reply is shown once, whatever its markup, with its words as far as its tags end |
| Runtime | `bot/bot.go`, `bot/run.go`, `bot/preflight.go`, `bot/commands.go`, `cmd/mangoduck/main.go` | the process; the command menus Telegram keeps | load, open, build, check, set menus, start, stop | start and stop race; a scheduler that fails to start; services that never answer | nothing is served unchecked; a start serves or ends; a signal ends it |
| Database | `db/db.go`, `db/migrations` | the file, migration version and mark | open, repair, migrate | death inside a migration; files of older releases | nothing is served on an incomplete schema |
| Configuration | `config/config.go` | none | load, defaults, validate | two sets of rules for one file | what is accepted can be built |
| Search services | `llm/websearch`, `llm/searchx` | none | validate, one request | a disabled service is nil | a call of it is an error like others |
| Responses clients, logging, mocks, `users`, `groups` | `llm/responses`, `logging`, `handlers`, `repo` | none | one request | - | - |

How they interact. `main` loads the configuration, opens the database, and
builds the services in `bot.New`; `bot.Run` polls in one goroutine and waits for
a signal in another. telebot runs every update in a goroutine of its own. A
message goes through the gate (`EnsureCurrentChat`, `RequireResolvedActiveChat`),
its typing indicator gets a goroutine, and `Service.Reply` opens an MCP session,
reads history and memory, and loops over requests to the model; tool calls are
announced by a placeholder message, run, and their results appended to history
and input. The cron tools write `cron_tasks` and then tell `cronjobs.Service` to
schedule or remove. A trigger calls `ExecuteScheduled`, which is the same loop
without history, and sends the text through `TelegramSender`. Errors that reach
the middleware become a message to the chat (`notifyTelegramHandlerError`). Only
the SQLite file survives the process, and what Telegram keeps: menus and panels.

The hazards, each at its line with the properties that are about it, are listed
in `PROJECT.json` under "hazards".

## 2. Modules

| Module | Models | MC module | Proofs |
|---|---|---|---|
| `CronJobs` | rows, runner, triggers, add and delete calls, start, stop, death | `MCCronJobs` | `CronJobsProofs` |
| `TaskLife` | what a chat is promised of its tasks; `CronJobs` implements it | - | - |
| `ChatRun` | turns of one chat over one history | `MCChatRun` | `ChatRunProofs` |
| `Conversation`, with `Prompt` | turns of one chat over tools and memory; whom the bot answers and what it asks | `MCConversation` | `ConversationProofs` |
| `ChatAccess` | gate, rows, panel | `MCChatAccess` | `ChatAccessProofs` |
| `McpBridge` | preflight and the tool sessions of a run | `MCMcpBridge` | `McpBridgeProofs` |
| `Delivery` | one reply from text to chat | `MCDelivery` | `DeliveryProofs` |
| `Message` | what a chat is promised of a reply; `Delivery` implements it | - | - |
| `Runtime`, with `Config` | the process from start to exit, the database file, the configuration | `MCRuntime` | `RuntimeProofs` |
| - | induction over the places of a sequence, and recursions from left to right | - | `LeftFolds` |

The modules meet at named points. `ChatRun` and `Conversation` are two views of
`Service.run`: the first has the history, for which every tool is alike, the
second the tools, for which the history is not there. `Conversation`'s `Gate` is
the whole of `ChatAccess`, its `Texts` include the tool calls of `CronJobs` and
`McpBridge`. `Answer` and `Sent` of `CronJobs` are a turn of `Jobs` there and a
delivery; `Deliver` of `ChatRun` and of `Conversation` is a `Delivery`. `Check("mcp")` of `Runtime` is
the preflight of `McpBridge`, `StartScheduler` is `Boot` to `StartRunner` of `CronJobs`.

Definitions named after "Mutant:" are altered copies of the definition they
precede, each the way a plausible bug would alter it. No specification uses
them; they show that a property does depend on the code.

### CronJobs and TaskLife

State. `rows` is the table, with the owner of each id (schedule and prompt do not
matter to any property). SQLite assigns one more than the largest id in use, so
the id of the last task is given out again after its deletion (`IsNextId`).
`entries` and `nextEntry` are robfig/cron's. `entryIDs` and `running` are the two
maps under `Service.mu`; a flag is an address in `Flags`, because what matters is
that a run may hold a flag that the map has dropped; `raised` holds the true ones.
`done` is the lifecycle context. Two parts are history: a job's `dropped` says that
RemoveTask has dropped its id since it looked the flag up, and `apart` holds the ids
whose row and entry have been set apart, by an INSERT between another call's DELETE and
RemoveTask, by a DELETE between another call's GetByID and AddTask, or by a Create that
failed half way. The end of the process clears it, with the entries.

Steps. A tool call is one action per database call and one per critical section:
`Insert`, `Reread`, `Schedule` (AddFunc, before the lock), `Register` (the locked
part) for an addition, and `Lookup`, `Reget`, `Delete`, `Remove` for a deletion;
`DbError` is a context that ends. A trigger is `Fire`, `LookupFlag`, `Begin` or
`Skip`, `Answer`, `Sent`, `GiveUp` (the context ends first), `Release` (the
deferred Store); `LateReturn` is the goroutine it left behind. `Boot`,
`RestoreTask`, `StartRunner` are `Start`, `Stop` and `StopRunner` the shutdown,
`Die` the end of the process at any step.

`TaskLife` has a table of owners, a set of triggers, and the calls at work: `storing` and
`clearing` are the ids one of them has yet to arm or to disarm, `loose` those on which
calls have met. Its steps are `Store`, `Arm`, `Stored`, `Fail`, `Delete`, `Cleared`, `Loose`
and `Crash`. `KeepsPromise` maps rows, entries, the places of the calls and `apart` to
them; all else in `CronJobs` is a stutter.

### ChatRun

`history` is the table for one chat; `replayed` what a turn read of it, `own` the
turn's own part of its input, `turn` its place in the loop. A response has a text
or not and up to two calls. `Prepare`, `Respond`, `StoreUser`, `StoreItems`,
`Notify`, `RunTool` (which may fail), `StoreOutput` are the steps of `executeStep` and
`handleFunctionCall`, `Deliver` and `Report` the handler's two ends, `Fail` an error
at whichever step the turn is at. `Clear` is `/clear_context`. What an item says is
left out: an item is its kind, turn, step and number.

### Conversation and Prompt

`turn` holds where a turn is and the locals it still needs: the message, what is
left of its text, the prompt, the call it makes, and the facts it knows of the
memory. `typist` and `stop` are the goroutine of the typing indicator and its
channel. `memory` is `chats.memory_text`, as the set of facts it holds: the model is
taken to write what it knows with the new fact, as the tool's description asks of it.
`saved` and `unaware` are auxiliary: what the chat was told is remembered, and which
turns in progress have read it neither at their start (`Prepare`) nor by a call (`GetMemory`)
since.

An update is `Receive` (`normalizeIncomingMessage` and the two looks at what is left),
`Gate`, `StartTyping`, `BuildChatRequest`, `Prepare`; then `Respond` and, for a
call, one of `ToolErrs`, `ToolTexts`, `Panic`, `StartSearch` and `Found`, `GetMemory`,
`SetMemory`, `SetMemoryLost`; then `Deliver`, or `Fail` and `Report`. A scheduled turn
begins at `Prepare`. `Tick`, `Notified` and `StopTyping` are the indicator's. `Down` is
what a death or a panic leaves. The arguments of a call are one of four kinds, by
what the parsers and services make of them. A name that an MCP tool is offered under
reaches it only if the name leads back to its server (`MCPTools`); one whose server part
holds the separator ends the turn with an error, as an unknown name does. Which tools a
turn is offered is left out, since a call is dispatched by name whether offered or not.

`Prompt` is `context_builder.go` without state: `Context` gives the seven fields of
a message, `BuildLLMMessage` the text with its markers. Texts are sequences of
tokens: words (`Words`), and a line break, a backslash and each marker, since these are
what escaping looks at. The replacer is read as an automaton, as it goes over a text
once from left to right: `EscapeToken` is one step of it, and holds a backslash until it
has seen whether another follows. `ReadsBack` says what a reader of the text must be able
to find in it: the markers by where they stand (`At`), the fields of the context as the
lines between the first two (`FieldLines`), and the user's words by the inverse automaton
(`UnescapeToken`). `IsMessage` says which parts of a Telegram message are texts.

### ChatAccess

`order` is `List`'s order, `status` and `profile` the rows. A message is `Receive`,
`Get`, then `Insert` and `Reread`, or `Refresh`, then `Gate`, `Serve`. `panels` holds what each
panel message shows (`Messages`): every `/chats` sends a further one, and all of them stay.
`Presses` are presses in progress, any number at once, on any message, of whichever admin:
`PressToggle`, `Look`, `Update`, `Notify`, `List`, `Show`, or `PressPage`; `OpenPanel` is `/chats`.
A panel keeps its buttons with the status each will set, as its callback data does, until
it is edited again, and a press goes on with what its button said. `approved` is an
auxiliary variable, the chats any admin ever activated, and so is a press's `raced`:
another press has written the row of its chat since it was read. That the sender is an
admin in a private chat is a precondition of every press here.

### McpBridge

Names are sequences of words and underscores, because `splitToolName` cuts at the
first `__` and that may fall elsewhere than where `translateTool` glued.
`Connect`, `ListPage`, `ListEnds`, `ListFails`, `PreflightClose`, `Preflighted` are the check
at start, `OpenSession`, `Connect`, `ListPage`, `Register`, `Opened` the opening of a run,
`Execute`, `Return`, `Finish`, `Close`, `Closed` the rest of it. `registered` is the map
`Run.servers`, `offered` the tools the model is given. A call may name what is
offered, what an earlier run offered and the history still shows, or anything
without a separator.

### Delivery and Message

A text is a sequence of pieces (words, tags, escaped tags, a lone `&lt;`, a stray `<`, and
a `<` that starts a tag which never ends). The HTML tokenizer returns nothing of such a tag
and nothing after it, so `Normalize` and `Sanitize` read a text up to it (`UpToHalf`).
`Normalize` and `Sanitize` are functions of it, with their stacks: which escaped tags
are restored depends on what follows them, on the raw `pre` and `code` around them,
and on a lone `&lt;` that takes the next `&gt;`. `SendNormalized`, `SendSanitized`,
`SkipSanitized` and `SendEscaped` are the attempts; the code has them three times, for
a reply, an edit and a scheduled message. Telegram is external: it refuses to parse
unsupported, crossed or unclosed tags, refuses what has no content, and otherwise
shows the text or not, and its answer arrives or not.

`Message` shows the readable words of the reply, once, or drops it; a reply that was shown may
count as failed all the same. `KeepsPromise` maps the words of a text before a tag that never ends, and the
phases before the last to "pending".

### Runtime and Config

`main` is what the main goroutine does next, from `LoadConfig` over `OpenDatabase`,
`Normalize`, `Up`, `Migrate`, `MarkClean` (`db.Open`), `ValidateConfig`,
`CreateTelegramBot`, `Construct`, `Check`, `Assemble`, `SyncDefaults`, `SyncGroups`,
`SyncAdmins` (`bot.New`) to `StartRun`, `StopScheduler`, `StopBot`, `Join` (`bot.Run`);
`loop` is the goroutine of `Runtime.Start` with `BeginStart`, `StartScheduler`,
`EndStart`, and `scheduler` the runner, which `SchedulerStops` stops. `Launch` and `Die`
surround a process. `db` is the file: recorded version, dirty mark, tables; `menus` is
what Telegram keeps. `checked` records, per service, the model its preflight used.
`mute` is chosen at a start: the services that take a request and never answer it.

`Config` is `config.go`: `Loads`, `BuildConfig`, `Validate`, and `Constructs`, which is
what the constructors ask once more on their own.

## 3. Runs

| Run | Instance | States | Checks |
|---|---|---|---|
| `CronJobs_calls` | 2 chats, 2 tool calls, no trigger, 2 ids, 3 entries, failing database | 417 k | `EntriesTracked`, `RestoreMirrorsRows`, `EntriesMirrorRows`, `KeepsPromise` |
| `CronJobs_runs` | 1 tool call, 2 triggers, 3 flags, 1 id, 3 entries, fair | 256 k | `FlagExclusive`, `RunsExclude`, `StopDrains` |
| `CronJobs_foreign` | 2 chats, 2 tool calls, 1 id | - | refutes `DeletesOwnRows` |
| `ChatRun_turns` | 2 replies, 2 steps, failures, clearing, 7 rows | 2.0 M | `StoredIsSuffix`, `DeliveredAnswered`, `NeverBlank` |
| `ChatRun_mixed` | a reply and a scheduled turn, fair | 26 k | `TurnsEnd` |
| `Conversation_messages` | 1 update, 1 scheduled turn, 34 messages, calls of every outcome of which 3 in a turn, web search enabled, failures, fair | 112 k | `PromptReadsBack`, `NeverEmptyRequest`, `FactsKept`, `TypingEnds` |
| `Conversation_disabled` | 1 update, one message, the same calls, one in a turn, no failures | - | refutes `NeverPanics` |
| `ChatAccess_panel` | 3 chats, 2 profiles, 2 messages, 2 presses, 2 panels, pages of 2 | 230 k | `RowPerChat`, `ServedApproved`, `PagesCover`, `PageButtonsLead`, `PanelFresh`, `ActivationAnnounced` |
| `McpBridge_alike` | servers `a`, `a__t`, `a_`, `b`, `b`; tools `t`, `t__t`, `_t` | 1.0 M | `AllClosed`, `CallsListed`, `RoutesHome` |
| `Delivery_texts` | all texts of up to 4 of 18 pieces | 721 k | `ShownOnce`, `MarkupNeverFatal`, `KeepsPromise` |
| `Delivery_unterminated` | the same texts, without markup that ends | - | refutes `ShownWhole` |
| `Runtime_lifecycle` | 18 files, every database a start may find, 2 ids, fair | 16.7 k | `ServesWholeSchema`, `ServesChecked`, `AcceptedConfigBuilds`, `StartsOrEnds`, `SignalEnds` |

Each module's `TypeOK` is checked in one of its runs.

Bounds, and why they are enough.

* `CronJobs`: two tool calls are the smallest number that interleave; two ids let one
  task be restored while another is already in, and one id is enough to be given out
  again. Triggers meet one call in `CronJobs_runs`, since without symmetry two are out of
  reach of a liveness check; that `FlagExclusive` and `RunsExclude` hold beside any number
  of calls is proved. Three entries in one process let a task be added, deleted and added
  again while a trigger of the first holds its flag; three flags are more than two triggers
  and one id can hold. At a bound the process still can die and start over.
* `ChatRun`: two steps are a tool call and the answer after it, or the step limit;
  two calls in a response are the smallest number with one waiting behind another.
  `HistoryBound` goes on only from histories of at most seven rows: a whole turn with a
  call, its output and both texts leaves room for the start of another, and one whose
  first response holds two calls fits by itself. The step that exceeds it is still checked.
* `Conversation`: an update and a job are two turns that can both write the memory, and
  three calls let one of them read, write and write again around the other. The
  messages are a plain one and others that differ from it in the parts that a branch
  of the handler or the builder looks at; their texts hold breaks, backslashes in runs
  of one to three, and markers. The calls are one per way a call may end.
* `ChatAccess`: pages of two with three chats make a full page, a page in part and an
  exact multiple. Two panels and two presses let one press make the other's panel, and the
  row it has read, stale. `Bound` says which states the run goes on from: those with two
  messages or presses at work, or a message and a press; one while all three chats are
  listed, by one panel; and presses alone once both panels are there.
* `McpBridge`: the names include one that contains the separator, one that ends in half
  of it, and one used twice; so do the tools.
* `Delivery`: four pieces hold two crossed pairs of tags (`b i /b /i`), and a tag that never
  ends with a word, or a tag, on each side.
* `Runtime`: the files are one that is accepted and others that differ from it in one
  or two places, one per rule; the admin ids hold a zero, a repeat and a legacy id. The
  databases are a new file, one of each kind of release, and what a death leaves.

Symmetry is used for sets of interchangeable model values in runs of safety
properties, never in a run with a liveness property. `CHECK_DEADLOCK FALSE` stands only
where the behaviour ends: turns and deliveries do.

Fairness. In `CronJobs` the goroutine of a trigger takes its own steps and the
goroutine that waits for the stop takes its; nothing is assumed of the executor or of
Telegram, which may never answer. In `ChatRun` a reply's own steps happen, because its
context ends after 30 s and the HTTP clients have deadlines; of a scheduled turn, whose
context has no deadline, nothing is assumed. In `Conversation` the same holds of an
update's turn, and of a typing notification that was begun; the goroutine's `select` takes
either of two ready channels, so that the closed one is taken at last (strong fairness of
`StopTyping`: the ticker may disable it again and again). In `Runtime` both goroutines go
on: every request of a start has a deadline of at most 15 s, and SQLite waits at most 5 s
for a lock; nobody has to start the process or to send a signal. Nothing else is fair,
and the other properties are safety.

### What the code does otherwise than its documents say

Each is a run that TLC refutes, with the quoted line under "findings".

* A deletion may hit another chat's task, because the owner is checked on a row read
  earlier and the id can be given out again in between (`DeletesOwnRows`).
* A search tool that is disabled is not offered, but a model that names it all the same
  ends the process: the call reaches a nil service, whose first statement reads a field,
  and nothing recovers the panic of the message's goroutine (`NeverPanics`).
* A `<` that starts a tag which never ends takes what follows it out of the reply, though
  the comment of `Normalize` says that all other content is left unchanged (`ShownWhole`).

Three more have no run of their own; they are the exceptions of properties that hold.

* The README's flow skips a run of a task that is already running. A `RemoveTask` that comes
  late may drop the flag of the new task that has the id by then, and that task, still
  scheduled, then runs beside itself (`RunsExclude`).
* The README has every activation of a chat announced. Of two presses that read a row as
  active, one may switch it off and the other on again without a message
  (`ActivationAnnounced`).
* A tool that fails leaves its call without an output in the history, and later requests
  of the chat replay it (`DeliveredAnswered` is about turns that did not fail).

### Where a property is limited

Each limit is part of the property or of the instance, and is there because the code
does not promise more.

* `EntriesMirrorRows` and the refinement of `TaskLife` allow a row without its entry, or an
  entry without its row, at the ids in `apart` (section 2), until the next start.
* `RunsExclude` allows two runs of an id once `RemoveTask` has dropped it while one of them
  held its flag. The flag may have been that of a deleted task, or of a scheduled one.
* No property says that rows created before a start whose listing failed are ever run: they
  are not, until a start that can list them.
* `PanelFresh` is silent on a press whose chat another press has switched since it listed
  the rows, and on presses that failed: their panels stay as they were.
* `ActivationAnnounced` is about the first activation, and about later ones unless another
  press has written the row since this one read it.
* `ServedApproved` is about chats that were never activated. One that was switched off after
  its message passed the look at the row is still served.
* `AllClosed` excepts the sessions that a second server of the same name replaces in the
  map; they stay open.
* Tools are dispatched by name, so a scheduled run that names a cron tool has it
  executed, though it was not offered.
* `FactsKept` excepts a turn that was in progress when the fact was saved and has read the
  memory neither at its start nor by a call since: it may overwrite the fact with what it
  knew. Which tools are offered to a turn has no part in any property.
* `KeepsPromise` of `Delivery` is about the words before a tag that never ends.
* `PromptReadsBack` reads the user's words back, not the fields: a line break in a field
  becomes a backslash and an `n`, as these two characters in a name already are.
* `ServesWholeSchema` says that a file left dirty is not served, not that it is repaired:
  every later start fails until somebody does that by hand.
* `SignalEnds` says nothing of work in flight. The process ends with its handlers and
  jobs cut off; and a signal that arrives before `Start` has stored its cancel function
  leaves the scheduler uncancelled until the process ends.

## 4. Proofs

All for every value of the constants, from the assumptions named in the modules.

| Theorem | Statement | Argument |
|---|---|---|
| `CronJobsProofs!Typing` | `TypeOK` | `TypeInv` adds to it what each place of a tool call or trigger knows of its own fields |
| `CronJobsProofs!FlagSafety` | `FlagExclusive` | the property is inductive over `TypeInv`: only `Begin` raises a flag and only the run that raised it lowers it, and a new flag is one that nobody refers to |
| `CronJobsProofs!Tracking` | `EntriesTracked` | `EntryInv`: what is tracked is live and unique, an entry pending registration is one no id tracks |
| `CronJobsProofs!Restoring` | `RestoreMirrorsRows` | the same invariant: while starting there is no tool call, so only `RestoreTask` changes anything |
| `CronJobsProofs!Exclusion` | `RunsExclude` | `RunInv`: a run that `RemoveTask` has not dropped holds the flag its id has; by `FlagExclusive` no other run holds that flag |
| `CronJobsProofs!Mirroring` | `EntriesMirrorRows` | `AloneInv`: at an id that is not in `apart` at most one call is at work past its reading, and row and entry agree but for what that call has yet to do |
| `CronJobsProofs!Promise` | `CronJobs` implements `TaskLife` | step by step, over `AloneInv`: each action is a step of `TaskLife` or a stutter |
| `ChatRunProofs!Typing` | `TypeOK` | |
| `ChatRunProofs!StoredInOrder` | `StoredIsSuffix` | what a turn stored since the last clearing is a tail of what it has sent, at every step of its loop |
| `ChatRunProofs!NoCallLeft` | `DeliveredAnswered` | each call of a turn is answered, or is one of those still waiting |
| `ChatRunProofs!NoBlankMessage` | `NeverBlank` | `Announced`: a turn that used a tool has its placeholder, and a blank final text comes only after a tool |
| `ConversationProofs!Typing` | `TypeOK` | `TypeInv`: a turn has its message until the request is made, and a call while it runs |
| `ConversationProofs!NeverEmpty` | `NeverEmptyRequest` | `TypeInv`, and that only `BuildChatRequest` leads to "prepare" (`ToPrepare`) |
| `ConversationProofs!Remembering` | `FactsKept` | `Kept`: each turn that may still write knows what is saved, but for the facts it is excused of, and it is excused of none it has read since |
| `ConversationProofs!ReadBack` | `PromptReadsBack` | what is escaped so far is read back as what was escaped so far, but for the backslash that is held, and guards each of its markers with a backslash (`Escapes`, kept by every token: `EscapeOne`); a field has no line break, so a rendered context has one line for each (`FieldsIn`); hence of all the markers only the four written ones have lines of their own (`MarkerLines`). `RequestInv`: what a turn holds is of the message it received |
| `ChatAccessProofs!Typing` | `TypeOK` | with the fields each step of a message and a press relies on |
| `ChatAccessProofs!OneRow` | `RowPerChat` | the unique id: an `Insert` of a chat that has a row fails |
| `ChatAccessProofs!Paging` | `PagesCover` | arithmetic of the page count, for every page size |
| `ChatAccessProofs!Leading` | `PageButtonsLead` | rows are never deleted, so page counts only grow |
| `ChatAccessProofs!Approval` | `ServedApproved` | `ApprovalInv`: every active row, and every active status read from one, is of an approved chat |
| `ChatAccessProofs!Fresh` | `PanelFresh` | `PressInv`: what a press has read of its chat is what is stored (`KnowsRow`), and what it has built shows it (`ShowsRow`), or another press has written the row since |
| `ChatAccessProofs!Announcement` | `ActivationAnnounced` | the same invariant, and that a chat once active is in `approved` |
| `McpBridgeProofs!Typing` | `TypeOK` | |
| `McpBridgeProofs!Closing` | `AllClosed` | `Sessions`: an open session is registered, is the one being opened, or is shadowed |
| `McpBridgeProofs!CallsReach` | `CallsListed` | the same invariant |
| `McpBridgeProofs!Routing` | `RoutesHome` | `Offers`, and the lemma `RouteHome`: the first cut of a plain name, the separator and a tool is where it was glued |
| `DeliveryProofs!ThreeAttempts` | `TypeOK` | `Typing`: each phase bounds how many texts were sent before it |
| `DeliveryProofs!Once` | `ShownOnce` | `Unshown`: a phase that goes on has nothing shown, since only an error of parsing goes on |
| `DeliveryProofs!Parseable` | `MarkupNeverFatal` | `Attempts`: what a phase is about to send is the sanitized or the escaped text; both parse (`ParsesOpen`), because at every place the tags open in the output are those on the sanitizer's stack (`PieceWritten`) |
| `DeliveryProofs!Promise` | `Delivery` implements `Message` | every variant of a text reads the same up to a tag that never ends (`UpToHalfEnds`; normalizing adds none, `TokensKeep`): its words are kept by normalizing, sanitizing, escaping and trimming (`NormalizeKeeps`, `SanitizeKeeps`, `EscapeKeeps`, `TrimKeeps`) |
| `RuntimeProofs!Typing` | `TypeOK` | lemma `AdminIds`: the admins are the distinct ids of the file without zeros |
| `RuntimeProofs!WholeSchema` | `ServesWholeSchema` | `DatabaseInv`: an unmarked file of a known version has its tables, after every step of `Open` (`Migrated`); the loop lives only within `Run` (`Lives`) |
| `RuntimeProofs!Building` | `AcceptedConfigBuilds` | `Configured`: after `ValidateConfig` the configuration is that of a file that loads and is valid; lemma `ValidateEnough`: then `Constructs` holds |
| `RuntimeProofs!Checking` | `ServesChecked` | `ReadyInv`: each step of `New` leaves behind what the next relies on (`Passed`, `MenusSet`) |

The invariants are needed because the properties do not mention what the next step
relies on: `NeverBlank`, for instance, says nothing of the turns still in their loop,
and `FactsKept` nothing of what a turn that will write knows.

No theorem has a hypothesis of its own: what two calls, or two presses, may do to each other
is part of the properties, and the auxiliary parts of the state that say so (`apart`,
`dropped`, `raced`, `unaware`) are set by the actions where it happens. None is idle: without it
TLC finds `EntriesMirrorRows`, `RunsExclude`, `PanelFresh` and `ActivationAnnounced` violated.

Induction over a text. The library states induction, and recursion on the natural numbers,
for an operator, which the provers cannot instantiate. `LeftFolds` takes another way: the
library also proves that `<` is well founded on `Nat`, which is about a set. Hence a set of
numbers has a least one (`LeastNat`), and a set that has 0 and with each number the next
holds all of them (`Climbing`). From there follow existence, uniqueness and type of a
function given by recursion over a sequence (`FoldExists`, `FoldsAgree`, `FoldTyped`) and
how it passes over idle elements and over a concatenation (`FoldPart`, `FoldAfter`). The
proofs about texts show that a definition of `Delivery`, `Config` or `Prompt` is such a
recursion and climb along it.

Only model-checked: `StopDrains`, `TurnsEnd`, `TypingEnds`, `StartsOrEnds` and `SignalEnds`, which
are liveness under fairness, out of the provers' reach.

## 5. Not modelled

* The Responses clients (`llm/responses`): stateless requests; what they return is a
  choice in `ChatRun` and `Conversation`, that they have deadlines is in the fairness.
* Logging; the repositories of `users` and `groups`, which no running code uses; the
  re-exports in `handlers` and the generated mocks.
* Within the modelled parts: schedules and time (a trigger may fire whenever its entry
  is there); the wording of messages, errors (`UserMessage` and its redaction) and the
  system prompt; JSON schemas; the prompts, filters and citations of a search; MCP
  transports and the rendering of results; the recognition of mention entities, the
  loading of a photo beyond its success, YAML, database pragmas; which tools are
  offered to whom; a press by somebody who is no admin, which is refused before anything;
  self-closing tags, what stands inside a tag, and the tokenizer's elements of raw text
  (`textarea`, `script`, `title`).

## 6. Plan

Modelled, in this order: `CronJobs`, `ChatRun`, `ChatAccess`, `McpBridge`, `Delivery`,
`Config` and `Runtime`, `TaskLife` and `Message`, `Prompt` and `Conversation`.

Every invariant, action property and refinement that a passing run checks is proved. What may
come next:

* the steps that the liveness properties rest on, as invariants that can be proved: that a
  turn, a start or a shutdown that is not at its end has a step of its own enabled by the
  state, and that each such step brings it nearer to the end;
* a passing run of `CronJobs` with two calls beside two triggers, if a smaller state for a
  trigger's goroutine can be found that loses none of its interleavings.
