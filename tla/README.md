# A verification of Light CLI Agent in TLA+

The program (`src/`) is a coding agent for the terminal: it keeps sessions of
messages, runs an agent loop that alternates between a language model and tools,
asks a client for permission before a tool touches anything, and serves all of
that over a CLI, a terminal UI and HTTP. It is one Node.js process: JavaScript
runs one callback at a time, so what can interleave is the code between two
awaits. Several such processes may share one workspace, and then their files.

These modules model the part of it where an unlucky order of events matters. Each
module says in its header which code it stands for; `PROJECT.json` maps every
definition to source lines, and lists runs, theorems, findings and hazards.

- [1 The system](#1-the-system)
- [2 The modules](#2-the-modules)
- [3 What the runs check](#3-what-the-runs-check)
- [4 Fairness](#4-fairness)
- [5 What is proved](#5-what-is-proved)
- [6 Where code and documentation disagree](#6-where-code-and-documentation-disagree)
- [7 What is not modelled](#7-what-is-not-modelled)
- [8 Plan](#8-plan)
- [9 Running it](#9-running-it)

## 1 The system

Paths are below `src/src/`.

| Component | State | Operations | Interacts with | What is hard | What makes it correct |
|---|---|---|---|---|---|
| Session runner (`core/session/session-runner.ts`) | stop reason, iteration, the messages it read | `run`: system context, `beforePrompt`, budget, stream, tool batch, again | store, hooks, budget, provider, scheduler, events | clients act at every await; aborts; failures anywhere | every call has a result in the transcript; status, stop reason and event agree; it ends |
| Active run manager (`core/runtime.ts`) | map session -> run with its abort controller | `start`, `abort`, `get`, removal when a run ends | runner, mediator, events, HTTP, TUI | check and start are separated by an await | one run per session; a run that ended is gone |
| Tool scheduler (`core/tools/scheduler.ts`) | the batch's results and index | `executeBatch`: groups, `beforeTool`, mode, `decide` per capability, execute, `afterTool` | mediator, hooks, registry, output store | parallel calls, each with several questions; abort between any two awaits | nothing executes without every permission; mutating calls run alone; it returns |
| Approval mediator (`core/permissions/approvals.ts`) | pending map, waiters, timers, records, remembered rules | `decide`, `respond`, `denyPendingForSession`, the timer | policy, scheduler, tools, manager, clients, rules file | reply, timer, abort and a failing write race | decided once; allow only with consent; nobody waits for ever |
| Permission policy (`core/permissions/policy.ts`, `shell-command.ts`) | rules | `decide`, the rule to remember for a request | mediator | precedence; compound commands | deny wins; a remembered rule never widens what is dangerous |
| JSON file storage (`core/storage/atomic-json-file.ts`) | document, lock file | `updateJsonFile`, `readJsonFile` | session, settings and secret stores | several processes, crashes, stale locks | mutual exclusion; an update that returned is kept; no endless wait |
| Session stores (`core/session/*`, `adapters/sqlite/*`) | sessions, messages, to-dos | create, update, fork, compact, add, clear, delete | everything | three implementations of one interface | they agree; compaction keeps the newest messages |
| Context budget (`core/context/context-budget.ts`) | none | `prepare` | runner | counts that are used after an await | whole groups are removed, the latest turn is kept |
| Hook pipeline (`core/hooks/hooks.ts`) | hooks, disposed | `beforePrompt`, `beforeTool`, `afterTool`, `onStop`, `dispose` | runner, scheduler | timeouts of code that runs on | before-hooks fail closed, observers never fail |
| Event bus, SSE (`core/events`, `adapters/http/sse.ts`) | bounded history, listeners | publish, subscribe, history | everything | listeners run inside the publisher | ordered, gap-free for a subscriber |
| Providers (`core/llm`) | none beyond a request | `stream`, `fetchWithProviderPolicy` | runner | retries, timeouts, aborts; merging deltas | at most the allowed retries; whole tool calls |
| Snapshots and edit tools (`core/session/file-snapshots.ts`, `core/tools/builtins/`) | workspace files, snapshots, audit log | edit, write, patch, revert | scheduler, mediator | awaits between check and write; a crash between snapshot, emptying and filling a file; line numbers of diffs | a revert gives the first text back; what is overwritten is in a snapshot; a diff does what it says or fails |
| Delegation (`core/tools/builtins/delegate-task.ts`) | child sessions | run a child session | runner, scheduler | a child's run is outside the manager | depth is bounded, aborts reach children |
| Registry, output store (`core/tools/registry.ts`, `output-store.ts`) | tools; stored outputs | register; store, cleanup | scheduler | two outputs of one id | namespaces are disjoint |
| Runtime state (`core/storage/runtime-state.ts`, `adapters/sqlite`) | keys, provider sections, custom models, active model | set, upsert, delete; `switchModel` | JSON files, TUI, CLI | read-then-set; memory and store change in several steps | no model is lost; a restart finds model and key again |
| Runtime lifecycle (`core/runtime.ts`) | initialised providers, disposed | create, ready, dispose | providers, hooks | dispose during start-up | everything initialised is disposed, once |
| HTTP adapter (`adapters/http`) | none | routes | manager, store, mediator | awaits between look-up and use | a refused prompt leaves no run; a reply decides what it was given for |
| TUI (`adapters/tui`) | active question, queues of questions and lines; editor, menu, picker, copy mode | keys, lines, slash commands | runtime, mediator | one input for the main loop, for permission questions and for what is typed during a run | nobody consents to what was not shown; Enter acts on what is shown; the end of the input ends it |
| CLI (`cli`) | none | `skills`, `keys`, `models`, `run` | settings, skills, a bare runner | a second process beside a running UI | a command changes what it names |
| Skills and bundles (`core/context`) | skill directories, bundle registry | import, install, register, discover | CLI, TUI | copied file by file beside other writers | no file that exists is changed; what is registered is there |
| Tool providers (`adapters/local`, `adapters/mcp`) | loaded modules, child processes | load, discover, dispose | lifecycle, registry | servers that are silent | start-up ends; nothing is left running |
| Mentions, system prompt, configuration, redaction | none | parse, validate, rewrite | runtime | text | |

**How a prompt travels.** The HTTP route checks that the session has no run, awaits
the prompt's file mentions, stores the user message and calls
`ActiveRunManager.start`, which calls `SessionRunner.run`. Each iteration of the run
reads the messages, calls the hooks, the budget and the provider, stores the
assistant message and hands its calls to a `ToolScheduler`. The scheduler asks
the mediator for every capability of a call; the mediator asks the policy, and if that
says "ask" it publishes `permission.requested` and waits for a reply
(`POST .../permissions/:id` or the TUI), its timer or an abort. The results go back
into the transcript, and the loop goes on until an answer has no calls, the
iteration limit is reached, or the run is stopped.

## 2 The modules

| Module | Models | Uses |
|---|---|---|
| `ApprovalMediator` | the mediator, the remembered rules, and what an abort does to them | |
| `ToolBatch` | abstract: what `executeBatch` promises the loop | |
| `ToolScheduler` | `executeBatch` and `executeOne` | EXTENDS `ApprovalMediator`, refines `ToolBatch` |
| `AgentRun` | the loop, the manager, and the clients of one session | relies on `ToolScheduler` for batches that return, with an outcome of each call |
| `SharedDocument` | abstract: what `updateJsonFile` promises the stores | |
| `AtomicJsonFile` | `updateJsonFile` among several processes | refines `SharedDocument` |
| `SessionStore` | the in-memory store, and what every session store promises | |
| `SqliteSessionStore` | the SQLite session store among several processes | refines `SessionStore` |
| `FileSessionStore` | the session store on one JSON document | refines `SessionStore`; its updates are single steps as `SharedDocument` has them |
| `TuiInput` | the UI's one input: main loop, permission questions, lines typed during a run | |
| `TuiEditor` | the keyboard: line editor, menu, history, model picker, copy mode | |
| `EditPipeline` | edit tools, snapshots and revert of one file, with crashes and other writers | |
| `TextPatch` | `applyUnifiedDiff`, a line at a time | |
| `SkillBundles` | importing, installing, registering, adding and removing skills | |
| `ModelSettings` | keys, providers and models in memory and in either store, and restarts | |
| `ProviderCall` | one call of a model: retries, fallback, three stream parsers, aborts | |
| `RuntimeLifecycle` | creation and disposal of a runtime with its hook and tool providers | |
| `Ordering` | the ascending list of a finite set of numbers, and picking places of a list in that order | used by `ProviderCall`, `FileSessionStore`, `TuiInput`, `TuiEditor` |
| `MCComponents` | the nine modules from `FileSessionStore` to `RuntimeLifecycle`, each on a small instance | EXTENDS each |
| other `MC...` | constants for TLC, one per module that is run alone | |
| `ApprovalMediatorProofs`, `ToolSchedulerProofs`, `AgentRunProofs`, `AtomicJsonFileProofs`, `SqliteSessionStoreProofs` | theorems about the module they are named after | `ToolSchedulerProofs` cites `ApprovalMediatorProofs` |
| `WorkspaceFilesProofs` | theorems about `EditPipeline`, `TextPatch`, `SkillBundles` | |
| `RuntimeProofs` | theorems about `RuntimeLifecycle`, `FileSessionStore`, `ProviderCall` | |
| `ComponentsProofs` | theorems about `TuiInput`, `TuiEditor`, `ModelSettings`, and the types of all nine components together | cites the two before it |

The nine modules that `MCComponents` extends have no variable in common: what they share in
the program (files, a configuration) is inside one module. Its variable `part` says which of them
moves in a behaviour; the others stay in an initial state. One run thus checks all of
them, each exactly as it would be checked alone.

Conventions in all of them:

- An action is the code from one await (or system call, in `AtomicJsonFile`, or SQL statement, in `SqliteSessionStore`) to the
  next, with every call it makes. Its name is the function's, or says what the
  awaited thing did (`BatchReturns`, `HooksReject`).
- What the data decides, and no property looks into, is a nondeterministic choice
  (how many calls an answer has, whether the budget compacts) or a constant
  (`Static`, the answer of the policy to a request).
- `Env` and `Faults` name what the environment may do beyond the ordinary. The
  runs use all of it unless a run is about its absence.
- A definition `Name_Fault` is a plausible bug in `Name`: it is not used by anything.
  Put in place of `Name` it must make the property that `PROJECT.json` pairs it with
  fail, which shows that the property can tell.
- A variable marked *history* is not in the code. `stolen` (in `AtomicJsonFile`)
  records that a lock file was unlinked under a live holder. `harmed` (in
  `AgentRun`) records that the transcript was restored unpaired (`torn`) or cut by a client (`cut`), that storing
  results failed (`results_lost`), or that the transcript was not the one the budget
  had counted (`drift`). Properties that are only promised without these say so.
  Others are the outside's view of what happened, which a property compares with
  the program's: `informed` (`TuiInput`), `origin` and `lost` (`EditPipeline`), `kept`
  (`SkillBundles`), `wanted` (`ModelSettings`), `sent` and `proper` (`ProviderCall`), `disposals`
  (`RuntimeLifecycle`); `meddled`, `crashed`, `overlap`, `excused` and `shrunk` are
  of the first kind.

### ApprovalMediator

`stage` is where the `decide` call of a request is: `idle`, awaiting the base
policy, asked, or settled with `answer`. `approval`, `waiters`, `timers` and `log`
are the mediator's maps; `rules` and `saved` the remembered rules in memory and
on disk. `Ask` creates approval, timer and waiter in one step because no await separates
them; `AskAnsweredInline` is the same step with a listener of `permission.requested`
that replies during it, before the waiter is registered. `RespondUnsaved` is
`respond` whose rule cannot be written. `Timeout` is the timer's callback. `Abort` is
the abort signal with the listeners of the requests in flight and the manager's loop
over the session's descendants. A request is `Watched` when the scheduler makes it
(with signal and listener) and not when a tool's body makes it. A session outside
`Managed` is driven by a bare `SessionRunner`, as the CLI's `run` does: its signal
has only the listeners. A delegated child has its parent's signal
(`SignalOf`), a fork has one of its own although its source is its `Parent`.

A restarted process starts in `Init` with what is on disk, so `saved` is any set of
rules there. The model is of one process.

### ToolBatch and ToolScheduler

`ToolBatch` has counters: calls `1..started` have started, `1..reported` have
results, `executed` began to execute. `Advance` starts the next calls only when
all before are done and only together if they may overlap, `Execute` needs the run not
to be stopped, `Return` needs everything started to be done, and all started unless stopped.

`ToolScheduler` adds to the mediator the await each call is at (`call`: hook, permit,
tool, after), how many capabilities it asked for (`at`), and its `outcome`. An
action that calls `decide` includes the mediator's `Decide`. The refinement mapping is
`started <- upto`, `stopped <- RunAborted`, `over <- batch = "returned"`, and
`executed` the calls past `Execute`.

### AgentRun

A run is named by the prompt that started it. `pc` is the await it is at; `request`
where the HTTP handler is with the prompt. `transcript` holds the messages with what
pairs calls and results (role, turn, number); texts are left out. `Finish` is the
code after the loop, `Catch` the catch clause. A tool batch is one await, whose
calls all get a result: that of the scheduler (`ReturnedWhole` says that each has one), or of
`completeToolResults` after an abort. The route's handlers are `CheckPrompt`,
`SubmitPrompt`, `Abort`, `DeleteSession`, `CutTranscript`.

### SharedDocument and AtomicJsonFile

`SharedDocument` has the document and, for each process, whether its update is pending or was applied
(`call`) and how many returned: an update is applied at one moment, a call that returns has applied it, and one that
throws has not. The mapping (`CallOf`) is by `pc`: `Write`, the rename, is where an update is applied. Every other
system call is a stutter, or begins or ends a call. The promise ends with `stolen`, as the finding shows.

In `AtomicJsonFile`, an action is one system call. The document is abstracted to how many updates of
each process it holds, which is all that a lost update changes. `old` says whether
the lock file is older than thirty seconds; `LockAges` may happen as soon as the
holder is not inside the operation (it crashed, or leaked the lock), and under the
fault `stall` at any time. `MaxTries` stands for the five-second deadline in units of
attempts; giving up may also happen earlier, as a slow process would.

### SessionStore and SqliteSessionStore

`SessionStore` is `InMemorySessionStore`: two maps, whose domain is the sessions there are.
A session keeps its status, its mode (for everything `updateSession` can patch), its parent,
and how many messages its last compaction removed (for the metadata); a message is its `body`.
It has no run of its own: it is what `SqliteSessionStore` and `FileSessionStore` are checked against, and proved to
implement.

`SqliteSessionStore` has the two tables. A row of `messages` has its rowid (`row`) and
`created_at` (`at`), which `Listing` orders by. Calls of one statement or one transaction
are one action; the others begin with `GetSession`, which keeps in `job` the row and the
time they read, and end with an action named for the call (`DeleteMessages` and `DeleteRow`
for `deleteSession`). `Fail` ends a call between two statements: the process dies, or
a statement throws. Foreign keys are on, so an insertion for a deleted session throws, and a
deletion cascades. The clock is taken never to go back (`ORDER BY created_at` would reorder a
transcript otherwise), and rows of one millisecond to come in the order of their
rowids, which is how the index on `session_id` yields them.

*History:* `wanted` is the status last set on a session. `stale` records that a
call finished on a row that had changed since it was read (`updateSession` writes back every
column but the status, `forkSession` copies the row it read), or stored a message under an older
time than one that was there. From then on `ImplementsStore` promises nothing: two
processes that patch one session at a time do lose one of the patches. Nor does it promise anything of
a compaction that `CutsShort`, which is the finding `CompactionKeepsLast`.

### FileSessionStore

Every call is one `updateJsonFile`, so one action, which is what `ImplementsDocument` allows of other processes' calls. `messages` is the flat array of the document,
in which all sessions' messages are mixed; `Of` filters it. The refinement maps it to a map from
sessions to sequences, so that a call for one session must leave those of every other as they are.

### TuiInput

On a terminal `active` is the one question the keys go to: `QuestionTty` replaces it, and the one replaced
is never resolved. On a pipe questions wait in `waiters` and lines nobody waits for in `lines`;
`TakesLine` answers a question at once from there. `loop` is where `tuiCommand` is, `approval` what the
mediator knows (`askForPermission` replies to it). A line carries which requests had been
asked when it was typed (`shown`); `informed` collects those that were allowed by such a line.

### TuiEditor

`value`, `cursor` and `selected` are the active question's; `selected` also points into the model
picker's list, and `line`, `top` and `selection` are copy mode's. One action per key or command
(`KillWord`, `AcceptSuggestion`, `NavigateHistory`, `PickerQuery`, `CopyPageDown`, `Resize`).
`Suggestions` and `Filtered` are the lists the screen shows.

### TextPatch and EditPipeline

`TextPatch` makes every diff of a text (each line kept, deleted, replaced or added to) and
applies it to every text, a loop iteration per action. `EditPipeline` leaves open what an edit makes of a text:
`edit` and `revert` are the awaits the tool and `revertSessionSnapshots` are at,
and a write is two steps, emptying and filling; the snapshot's own file is created (`OpenSnapshot`) before it has
its text (`WriteSnapshot`). `SnapshotFails`, `EditFails` and `RevertFails` are the writes and reads that throw. A snapshot file that
was created and never filled stays (`torn`): from then on a whole revert throws when it reads the list
(`Unreadable`), and only the revert of one snapshot goes on working. A snapshot's `time` is a millisecond, so two may be equal
and a revert may take them in either order (`RevertOrders`).

### SkillBundles

A skill is its `SKILL.md` and the rest of its directory, two slots of `disk`; a copy under way is
`torn`. `install` is the import or installation: what it has yet to copy, the file it is at, the
components it will register, the registry it read. `Starts` scans, `CopyBegins` and `CopyEnds` are
`copyFile` with `COPYFILE_EXCL`, `ReadRegistry` to `FillRegistry` are `registerBundle`. `AddChecks` and `AddWrites`
are "skills add", `Remove` is "skills remove", `UserWrites` anything else.

### ModelSettings

`cfg` is the configuration in memory; `secrets`, `saved`, `models` and `activeModel` are
stored, by files or by SQLite (`kind`). `tui` and `cli` are the command each process is in. "/connect" is
`Connect`, `ConnectSaves`, `ConnectUpserts`, `ConnectApplies`, with a `Restart` possible after each.
`Effective` is what a new process makes of the configuration file and the store (`applyOverrides`).

### ProviderCall

`at` is the await of `fetchWithProviderPolicy` or of the stream. `Throw` is what `streamWithFallback` does with an
error, `Retry` what the policy does. `pending` and `calls` are the adapter's: fragments collected by
index, and tool calls yielded. `sent` is what the server sent, `proper` the calls to which it gave a name the OpenAI
adapter accepts. `numbered` says whether the fragments of a response carry an index, and `Place` where one without it goes: the
OpenAI adapter takes 0 for it (`mergeToolCallChunk`), so that all calls of such a response fall into one entry (`Apart` says when
they do not); the other two count by themselves.

### RuntimeLifecycle

`creator` is `createRuntime`, `loader` the promise `ready` (loading tool providers in order), `stopping` the
first `dispose`. `open` is what has been loaded, started or opened and can be given back. Of tool providers,
those in `Mcp` are isolated when they fail and may be silent for ever; the
others fail the runtime. What the loaded hooks hold themselves is one resource, `OwnHooks`: only the `HookPipeline` of a
runtime calls `AgentHook.dispose`, so a creation that fails without a runtime (`FailEarly`, `HookFails`) gives back the hook
providers and not that. A local provider, of tools or of hooks, learns its module's `dispose` when every export was found in order; a module that was
imported and then refused is `stranded` (`Rejected`, `HookFails`). When creation fails after `Construct` started the loading, the
signal is aborted: local providers see it, before the import or after it, and MCP servers do not.

## 3 What the runs check

| Run | States | Checks |
|---|---|---|
| `ApprovalMediator.cfg` | 18,740 | safety and liveness of the mediator with failing writes and inline replies |
| `ApprovalMediatorUnsaved.cfg` | | finding: `ApprovalTimesOut` |
| `ToolScheduler.cfg` | 99,358 | permissions, questions, refinement of `ToolBatch`, return of the batch |
| `AgentRun.cfg` | 745,280 | one run, paired transcripts, status and event, silence after an abort, end of the run |
| `AgentRunCompaction.cfg` | | finding: `CompactionKeepsPairs` |
| `AtomicJsonFile.cfg` | 407,226 | refinement of `SharedDocument`, so no lost update, before a takeover, return within the deadline, under all faults |
| `AtomicJsonFileTakeover.cfg` | | finding: `NoLostUpdate` after one crash |
| `SqliteSessionStore.cfg` | 506,948 | two processes: rowids, no status taken back, refinement of `SessionStore` until a stale call |
| `SqliteSessionStoreCompaction.cfg` | | finding: `CompactionKeepsLast` |
| `Components.cfg` | 783,615 | each of the nine components: consent on the terminal and its end, what Enter acts on, diffs, reverts, imports and registered bundles, models and restarts, tool calls and aborts of a provider, creation and disposal, refinement of `SessionStore` by the file store |
| `SkillBundlesRemove.cfg` | | finding: `SkillsKept` |
| `RuntimeAtomicInit.cfg` | | finding: `FailureDisposes` |

What a theorem proves for every instance and follows closely from another property that is run is not run
as well: `Expirable`, `RulesKept` and `RulesNeedAlways` of the mediator, `UnsafeAlone` and
`ReturnedWhole` of the scheduler, `Exclusive`, `AckedIsStored`, `FileOnlyGrows` and the fault-free `NoLostUpdate` of the JSON file, `NoOrphans` of the
SQLite store.

All configurations turn TLC's deadlock check off: prompts, requests, calls and updates are
bounded, and a system in which all of them are done stops.

**Bounds, and why they are enough.**

- *Mediator:* three sessions (a run, its delegated child, a fork) give every relation
  `Descends` and `SignalOf` tell apart; three requests (two of the scheduler, one of a
  tool) with two rules, of which one request needs both, give replies to one
  request that change the answer to another. Every request is made once, so two
  timers, a reply and an abort may race.
- *Scheduler:* five calls make a group of two, a call alone and a group of
  two with an invalid call; one call has two questions, one asks from its body, one is
  over the mode's ceiling.
- *Agent run:* two prompts suffice for the race between check and start and
  for a run after a run; two iterations and one call per answer give a turn with results
  followed by another, the iteration limit, and compaction of a first turn. The session is new, or restored with a
  whole turn, or with one whose call has no result because its process died. The
  compaction finding needs an earlier turn and a third prompt.
- *File:* one process to leave a lock behind and two to come across it; the first updates twice,
  so that a takeover can hit a later lock of a live process; one retry separates
  waiting from giving up.

- *SQLite:* two processes for a read and an overtaking write; two sessions, so that one is a fork of
  the other; four messages, so that a fork copies two and their order shows; six calls, of which
  four set up a session of two messages and fork it; two clock readings. Compactions keep
  none, one or three messages. The finding needs a compaction that keeps three of two.

- *Components*, by part. *input*: two requests, so that one question can replace the other's, and four
  lines (a prompt, one typed ahead, an answer to each). *editor*: lines of two characters out of three,
  one remembered line, two commands of which typing tells one apart, two models that share a prefix, five
  lines of transcript on screens of two and three. *patch*: texts of at most two lines, which give hunks that touch,
  come first, come last, or do not apply. *edits*: two texts, two snapshots and one write by somebody else: a revert of two
  edits with a meddler between any two steps. *skills*: a path with a skill of its own directory, a root skill and one
  component; the finding has two paths. *settings*: an alias that shares a section, its section's model for
  the other process, one key, and three configuration files (no key, the shared one, the alias's own).
  *call*: one retry, two calls, 0 and 1, with four events: interleaved, cut anywhere, or without an index. *life*: two hooks, a local
  provider between two MCP servers, two calls of `dispose`. *files*: two sessions, of which one can be a fork
  of the other, three messages, keeping none, one, or more than there are.

**What the properties say.** Each is stated above its definition. The ones worth
knowing first: `AllowNeedsConsent` and `ExecutedIsPermitted` (no order of replies,
timers, aborts and failed writes makes a tool run without consent);
`NothingPendingAfterAbort` and `NoOrphanQuestion` (no question outlives its reason);
`TranscriptPaired` and `ProviderSeesPaired` (providers reject a request
in which a tool call has no result, so an unpaired transcript makes a session unusable);
`EventMatchesStatus`; `ImplementsDocument`; `StatusKept` and `ImplementsStore`; `ConsentSeen` (no line typed ahead
consents); `RevertRestores` and `NothingLost` (a revert that gets to its end restores, and destroys nothing of the user's);
`RestartKeepsConnection` (what the UI shows as its model survives it); `CallsWhole` (no tool call of a model is lost,
doubled, or given another's arguments); `NothingLeaks`, which says what a failed creation still holds, and no more than that.

## 4 Fairness

Clients owe nothing: no reply, prompt, abort, deletion or `decide` is fair. Fair are

- in `ApprovalMediator`, the continuation of a settled promise and the timer of
  each request: the event loop runs every callback that is due;
- in `ToolScheduler`, the batch's own continuations, each call's own steps (hooks have a
  timeout; tools have the signal and timeouts of their own) and the mediator's
  callbacks;
- in `AgentRun`, each run's next step: initialisation, hooks, provider and batch
  settle. That a batch settles is `BatchReturns`, with the exception stated there: an
  "always" reply that could not be saved;
- in `AtomicJsonFile`, each process's next system call. A crashed process need not
  restart and thirty seconds need not pass.

- in `TuiInput`, the main loop, the end of a run whose requests are decided, and the mediator's
  timers; the user need not type;
- in `ProviderCall`, sending a request, the end of a delay, the header timeout and the reaction to an
  abort; the server may be silent in every state, and a stream that stalled stays so until the user aborts;
- in `RuntimeLifecycle`, `createRuntime`, `dispose`, the time-outs of MCP servers and the import of local
  modules, which ends in one way or the other; that an MCP server answers is not assumed.

`SqliteSessionStore` and the other components have no liveness property and no fairness.

No strong fairness is needed. The steps an abort or another process can disable are
followed by others of the same disjunction: an abort turns a question that is about to be asked into a
denial, and a lock that is taken turns its creation into a retry.

## 5 What is proved

TLAPS checks the theorems for every value of the constants that satisfies the
named assumptions, which TLC evaluates on the runs: `MediatorAssumption`, `SchedulerAssumption`, `RunAssumption`,
`FileAssumption`, `StoreAssumption`, `InputAssumption`, `EditorAssumption`, `SettingsAssumption`, `EditAssumption`, `SkillAssumption`,
`CallAssumption`, `LifeAssumption`, `FileStoreAssumption` and `PatchAssumption`. They say that constants have their types (a request belongs to one
capability of one call, a screen has a line, no special value is an ordinary one) and that no provider is given twice.

- **Mediator.** `IInv` adds to the properties that a request's stage determines the rest:
  before it is asked there is no approval, record, waiter or timer; while it is asked it has its
  waiter; the answer agrees with the record; a pending watched request of an aborted
  run does not exist. The invariants are not inductive without it: `ResolvedOnce`, for
  instance, needs that a request not asked yet has an empty record. `ResolveAllKeeps`
  treats replies and aborts together. All six invariants and `RulesNeedAlways` follow.
- **Scheduler.** `SInv` contains the mediator's `IInv` (its lemma `MediatorInv` reuses the
  mediator's proof, since every scheduler step is a mediator step or leaves it alone) and ties
  the two together: the capabilities a call has asked for are settled with "allow" but for the one it waits
  for; those it has not asked for are idle; calls beyond the group wait, calls before it are done.
  From it follow the invariants and, step by step, that the scheduler implements
  `ToolBatch` (`SchedulerImplementsBatch`), fairness aside. `BatchIsWhole` has an invariant of its own: a call that is done has
  its outcome (`Finish` gives both), and the loop ends before the last call only when the run was aborted.
- **Agent run.** `IInv` says what each `pc` means for the manager's map, the status and
  the stop reason. `OneRun`, `StatusFollowsRun` and `EventMatchesStatus` follow. `FinishStep` and
  `WaitStep` are the two ways a run moves. For the transcript there is a second invariant, `TranscriptWhole`, relative to the
  first: while a batch runs, the calls of the last answer, and only they, lack results; what a run read is paired
  when a provider is to see it; and no result has the turn a run has yet to come to. `ResultsComplete` closes the
  last turn, `CompactionKeepsPaired` cuts between two groups. A session may be restored with a transcript that
  was cut short; then `harmed` holds from the start and nothing is promised of it. `SilentAfterAbort` follows action by action (`StepAddsNone`).
- **JSON file.** `IInv`: unless `stolen`, whoever is inside has the lock, what it read is what
  the file holds, and what was acknowledged is in the file. `FaultFreeIsSafe` shows that without
  faults a lock that looks stale cannot exist, so `stolen` stays false and `NoLostUpdate` holds
  outright. The refinement (`FileIsTheDocument`) goes action by action: `CallMoves` and `StaysInCall` say which move of `pc`
  moves the call, and that what is renamed over the file is the file with one more update is `IInv` again.
  `FaultFreeIsTheDocument` drops the proviso.
- **SQLite store.** `IInv` is the three invariants and that `messages` is finite: a new rowid is
  above all others only then (`LastRowIsLast`, by well-foundedness of strict inclusion), and places
  in a listing are numbers, different for different messages (`PlaceIsInjective`), so the rows a fork
  gets are different too (`ForkedRows`). `AloneNeverStale` proves from `Current` (what the
  call read is what the table holds) that a single process never sets `stale`.
  The refinement (`SqliteIsTheStore`) needs that `Listing`, a choice of an order, is *the* order: rows have an
  enumeration by time and rowid (`RowsEnumerated`), and what lists them in that order is the listing (`ListingIs`). Then a fork's
  listing is its source's (`SqlForkMaps`), an added row comes last unless its call was stale (`SqlAddMaps`), and deleting the
  oldest rows leaves the end of the list (`CompactMaps`). `AloneIsTheStore` has no proviso about stale calls.
- **File store.** `FileInv`: whose messages there are is known, and no id is given twice. The refinement (`FileIsTheStore`) rests on lemmas about
  picking places of one sequence in ascending order, which is how each session's list comes out of the shared one:
  filtering what was filtered (`FilteredTwice`), a joined list (`MineOfConcat`), the last so many (`LastPicked`). `SortedIs`
  says which list an ascending choice is.
- **Provider call.** `CallInv`: while a body is read, what the adapter has collected of each call is
  what was sent of it, and it has a name exactly if the server gave it a valid one (`Merged`); what was yielded was sent, in
  order (`InTurn`); after the server's last event everything with a valid name was yielded; before the headers nothing is
  left of an earlier attempt. `FlushDelivers` is the step that yields. `CallsComeWhole` says that no such call
  is missing, for each adapter; the one response it says nothing of is an OpenAI-compatible one with several calls and no index.
- **Runtime lifecycle.** `LifeInv` says for each phase what may be open: hooks and storage before there is a
  runtime, these and the noted tool providers until the first `dispose` closes them, then only what it has yet to
  close, which has no member twice and has not been disposed. For a creation that failed without a runtime it says what
  stays: the hooks' own resources, and MCP servers if the loading was under way; a local provider is held by such a
  loading at no time, since its signal is aborted. A module is `stranded` only where the loading or the creation failed, so never under a runtime that came up. `AllToClose` shows that its list has everything that can be open, from lemmas
  about reversed and concatenated lists without repetitions.
- **UI input.** `InputInv` adds to `ConsentSeen` that `approval` is a total map and that whose question is active
  is known. `AnswerKeeps` is the step that matters (a line that answers on a terminal was typed
  now, so it has seen what is pending), `RequestKeeps` needs that only a pipe takes lines
  from the queue.
- **UI keyboard.** `EditorInv`: a row is selected whenever the list has one, and in copy mode the first line shown is
  not below the cursor, nor a screen above it. The property speaks of what the renderer shows, which clamps the view
  once more (`Offset`).
- **Settings.** `SettingsInv`: memory and store have the same sections and keys but for the one "/connect" is at
  (`InStep`), a section that was saved has a key (`SavedKeyed`), and the stored model can be started (`Startable`). `RestartKeepsConnection`
  is not inductive: what a restart finds after "/connect" died depends on what it had stored before.
- **Edits.** `EditInv`: snapshots are chained (each begins with a text that another one left, `Chained`) in the order of their times, and
  a whole revert that gets to its end walks them back one by one, the file saying what it said when as many had been taken (`WalksBack`); one that
  throws, on a torn snapshot or in the middle, is back at no revert and nothing is said of it. `YoungestFirst` shows
  that without equal times the one order a revert can take is that.
- **Diffs.** `PatchInv`: between two hunks the lines put out are as many as `Described` says of the lines before `next`, and
  those lines if the diff was made of the source (`Reaches`); the hunks left are those of the changed lines from there on (`HunksOf`); in a hunk
  either its first line is to come or only lines to add. `Described` is a recursive function of the number of lines;
  `DescribedIs` shows by well-foundedness that it is what its definition says, `KeptLines` that between two hunks it copies.
- **Skills.** `SkillInv`: a file that is being copied is torn until the copy ends, only installations write components, and what counts
  as copied is there or still to be copied.

- **Types.** Each `TypeCorrect` is the first part of its component's invariant, the bounds that keep TLC's state
  space finite included (`EditBounded`: an edit that has read the file has room for its snapshot). `ComponentsTypeCorrect` is `TypeOK` of `MCComponents`:
  a behaviour in which one component moves and the others stay is a behaviour of each component by itself, so the nine theorems apply.

Every invariant that a run checks is a theorem too, and so are the action properties and the refinements, fairness
aside.

### Liveness

The theorems about what must happen use the fairness of the specifications as it stands, `WF` of the code's own
steps, and one hypothesis more: that a step whose guard holds is enabled. `ENABLED` is out of the
prover's reach, so the hypothesis is written down beside each specification
(`StepsCanHappen`, `AbortCanHappen`, `RunsCanStep`, `UpdatesCanStep`, `QuestionsCanStep`) and the theorems read
`Spec /\ []StepsCanHappen => ...`. None of the five says more than the reader sees in the actions, whose other
conjuncts only assign; and TLC finds each of them invariant when it is added to the `INVARIANTS` of
`ApprovalMediator.cfg`, `Components.cfg`, `AgentRun.cfg`, `AtomicJsonFile.cfg` and `ToolScheduler.cfg`.

- **Mediator.** `AskedGetsAnswer` is `AskedIsAnswered`: a request that is asked has a timer or an unsaved "always", by
  `Expirable`. `SavedIsTimedOut` proves `ApprovalTimesOut`, the property that `ApprovalMediatorUnsaved.cfg` refutes, for a
  rules file that can be written: the failed write is the only exception. `DecideReturns` goes
  from the policy's answer to the caller's, with an abort anywhere in between (`PolicyStep`: what is not
  to be asked never is, what is to be asked may stop being so).
- **Scheduler.** `QuestionEnds`: a call that waits for its k-th question gets beyond it. Other calls, replies, aborts and
  the loop leave the call where it is (`QuestionStays`) and the question only moves on (`QuestionMoves`).
- **Agent run.** `IterationEnds`: the places of a run's loop are numbered, a step gets to a later one or to the head of
  the next iteration, and the run's weak fairness takes it through all of them. `AbortedRunEnds`: once the
  signal has fired there is no next iteration, so the run ends.
- **JSON file.** `AttemptEnds`: an update that tries to take the lock finishes, crashes or tries again with
  one more try on its count; `HolderLetsGo`: whoever is in the critical section leaves it.
- **Provider call.** `AbortEndsTheCall` is `AbortSettles`, from the fairness `MCComponents` states for this part, `WF` of
  `CallProgress`. An aborted call that waits comes to its end or to another attempt, and an attempt
  that begins after the abort ends before it is sent.

Model-checked only: `BatchReturns`, `RunEnds`, `UpdateEnds`, `ClosedEnds` and `CreationSettles`. Each goes through a number of rounds that
a constant bounds (groups of a batch and capabilities of a call, iterations, tries, requests that are pending, providers), and
putting the rounds together is an induction over temporal formulas, which the provers cannot do. For the first three
the single round is what `QuestionEnds`, `IterationEnds` and `AttemptEnds` prove. The hypotheses on `ENABLED` are left to TLC, as said.

## 6 Where code and documentation disagree

- **An unsaved "always" never times out** (`ApprovalMediatorUnsaved.cfg`).
  `respond` disarms the timer, then `addRule` throws. The approval stays pending without a
  timer; `src/test/approval-mediator.test.ts:33` expects a deny "after approval timeout".
- **Stale-lock recovery can lose an update** (`AtomicJsonFileTakeover.cfg`). Two
  processes stat the same stale lock; one unlinks it and creates its own, the other then unlinks
  that one. `src/docs/architecture.md:161-162`.
- **Compaction can separate a call from its result** (`AgentRunCompaction.cfg`). The count of
  messages to keep is applied to a transcript that a refused prompt made longer.
  `src/README.md:416-418`: it "never separates tool call/result pairs".
- **SQLite compaction deletes when asked to keep more than there is** (`SqliteSessionStoreCompaction.cfg`).
  `slice(0, length - keep)` with a negative end counts from the end; with the default of 20,
  ten of fifteen messages go. The interface calls it `keepLastMessages`
  (`src/src/core/session/session-store.ts:53`), and the other two stores keep everything.
- **"skills remove" can remove other skills** (`SkillBundlesRemove.cfg`). A `SKILL.md` at the root of a skill path is removed
  with the whole path, as soon as two skill paths are configured (the default has three,
  `src/src/core/config/schema.ts:247`). `src/src/cli/commands/skills.ts:289-290` says that in this case "just" the
  file is removed.
- **A failed creation can leave an MCP server running** (`RuntimeAtomicInit.cfg`). `constructRuntime` starts the loading of tools
  and then creates the provider adapter (`src/src/core/runtime.ts:246`). If that throws, nobody has the runtime: the catch gives back
  the storage and the hook providers, the loading goes on, and the MCP provider adds its listener to a signal that is
  aborted already (`src/src/adapters/mcp/mcp-tool-provider.ts:197`), so the server is connected, registered and never closed.
  `src/docs/architecture.md:30-32`: "Initialization is atomic [...] failures dispose initialized providers".

Two more disagreements are in the models and have no run of their own:

- **One torn snapshot takes the reverts of a session with it** (`torn`, `Unreadable` in `EditPipeline`). `writeFileSnapshot` is
  a plain `writeFile` (`src/src/core/session/file-snapshots.ts:52`); a crash, or a disk that is full, leaves a file that
  `JSON.parse` does not take (line 137), and listing or reverting a session reads all of them. Edits that succeed later
  cannot be listed or reverted together either. `src/README.md:264`: "Successful edits are audited under
  `.agent-cli/` and can be inspected or reverted through the session APIs." `RevertRestores` is therefore about
  whole reverts that get to their end.
- **An aborted run may finish as error or completed** (`Finish` in `AgentRun`). An abort is looked at at certain points only: a run that
  is aborted while a hook is about to reject ends as error, and one that is aborted while `onStop` is awaited as completed
  (`src/src/core/session/session-runner.ts:283`). `src/docs/architecture.md:100-101`: "abort sets them to cancelled".
  `EventMatchesStatus` says that its status and its event agree all the same.

Met while modelling, in the models, and not contradicted by a document: a connection that throws in
`switchModel` leaves the new model in memory (`core/runtime.ts:597`; `excused` in `ModelSettings`); the file store has no
use for a key stored for an alias without a section of its own (`excused`); hooks that were loaded have their own `dispose` not called when
creation fails before there is a runtime (`core/runtime.ts:357-365`; `OwnHooks`); a local module that was imported and then
refused is not disposed (`local-tool-provider.ts:126-138`, `local-hook-provider.ts:68-79`; `stranded`); several tool calls of an OpenAI-compatible
stream without an index are taken for one (`openai-compatible-provider.ts:258`; `Place`); a tool call cut off by the
end of a stream is yielded with the arguments so far (`BodyEnds`); a header timeout never starts the fallback
(`HeaderTimeout`); the OpenAI adapter drops calls whose name is not valid (`Flushed`); the bundle registry is written
without a lock.

## 7 What is not modelled

- Listeners of the event bus that throw, and a policy that throws: the first would leave approvals without
  timer or waiter. A second process that remembers rules, and a process that dies during a run (the session
  stays "running"); these are hazards in `PROJECT.json` without a property.
- The runs of delegated children, which the manager does not know.
- The chain of hooks inside the pipeline, and the event stream over HTTP with its replay.
- Matching of permission rules and shell commands; parsing and checking of configuration, arguments,
  frontmatter and manifests; redaction; mentions and the system prompt; token counts; the retention of stored tool
  outputs. They compute values from values, without an order of events to get wrong.
- Of the terminal UI: drawing, mouse, clipboard, and the commands that only list. Of diffs: hunks without a line of context,
  which a diff tool writes when told to, and texts without a final newline.
- Of the provider call: a response some of whose fragments have an index and some not.
- Of the runtime: the deprecated synchronous `createRuntime`, skill sources, and a provider adapter with a `dispose` of its own. Hooks given
  without a provider have nothing but their own `dispose`, as those of a provider have. The `client.close()` with which a timed-out MCP server is left out has no
  timeout of its own; it is taken to end, so `CreateSettles` says nothing of a server that is silent there too.
- Texts: a message is a model value where it is more than its role.

The status of each component and its reason are in `PROJECT.json`.

## 8 Plan

The core came first (what grants permission, what executes, what is stored, what several processes
share), then the components around it. Left, in this order:

1. `EventBus`: publish inside publish, throwing listeners, bounded history, replay over HTTP; then the
   mediator and the run with throwing listeners.
2. `Delegation`: composes `AgentRun` for a parent and a child outside the manager, with the HTTP prompt to the child.
3. `HookPipeline`: order, timeouts of code that runs on, dispose.
4. `PermissionPolicy`: rule precedence and compound shell commands as operators, checked against a reference definition;
   two processes remembering rules.

## 9 Running it

    tlc -workers 2 -config AgentRun.cfg MCAgentRun.tla
    tlc -workers 2 -config Components.cfg MCComponents.tla
    tlapm AgentRunProofs.tla

The run of `Components.cfg` takes two to three minutes, those of `AgentRun.cfg`, `AtomicJsonFile.cfg` and `SqliteSessionStore.cfg`
about a minute each, the others seconds.
