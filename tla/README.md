# Verification of lceda_ai

lceda_ai is an AI assistant for schematic drawing: a Go server
(`src/server`) that holds accounts, credits, a knowledge base and a proxy to
language models, and a TypeScript plugin (`src/plugin`) that runs inside the
LCEDA editor, talks to the server, lets a model call tools, and applies the
plans it proposes to the schematic. This directory holds TLA+ models of the
parts whose correctness depends on the order in which things happen, the TLC
runs that check them on small instances, and proofs of the central properties
for instances of any size.

## 1. Inventory

| Part | State | Operations | Hard behaviour | Model |
|---|---|---|---|---|
| Import task queue `server/internal/usecase/knowledge/import_task_*.go` | task rows and dead letters (PostgreSQL), stream or list and lease keys (Redis), `s.mu`, `processingTasks`, timers | create, run, enqueue, retry, dequeue, claim, ack, attempt, stop | several processes, redelivery, leases with a TTL, timers in memory, crashes, partial failures | `ImportTaskQueue`, `ImportTaskLifecycle` |
| Knowledge service `usecase/knowledge/service.go` | documents, chunks, source keys, content hashes | import, reindex | two repository calls per import, concurrent calls, a hash wider than its column's type | `KnowledgeStore` |
| Auth `usecase/auth/service.go`, `repository/persistence/auth.go` | login sessions, mail codes, OAuth states, token pairs; a Redis copy of each row | create, poll, mail code, WeChat, exchange, refresh, logout, bind | two stores, copies written back whole, statements that fail unnoticed | `LoginFlow`, `TokenSessions` |
| Credits `usecase/credits`, `repository/postgres/credits_repo.go` | balance, transactions, request log | open, consume, read | charge after the call, first-use accounts | `CreditsLedger` |
| LLM proxy `usecase/llm`, `integration/llmproviders`, and the plugin's clients `services/llm` | none; a stream under way | generate, stream, fall back, retry | failures in the middle of a stream, pieces of tool calls in any order | `CreditsLedger`, `ModelRelay` |
| RAG search `usecase/rag`, Qdrant | results of the last search | search, rank, cut, corpus | a field shared by all requests | `RagSearch` |
| Plugin session `plugin/src/services/auth`, `api-client`, functions of the runtime | token pair in localStorage, `refreshInFlight` | request, 401, refresh (three ways), restore, login | answers in any order, refreshes that overtake each other | `PluginSession` |
| Plugin runtime `plugin/src/app/assistantRuntime.ts` | panel, sessions, active turn, abort controller, draft plan, picker, last transaction | send, stop, commit, compact, restore, apply, roll back, search, choose | asynchronous functions that hold on to what they read | `ChatTurn`, `TurnStream`, `PanelStore`, `DraftApply`, `DraftDevices` |
| ReAct loop `plugin/src/agent/core` | conversation, tool traces, draft, preview, steps | ask, call a tool, report, finish, stop | failing tools, stops, a model that never decides, throttled reports | `ReactLoop`, `TurnStream` |
| Agent tools `plugin/src/agent/tools` | none | path searches, make, repair and validate a plan | inputs a model writes, searches with a bound | `NetlistTools`, `DraftWiring`, `RuleChecks` |
| Draft pipeline `plugin/src/editor/apply-plan` | the plan | nets, repair, support parts, devices, pins | contradicting inputs, repeated passes | `DraftWiring`, `DraftCompletion`, `DraftDevices` |
| Plan application `plugin/src/editor/host`, `adapters` | the schematic, transactions | apply, replace, clean up, roll back | every editor call may fail, two operations may overlap | `DraftApply`, `DraftWiring` |
| Rule checks `plugin/src/rules` | none | validate a draft | rely on names another module writes | `RuleChecks` |
| Server frame, user interface, message layout, host probes, scripts, deployment | - | - | - | section 10 |

How they interact: the plugin's page calls the runtime; a turn of the runtime
runs the agent, which asks a model through the relay and calls tools; a tool
makes a draft, which the runtime keeps, the picker gives devices to, and the
adapter applies to the editor's schematic. Requests to the server carry the
plugin's token pair; the server charges them and searches the knowledge base
that the import queue fills.

`PROJECT.json` lists the same parts under `components`, and under `hazards`
the places where the code can go wrong in a way that a test would hardly
reach, each with the properties that would notice, or the reason why none
does.

## 2. Plan

Done: the import queue with its abstract specification and proofs; the
plugin's session with its proofs; login and token pairs with their proofs; the ledger of
credits with its proofs; the relay with its proofs; the knowledge store with its proof, and
the search;
turns, what is stored of them and how they are told, with their proofs; the agent's loop
and its path tools with their proofs; drafts from the design through repair,
completion, devices and checks to the schematic and back, with proofs of the
choice of devices, of the last part, and of the wiring: no wire is lost on the
way, none is shorted, power is fed, and the checks tell what is so.

Parts that share no state are composed as a sum: `MCServer`, `MCPluginSession`,
`MCChatTurn`, `MCDraftApply` and `MCAgent` each extend several modules; a
variable (`part`, `end`, `half`) chooses at the beginning which of them moves,
and the others rest. What is checked is what separate runs would check.

With that every safety property that a run checks is proved, and the liveness
properties are what is left to TLC.

## 3. The import task queue

### Correspondence with the code

`ImportTaskQueue` models `ImportTaskService` on the Redis stream queue
(`QueueMode = "stream"`) or the Redis list queue (`"list"`), with PostgreSQL
as the repository.

| Model | Code |
|---|---|
| `task`, `dead` | tables `knowledge_import_tasks` and the dead letters |
| `stream`, `pending` | the stream's new entries and the group's pending entries list |
| `lock[t]` | the lease key of task `t`; the model also remembers who set it, which Redis does not (the value is always `"1"`) |
| `mu[p]`, `processing[p]`, `started[p]` | `s.mu`, `s.processingTasks`, `s.workerStarted` of process `p` |
| `timers[p][t]` | goroutines in `enqueueAfter` |
| `pc[th]`, `loc[th]` | where a worker or handler goroutine is, and its local variables |
| `imports[t]` | how often `Import` succeeded: a history variable |

Each action is one repository or Redis call with the code around it:
`TryLock`/`LockConflict`/`LockError`, `Guard` (`withTaskProcessing`), `Load`,
`SkipDone`, `StartAttempt`, `Reread`, `Import`, then `Succeed`,
`ScheduleRetry`, or `Fail` and `Bury` (`moveToDeadLetter`), and the deferred
`Leave` and `Unlock`. Statements under `s.mu` that make several calls are
several actions during which `mu[p]` is held, so that handlers of the same
process wait, as in the code. A call that fails may still have had its effect
(`SaveFails`, `LockError`, `Ack`, `Unlock`, `Push`).

The service time is abstracted: a pending message may be claimed, a timer may
fire, a TTL may end at any moment, with two exceptions that name the timing
they assume: an attempt ends before its lease unless the instance has the
failure `slow`; and the retry delay is longer than the rest of the attempt that
set it, again unless `slow`.

Left out: statistics, logging, the run-at times, error texts, the in-memory
queue, the content of requests (`Reread` chooses whether content can be
resolved, `Import` whether it succeeds).

`ImportTaskLifecycle` is the task as the API shows it: a status and a number
of attempts, with the transitions create, begin, postpone, complete, bury and
reset. `LifecycleSpec` says that the queue implements it.

### Properties

* `InProcessExclusion`, `LeaseExclusion`: no two attempts of a task at once,
  in one process whatever the lease does, in all processes with the lease.
* `ImportOnce`: a task is imported once. `SuccessIsFinal`, that nothing undoes
  its success, follows from `LifecycleSpec` and is proved.
* `NoTaskStranded`: an unfinished task always has a message, a timer, or a
  thread that will see to it.
* `EveryTaskEnds`, `StreamDrains`: under fairness every task ends and every
  message is acknowledged.
* `LifecycleSpec`: refinement of `ImportTaskLifecycle`.

### Runs

Bounds: `Procs`, `Threads`, `Tasks` as listed; `MsgIds` stream entry ids
(three in the runs without manual calls, five with two of them: deliveries,
retries and re-enqueued messages of one task may be in flight together; ids are
reused once nothing refers to them); `MaxAttempts = 2`, the smallest value with
both a retry and an exhausted task (1 in `queue_slow`); `AttemptCap` stops the
attempts that crashes and failed saves add beyond the maximum; `MaxFaults`
failures and `MaxCalls` calls of `:enqueue` and `:retry`.

| Run | Instance | Shows |
|---|---|---|
| `queue_core` | two processes with a worker each, one handler, one task, create and run, no failures | redelivery (a claim may come at any moment) and `:run` never cause a second import or a task nobody carries |
| `queue_faults` | the same processes, create, with any two failures and one `:retry`; entry ids are symmetric | exclusion, final success and refinement survive them |
| `queue_slow` | the list queue, one process, two handlers, two tasks, leases that end under attempts, failing unlocks | `processingTasks` still excludes |
| `queue_live` | one process, a failing acknowledgement, two `:enqueue` or `:retry` calls at any moment, fairness | every task ends, the stream drains |

`queue_faults` and `queue_live` say `CHECK_DEADLOCK FALSE`: there every task may
be done and every client gone.

`queue_live` has one process on purpose: with two, a message of `:enqueue` or
`:retry` can reach the other process while the attempt that failed is between
its save and its `Unlock`; that worker acknowledges the conflict, and the task
stays queued with no message left.

Fairness (`FairSpec`): a goroutine that can take its next step takes it, timers
fire, a dead owner's lease ends. The Go scheduler and Redis TTLs give that.
Clients, failures, stops and restarts are not fair: nobody has to call, and
nothing has to break.

### Proofs

`ImportTaskQueueProofs`: first `TypeCorrect`. Lemmas state what the pieces
shared by the actions yield (`GotoType`, `EndType`, `PushType`, ...), then one
lemma per action. Then `InProcessExclusionHolds` without any assumption, `LeaseExclusionHolds` for instances without `slow`. The first is not
inductive by itself; `GuardInv` adds that an attempt's task is in its process's
`processingTasks`. The second follows from `LeaseInv`: between `TryLock` and
`Unlock` the lease names the thread. The lemma `NextSteps` sorts the steps into
those that leave leases and `processingTasks` alone (`Stays`) and the few that
do not.

Then `QueueImplementsLifecycle` and `SuccessIsFinalHolds`, for instances without `slow` and without `:enqueue` and
`:retry` (`Undisturbed`). `RowInv` strengthens `LeaseInv`: messages and timers
name saved tasks (`Known`), handlers about to save a new task save different
ones (`SavesDiffer`), and the row a thread works with is the row in the table
(`Sound`), which holds since only the owner of the lease writes it. The
assumption is needed: `:enqueue` and `:retry` write a row back that they read
without the lease, and with them a success can be overwritten.

Under `Undisturbed` again:

* `ImportOnceHolds`, if at most locks, unlocks, acknowledgements and pushes fail
  (`Recorded`). `Once`: a task that was imported has succeeded in the table, or its attempt is
  between the import and the save of its outcome; `RowInv` makes that attempt the
  only one. A save that fails, a crash
  or a stop in between makes a second import, so the assumption is needed.
* `NoTaskStrandedHolds`, if at most acknowledgements fail (`Uninterrupted`).
  `CareInv` follows a task through its attempt: who holds the lease works on the
  task, an entry of `processingTasks` has a live body, and when the attempt
  unlocks, the task is finished or has a timer (`Tended`); so a worker that finds
  the lease taken may acknowledge its message. A process that stops, or a push
  that fails, leaves the task to a call of `:run`.

Any number of processes, threads, tasks, attempts, failures and crashes is
covered. Liveness stays with TLC, since TLAPS proves no properties that rest on
fairness.

## 4. The plugin's session

### Correspondence with the code

`PluginSession` models what the plugin does with its token pair, and the
server's side of a refresh as far as the plugin depends on it.

| Model | Code |
|---|---|
| `stored` | the pair in localStorage (`PersistentSessionStore`), by number of issue |
| `age[n]` | `expiresAt` of a pair: more than five minutes away, less, less than 30 s or past |
| `access`, `refreshable` | access and refresh tokens the server accepts |
| `flight` | `refreshInFlight`: null, a refresh under way, or a promise that was left behind |
| `pc`, `using`, `call`, `got` | for every asynchronous flow: what it waits for, the pair it sent, and how far its refresh call is |

The plugin runs in one JavaScript thread. An action is what it does between two
answers of the network; localStorage answers at once, so the code after an
`await` of it, and every flow that waits for `refreshInFlight`, runs before the
next answer. The server handles calls at any moment in between, and a refresh
there is two actions, the lookup and the exchange, so that two calls with one
token may both find it.

`Use`, `OpenPanel` (`fillSettingsState`), `BuildBase` (`buildBaseState`) and
`Tick` (`startTokenRefreshTimer`) start flows; `Unauthorized` is
`handleUnauthorizedSession`; `exchange` is the refresh in
`refreshSessionIfNeeded`, `restore` the one in `fillSettingsState`, `renew` the
timer's. `Login` is the end of `pollLoginSessionUntilDone`.

Left out: what the panel shows, the polling of the login, a logout on another
device, an unavailable localStorage, and the time before the panel's first
state (`internals.currentState`), when a refresh is not followed by a request
for the credits.

### Properties

* `FlightHasOneRunner`: `refreshInFlight` stands for exactly one refresh, and
  only while it is under way do flows wait for it.
* `LiveSessionKept`: a session that the server would still refresh is dropped in
  two situations only: a refresh fails without speaking against it (the answer
  was lost, or it was about a pair that has been replaced), or
  `refreshInFlight` was left settled. Both are weaknesses of the code; that
  there is no third is what the property says.
* `RefreshesEnd`: whoever waits for a refresh goes on. That a flow ends is not
  claimed: two flows whose refreshes revoke each other's access token can send
  each other 401s for ever.

### Runs

`session` (`MCPluginSession`) runs this module and `TokenSessions` (section 5) as a
sum. Here: three flows (one that refreshes, one that joins, one that refreshes
on its own), all four ways to start, one login, one lost call. The first pair
may expire and age; three pairs are enough for a login and a refresh, or two
refreshes, at once. At the bound the server can still fail
(`RefreshBreaks`), so the bound stops nobody. It says `CHECK_DEADLOCK FALSE`,
since a plugin without a session waits for the user.

Fairness: the server answers every call in one way or another and the event
loop takes up every answer. Users, expiry and lost calls are not fair.

### Proofs

`PluginSessionProofs` holds for any number of flows, pairs, logins and losses.
`FlightHasOneRunnerHolds` is inductive with the types; the lemma `OtherSteps`
leaves only the steps that touch `refreshSessionIfNeeded`.
`LiveSessionKeptHolds` needs `RefusalIsFinal`: a pair the server has refused is
not accepted later, so a refusal of the stored pair means that it is dead.
`RefreshesEnd` is a liveness property and model-checked only.

## 5. The server's other parts

Six modules, each with the code of one service and the repositories under it.
`MCServer` (run `server`) holds five of them; `TokenSessions` is the server's
end of `MCPluginSession` (run `session`).

| Module | Models | Properties |
|---|---|---|
| `LoginFlow` | `auth/service.go` (create, code, confirm, poll, exchange, WeChat), `persistence/auth.go` (each row in PostgreSQL with a copy in Redis), the polling plugin `loginPolling.ts` | `LoginNotLost`, `ConfirmedLoginEnds` |
| `TokenSessions` | issue, refresh, logout, logout everywhere, WeChat binding over the table of sessions and its copies | `EndedStaysOut`, `PairKept` |
| `CreditsLedger` | `credits/service.go`, `llm/service.go`, the balance, its transactions and the usage log | `LedgerExplainsBalance`, `AnsweredIsCharged` |
| `ModelRelay` | a reply on its way from the provider (`provider.go`) through the handler (`handlers/llm.go`) to the agent (`openaiCompatibleClient.ts`, `llmProxyClient.ts`, `unifiedLlmClient.ts`) | `ReplyIsWhole`, `ShownIsAnswer` |
| `KnowledgeStore` | `knowledge/service.go`: import and reindex by their repository calls, the content hash and its width | `HashMeansChunks` |
| `RagSearch` | `rag/service.go` and the stores it asks: search, fallback, ranking, cut, `lastResults` | `BestAreKept` |

An action is one repository, Redis, network or provider call with the code
around it, so that other requests come in between. A call may fail; where the
code ignores the error, the model goes on as the code does.

* `LoginNotLost`: a login fails only for a reason that `disturbed` records: a call
  that failed, the time limit, two handlers that wrote the session at once, a
  second confirmation, or a code that the page asks for after the confirmation
  under the address of someone without an account: `SendEmailCode` overwrites the
  session's address in any state (`service.go:119`), and the exchange looks the
  user up by it (`:279`). Asking under a user's address takes nothing away.
* `ConfirmedLoginEnds`: a login the page has confirmed reaches the plugin, unless
  it was stopped or disturbed.
* `EndedStaysOut`: a pair that a refresh or a logout ended is not accepted again,
  except where the module says how it can be: a statement failed, a copy was
  lost or not read, the pair was bound while it was being ended, or a logout
  on all devices met it while it was being made. (So a refresh under way
  can outlive a logout on all devices: that logout lists the rows there are.)
  Bindings make this hard: the INSERT of an access token that is stored already
  fails (`InsertFails`; `token_hash` is unique), so each of them leaves its pair with
  another row of the refresh token, which its access row does not name, and with
  that access row revoked, while the copies still let the pair in.
  `PairKept`: no operation ends a pair that it was not asked to end.
* `LedgerExplainsBalance`: each entry takes its amount from what the one before
  left, and the last one left the balance, unless an account was opened over an
  existing one (`openings`). `AnsweredIsCharged`: a request is charged once if it
  is answered and not at all if not, with the cost that was logged; unless the
  charge was made and nobody heard of it.
* `ReplyIsWhole`: text, reasoning and tool calls of a finished reply arrive as the
  one source sent them, however they are cut into pieces, unless a stream ended
  early without an error. `ShownIsAnswer`: what was streamed is what is
  returned, unless the provider failed after it had begun.
* `HashMeansChunks`: a document whose hash is stored has the chunks of that
  content, unless a call failed or two overlapped.
* `BestAreKept`: no result is dropped in favour of one that ranks lower.

Bounds. Two logins with two requests each let two handlers work on copies of one
session; the logins are alike, and in `LoginTurns` the first one polls first. One
address that users type and one of a user who came through WeChat
(`Placeholder`), of which each may be known or not, give every way to change whose
session it is. Two model requests are the fewest that open an account at once; the
token counts 0, 32, 33 and 65 lie on both sides of where the price changes.
Three chunks and two calls per reply mix the pieces of two calls. Four calls of
the knowledge service on two documents and two contents, one of them with a
hash of more than 63 bits, allow an import, a failed one, its retry and a
reindexing. Two searches are the fewest that share `lastResults`; the documents
and queries of `MCServer` are chosen so that the ranking turns the store's order
round. Two token calls at once over two devices and three pairs, with one
failing statement, cover every pair of operations; a pair has the refresh row it
was issued with (`First`) and one for each call that binds it. The proofs are for
any number.

Fairness: `PageStep` and `PluginStep` of `LoginFlow` are weakly fair, since the
plugin polls with a timer and each request of the login page ends. Whether the
user confirms is not fair. The other modules state safety only. A server without
requests rests, hence `CHECK_DEADLOCK FALSE`.

Left out: the expiry of login sessions; mail and WeChat as services; how a text is cut into chunks; embeddings, and how
templates are found in a text (`Features`, `Similarity`, `Quality` and
`Templates` are constants); providers' dialects.

## 6. The panel's turns

Three modules about the panel of `assistantRuntime.ts`: `MCChatTurn` (runs `turn`
and `turn_finding_stop`) holds `ChatTurn` and `PanelStore`; `TurnStream` is a part
of `MCAgent` (run `agent`), whose reports it is about.

### `ChatTurn`: turns that share a panel

| Model | Code |
|---|---|
| `panels`, `shown` | the objects `MainPanelState` that running functions hold on to, and `internals.currentState` |
| `active`, `ctrl`, `aborted` | `activeTurnId`, `activeTurnAbortController`, its signal |
| `turn[t]` | where `sendChat` is in its awaits, the panel and messages it holds |
| `timers`, `live` | `turnCommitTimer`, messages that still stream |
| `stored`, `kept`, `busy` | stored sessions, the panel's item, the composer of the page |
| `op`, `ops` | what another button started: the `state` that `rollbackLastApply`, `locateIssue`, `generateDraft` or `computeAnalysisState` holds on to, and a delayed commit of it; how many were begun |

Actions of a turn: `Send`, `Compacted`/`CompactionFails`, `Activate`,
`ContextBuilt`, `Stream`, `TimerFires`, the four ends `Answered`, `AnswerFails`,
`TimesOut`, `Cancelled`, then `Stop`. Of the other buttons: `Reset`, `Restore`,
`Restart`; `OperationBegins` (a rollback, an issue to locate, a draft) and
`OperationRefused`; `Analyse` with its reports (`AnalysisReports`,
`AnalysisCommits`); and how they end on the panel they began with, whatever is
shown by then: `RollbackEnds` appends its message, `LocateEnds` puts one before the
chat or, when it fails, in its place, `Replaces` (a draft, an analysis) puts one in
its place, `AnalysisFails` replaces the bubble that streams.

`ActiveIsRunning` and `QuietIsSettled` say that nothing a turn or an operation set
up is left behind; `SeenQuestionsStay` that a panel loses a question only to a turn
that did not see it, or no longer kept it, when it began, or to a draft, an
analysis or a failed search for an issue that replaces the chat (so an operation
that ends late can take away a question asked meanwhile; a rollback, a located
issue and a failed analysis cannot); `BusyEnds` that the composer becomes free.

Bounds: two turns are the fewest that overtake each other; two panels, one
restored, reset or analysed; compaction at two messages happens while the second
one is asked; one operation (`MaxOps`). `MCChatTurn` splits this in two: two turns
with an operation on one panel or panels without an operation (`turns`), and one
turn with an operation and a second panel (`operations`); the proofs have no such
split. Fairness: awaits end (every request has a time limit, a turn an idle and a
total one, an operation makes a bounded number of calls) and timers fire. The user
does nothing that the properties would need.

Left out: the trim to 61 messages, reads of the storage before a turn begins,
refusals that commit nothing, and a second operation beside the first. All
commits of an analysis go to one session here. Storing is atomic; `PanelStore` has
the single writes, and the sessions an analysis makes.

### `TurnStream`: how a turn is told

One turn from the model's stream to the screen: the steps of `runReactLoop` and
its throttled progress (`steps`, `stream`, `pending`, `emitted`), the message of
the runtime (`message`, `applyStreamEvent`), its throttled commits (`due`) and
the entries of the page's timeline (`screen`, `mergeStepEntries` in
`iframe/index.html`). A handler runs to its next wait in one step, so it is a
function on a record of what it reads and writes; the clocks are inputs: each
throttle may hold back or not (`Clocks`).

`StepsAreTold`: while a tool runs, the message has all the steps, and nothing is
held back; and when the turn has ended, the timeline has every step that has
something to show, in order, and the last one as it ended. It does not say that
a step is shown once, since that is not so: see section 11. Three iterations
(50 in the code) are enough for a step before, in and after a gap in the
timeline; two chunks for one that is held back and one that is not.

Left out: the routes draft and modify, whose text is not shown in the body; the
page's own throttle; full re-renderings; step items and events beside the
iteration steps; the limits of 60 and 80 steps, which 50 iterations do not
reach for iteration steps.

### `PanelStore`: what the panel stores

`storage` is what localStorage holds: the panel's item, one item per session, and
the index of the history. `persistPanelState` writes them one after the other;
a write may throw, the code ignores that, and the later ones do not happen
(`far` is how far it came). Its awaits are microtasks over a synchronous
storage, so no handler comes between the writes, with one exception:
`computeAnalysisState` commits its settled state twice in a row, and the two
persists advance in lockstep (`SaveTwice`).

`HistoryIsSound`: a session that the history lists has its chat stored, unless it
was made up for an empty index; and no session holds another session's chat,
unless the panel was opened with a chat whose own session had left the list (or
was never listed, after a failed write), under the number of the newest. The two exceptions are recorded in the history variables `ghosts` and
`misnamed` at the step that makes them, so any other way to lose a chat violates
the property. Three persists, six numbers and a history of two sessions (20 in
the code) let a session be dropped from the index, an analysis make two, and a
restart follow a failed write.

Left out: titles and clocks; a prompt sent before the panel has opened; two
analyses at once; how old messages are converted.

## 7. Drafts in the editor

`MCDraftApply` (run `draft`) holds two modules.

`DraftApply`: `applyDraftPlan`, `rollbackLastApply` and the adapter under them
(`applyPlanByApi.ts`, typed path). The editor's pages, what is drawn on them, the
transactions, and the panel with its draft and last transaction; one action per
call of the editor, which may refuse or throw, with the clean-up of each.
`NothingLeftBehind`: what an apply drew, probes included, is gone once the
operation has ended, or is the last transaction, the only one that the rollback
button takes back (`lastApplyTransactionId`). What it cannot reach any more is
named: what the editor refused to delete or a restart forgot (`spoiled`); what a
new session (`Reset`), or an apply on another page (`Elsewhere`), left to the user
(`left`); and what operations that overlapped drew (`overlapped`), which is still
recorded. `OneDraftPerPage`: a draft replaces the one
before it or gets a page of its own, unless their operations overlapped;
`ApplyEnds`: the panel does not stay busy.
Two operations may overlap; one component and one net that joins it suffice in the
run, since the code treats all components before all wires and each failure stops
the loop. For more parts, which the proofs allow, `NetParts` says which a net joins:
a net is skipped if one of them was not placed, and the others are drawn
(`PlacesEnd`).

`DraftDevices`: the device picker. Choosing, searching and enriching run
asynchronously on the plan they captured. `ChoiceKept`: when
nothing is under way, what was chosen for the newest draft is in the current
plan, whatever searches and enrichments ended meanwhile; `PinsFitDevice`: then
the pins that count as resolved are different pins of the device the component
has. Both except a choice that was overtaken (`overtaken`), which the code does
not protect. Two devices,
two components, two pins and three operations give every overlap of two
operations and one between them. The scores of `MCDraftApply` make both pins fit
one device pin best, so that the greedy matching must decide.

Fairness: awaits of an operation end (`Proceed`). Left out: geometry; the paths
for source text and shapes, which the runtime does not reach; the path for
patches; users who change pages while an operation runs.

## 8. The agent and its tools

`MCAgent` (run `agent`) holds four parts: `TurnStream` of section 6 and the three
below.

`ReactLoop`: `runReactLoop` and `unifiedReactAgent.ts`: iterations, native and
textual decisions, tool calls, the corrections of a conclusion that comes too
early, forced answers, previews and risk of drafts, stop at any moment.
`CallsAnswered`: each tool call in the conversation has exactly one result;
`FinalHasEvidence`: a final answer rests on every required tool, which succeeded or
is shown as blocked; `StopHolds`: after a stop the loop does not ask the model and
calls no tool, and no answer changes the draft, but a run that is stopped when its
iterations are used up is still concluded, with the fallback preview if its draft
has none (`unifiedReactAgent.ts:1153`); `Terminates`, even for a model that never
gives a readable answer. Three iterations (50 in the code) are one more than the longest
correction. Fairness: requests and tools end, having time limits.

`DraftWiring` (through `MCDraftWiring`) with `DraftCompletion` and `RuleChecks`:
the way of a design through `draftSpecToPlan`, repair, completion, apply and the
checks. `NoShort`, `LostNothing`, `PowerIsFed` relate the design to what is drawn;
`ChecksTellLoss` to what the checks report. `NoShort` and `ChecksTellLoss` are
about designs that agree with their guidance (`Agreed`), the latter where names
tell pins apart (`ToldApart`), since the checks look nets up by component and
pin name. `MCDraftWiring` enumerates small designs: repeated and contradicting
nets, guidance that asks for more, names in two writings, board parts and
connectors, pins of one name, nets named like a pin's number. Repair runs twice,
so that what the second one changes is seen.

`NetlistTools` (through `MCNetlistTools`): the path searches of
`schematicSummaryTools.ts`, as recursive functions over small sheets.
`PathsAreTrue`: a path that is told exists, is shortest, and none that exists
within the hops is missed, except that `findPath` gives up once it has reached more
than 200 nets (`MaxNets`), even if the target is among them: then a path over nets
may be missed, and the property allows that only where more nets lie within the
hops. The depth limits are 3 and 1 instead of 4 and 3, and the limit on nets is 3,
so that sheets of the size checked reach them.

Left out: how texts are parsed and prompts built, placement, the templates for a
plan without a design, other summaries, checks with one condition and no state.

## 9. What is proved, and what is only model-checked

Proved for every value of the constants:

| Module | Theorems | Inductive invariant and what it adds |
|---|---|---|
| `ImportTaskQueueProofs` | `TypeCorrect`, `InProcessExclusionHolds`, `LeaseExclusionHolds` | section 3 |
| | `QueueImplementsLifecycle`, `SuccessIsFinalHolds`, `ImportOnceHolds`, `NoTaskStrandedHolds` | section 3 |
| `PluginSessionProofs` | `FlightHasOneRunnerHolds`, `LiveSessionKeptHolds` | section 4 |
| | `TokenTypeCorrect`, `PairKeptHolds` | `SessionsTyped`: what is on a call's list of statements (`Task`) concerns the pair it makes or pairs someone set out to end, and what saves comes last. `KeptFor`: a pair nobody touches has its rows, or its maker has still to set them |
| | `EndedStaysOutHolds` | `OutFor`: a pair a call ends is dead, or some call will see to each of its four places that is not (`Kills`), which a call can do because it began with a pair that was whole or already dying; no call makes a pair that another ends; and while the access row is active, the refresh row it names is the only one, unless a binding is about to revoke it (`Tied`) |
| `ServerProofs` | `LedgerExplainsBalanceHolds`, `AnsweredIsChargedHolds` | `LedgerInv`: accounts open only at places of the ledger, and one that was not opened was not charged, so that opening it starts an explanation instead of breaking one. `ChargeInv`: where each request is between its answer and its charge, with at most one entry for it |
| | `ReplyIsWholeHolds`, `ShownIsAnswerHolds` | `RelayInv`: what a reader has put together tells all its source has said (`Hears`); the deltas on the wire continue what is shown, after what the provider had said if the demo provider took over (`OnScreen`); the last event carries the whole reply or an error (`Wired`); after a reply nothing is read unless the connection broke (`Over`) |
| | `HashMeansChunksHolds` | `StoreInv`: between its two writes an import owns the difference of hash and chunks, what a skipped import or a reindexing writes back is what is there, and whoever else works on the document spoils it first |
| | `BestAreKeptHolds` | `RagInv`: what is kept is what `Kept` makes of what was found. The lemmas under it say what the ranking does: no two results rank alike, so each rank from 0 on is taken by one (`RankIsIndex`), and nothing ranks before what scores more (`RankOrder`) |
| | `LoginTypeCorrect`, `LoginNotLostHolds` | `LoginInv`, of each login nobody has disturbed: the row and its copy in Redis differ at most by what the one handler between its two writes is about to write (`Copying`, `Saving`, `Caching`), so an exchange under way finds its token in both (`Exchanging`). `KnownInv`: the address that a confirmed session notes, in every copy that is kept or held, is a user's |
| `AgentProofs` | `CallsAnsweredHolds`, `FinalHasEvidenceHolds`, `StopHoldsHolds` | `TalkInv`: while a tool runs, its call is what was said last, so its result is appended right after it. `EvidenceInv`: a used tool is traced, or runs, or its input ended the run; that is why the check for missing tools, which looks at the used ones, suffices |
| | `StepsAreToldHolds` | `StreamInv`: the message has the loop's steps, the last it has maybe otherwise (`Prefix`); a panel rendered with `m` steps has the entries of those before the `m`-th, in order, and the `m`-th as it was (`ShownBy`). The panel goes by the number of its entries, so the point is `Orderly`: there are `m` of them only if the last one is the `m`-th step's, although a step may be there twice or have nothing to show any more. Each handler changes one record `w`, so one lemma per piece (`ApplyGood`, `EmitWholeGood`, `FlushTextGood`, ...) serves all actions |
| | `PathsAreTrueHolds` | `Searched`: the paths of the queue are real, in order of length, by one hop at most (`InOrder`), and end where fewer hops do not lead; a place that was reached waits or was gone on from (`Spread`); and all that is as near as the first path was reached. So a path that is taken is shortest, and an empty queue means that all within the depth was reached (`AllReached`), or that the search was dropped among too many nets (`Dropped`), which all lie within the hops (`GrownNear`) |
| `ChatTurnProofs` | `TurnTypeCorrect`, `QuietIsSettledHolds`, `SeenQuestionsStayHolds` | `TurnInv`: a turn under way holds on to a panel that exists and to messages that end with its bubble. `QuietInv`: a panel on screen, or one a turn may show again, that still waits has a turn or an analysis that will settle it (`Waits`); one that has settled and streams has a commit due, or an analysis (`Streams`); and the composer is busy with such a panel or a compaction (`BusyFor`) |
| | `ActiveIsRunningHolds` | `ActiveInv`: the shape of the turns' records. Each step changes one turn, and takes the active id away when it ends that turn |
| | `HistoryIsSoundHolds` | `StoreInv`: numbers are given once (`Given`), what is shown, stored or about to be shown has a chat (`HasChat`), and a state with a session's number has the chat the session was made for (`Named`) |
| `DraftProofs` | `DraftTypeCorrect`, `NothingLeftBehindHolds` | `Ledger`: what is on the pages is known to the operation that made it (`Known`), which has probes, or what it draws, or nothing yet (`Stage`); a finished one has left nothing unless its transaction is recorded (`Clean`); a rollback undoes a recorded transaction, and no wire of it is left when its components go (`Undo`). `LastInv`: a recorded transaction that is still drawn is the last one, or was left to the user, or overlapped (`InReach`), since the page an operation draws on has only what is its own unless it overlaps another (`SheetOf`), and a rollback forgets none but its own (`RollsLast`) |
| | `OneDraftPerPageHolds` | `PageInv`: an operation that overlaps no other is alone, and on the page it draws on there is no component of another one |
| | `ChoiceKeptHolds`, `PinsFitDeviceHolds` | `DeviceInv`: the resolutions that run are ordered by their beginnings (`Ordered`); the newest one, unless it is late, looks up the devices of a plan that has all choices (`Ready`), and the current plan has them too unless an older resolution has ended while one runs that knows it (`Kept`). Each handler changes one record `w` of all variables, so a lemma about a piece (`ChooseGood`, `ContinueGood`, `EndGood`, ...) serves every handler that has it, and `BecomesGood` says that numbering the plans anew loses none. `RealPinsDiffer`: the greedy assignment gives no real pin twice |
| `WiringProofs` | `LostNothingHolds` | `WiringInv`: a draft's plan has grown from the plan of its design (`Grows`: components and pins keep their places, nets their names and all of their pins), so that the pin and the net that a requirement finds stay the ones it finds (`PinOfStays`); each requirement that finds its pins and its net in the design's plan is met in it (`Met`); and the sheet was drawn from such a plan (`Laid`) |
| | `PowerIsFedHolds` | `PowerInv` adds: ids of nets are distinct, so that a header goes to the net it is made for; after the first repair a plan with a ground net has no net without a source (`Fed`, which later steps keep, since nets lose no pins: `FedStays`), so the later repairs add nothing but what is required; and where no pin is asked onto two nets, each requirement has put its pins where it wants them, and repeating it changes nothing (`Settled`) |
| | `NoShortHolds` | `PlacedInv` adds: a pin of the design is only on nets that a connection or the guidance asks for, and is told the net it is on (`Placed`); parts that are not the design's are headers (`Rooted`), of which the references suffice (`NextConnectorIs`), so an end that finds a pin of the design finds the one it finds in the design (`PinOfDesign`). The completion touches no pin of the design (`Follows`) |
| | `ChecksTellLossHolds` | `Checked`, a part of `Rooted`: the checks expect of the design's pins what its connections say and of the others what headers wrote; and a pin that is told a net is listed by a connection or is on a net |
| `FoldRule` | `FoldKeeps` | no invariant: what each step of a fold keeps, the fold keeps. It is a module with the step and what is kept as constant operators, and `WiringProofs` takes an instance of it for each fold: for the lists that are merged, the requirements, the headers, the rules, their parts and nets, the boards and their parts |

Their assumptions are the named ones of the modules' constants
(`LedgerAssumption`, `RelayAssumption`, `RagAssumption`, `TokenAssumption`,
`IterationAssumption`, `NetlistAssumption`, `ContextsAssumption`, `TurnAssumption`, `DevicesAssumption`, `DetailsAssumption`,
`DesignsAssumption`, `TablesAssumption`, `IdsAssumption`, `NamesAssumption`,
`ConnectorsAssumption`, `NewIdsAssumption` and those of sections 3 and 4). `LeaseExclusionHolds` rests also on the absence of `slow`, and
the ones on the life cycle on `Undisturbed`, `Recorded` and `Uninterrupted` as
section 3 says. Those about turns are stated of `TurnInit` and
`TurnNext`, as the fairness of the turns is not needed for them, and
`StepsAreToldHolds` of `StreamInit` and `StreamNext`, `PathsAreTrueHolds` of `NetlistInit`
and `NetlistNext`, which have none.

Model-checked only: all liveness properties (TLAPS proves nothing that rests on
fairness or `ENABLED`).
The library's induction theorems take an operator as a parameter, which the
provers cannot instantiate. Where a recursive function needs induction (`RealPins`,
`CollectStepEntries`, `Within`), it is over a set of numbers, from the library's theorem that `<` on them is well-founded
(`LeastNumber`, `Induction`); the folds of the draft's repair and completion are
treated that way once for all, in `FoldRule`.

The proofs corrected what the properties say. The proof of
`HistoryIsSound` showed that its exception was stated too narrowly: with a
longer history than that of the run, the stored panel's session can have left the
list while others are still in it, and the chat gets the number of the newest.
That of `EndedStaysOut` showed the same: a logout on all devices can end half of a
pair that is being made. So did that of `PowerIsFed`: the guidance may ask a pin of a header
onto two nets, not only one of the design, and then each repair moves it.
`NoShort` needed fewer exceptions than it had: the nets of a design may share a
name. `ChecksTellLoss` needed one more: the first pin of a header has the name
of its net, so if that is "2", the checks take the net that the header's second
pin expects for its own, and report a wrong net (TLC shows it when `ToldApart` is
left out).

The runs that say `CHECK_DEADLOCK FALSE` are of systems that may rest: a plugin
waits for its user, a server for requests, a queue for tasks, a turn ends.

Every property is tested by a mutant: one definition is replaced by a form with
a plausible bug (marked "seeded bug" in the modules), and the run must find the
property violated.

## 10. Not modelled

* The in-memory queue (`import_task_queue.go`), a fallback without Redis.
* HTTP routing and parsing, configuration and assembly: what they decide (TTLs,
  the claim interval, the demo provider as fallback) is in the constants and
  actions of the other modules.
* The generated bundle `iframe-app.js` (the plugin's sources compiled with the
  page's own code), the layout of the page and of messages (`agent/index.ts`),
  the probes of the host (`proHostProbe.ts`), which only read.
* Crawlers, import scripts, containers.
* Within modelled parts: what each section lists as left out. These are
  computations without a state that other steps could see, or texts.

## 11. Disagreements between documents and code

Each is shown by a run whose only property TLC finds violated; `PROJECT.json`
quotes the sentences.

| Run | Property | What happens |
|---|---|---|
| `session_finding_settled` | `RefreshedWhenExpired` | `refreshInFlight` is left settled (`assistantRuntime.ts:2267`), and after a new login the first 401 logs the user out without a refresh |
| `turn_finding_stop` | `StopAborts` | an older turn's end clears the controller of the newer one (`assistantRuntime.ts:3742`), and a stop aborts nothing |
| `wiring_finding_partial` | `TwoEndsAreWired` | a net with one missing pin is not drawn at all (`applyPlanByApi.ts:490`) although two of its pins are there |

Seen while modelling, and not kept as runs of their own. The properties name
most of these as their exceptions.

Import queue. Two concurrent creations with one idempotency key both get past
the lookup (`import_task_service.go:275`); an import error is buried at its first
attempt, while the API document describes dead letters as tasks that used all
attempts (`:442`); of two `:retry` calls at once the second resets a task the
first one has brought back to work (`:336`); a crash during the last attempt
leads to one attempt more than the maximum (`:396`); an attempt that outlives its
lease is joined by another process's, and its `Unlock` deletes the other's key;
a message claimed while a crashed owner's lease stands is acknowledged.

Plugin session. The timer's refresh and the one after a 401 can overtake each
other, and the slower one, refused for the replaced pair, clears the new one
(`assistantRuntime.ts:2288`, `:5041`); a refresh call that the network loses ends
the session too; the timer's comment (`:5574`) speaks of the access token's
expiry, while `expiresAt` is that of the refresh token (`:5226`);
`pollLoginSessionUntilDone` uses two names that are not in its scope (`:5154`,
`:5160`), so a login ends with the panel's message of a failed poll although the
pair was saved.

Server. Binding a session to a WeChat account saves its pair once more, but its
access token is stored already and unique (`persistence/auth.go:372`,
`migrations/004_auth_runtime_persistence.sql:32`): each binding is answered with an
error, and the access row is left revoked, although the server's README lists the
call among those that are implemented. Asking for a code after the page succeeded
overwrites the address of the session, so that the exchange looks up that address, or fails
(`service.go:119`). Two overlapping refreshes of one token both succeed; a logout whose
session is found in PostgreSQL leaves the refresh copy in Redis; failed deletions
are ignored and the logout reports success; a failed save during a refresh ends
the old pair without a new one. A resent code that overlaps a confirmation
overwrites it, a second confirmation replaces the exchange token, and polling
and exchange may see different copies. `ensureAccount` takes a failed read for a
missing account and saves the first balance over the real one. The provider is
asked before the credits are checked, although the API document describes a
charge before the call; a client's retry is charged anew. The fallback provider
is the demo one, so a failed provider is answered with a placeholder and charged,
after what the failed one had streamed; the proxy's stream drops tool calls
(`unifiedLlmClient.ts:158`). A failed `SaveChunks` leaves the new hash with the
old chunks, so that the retry is skipped as a duplicate; a reindexing whose
`ListChunks` fails deletes all chunks; a hash of 2^63 or more is never
recognised. `lastResults` of the search is shared without a lock.

Panel. A stop during compaction is ignored; an older turn's end overwrites newer
questions; a restored session can be replaced by a running turn's commit; a turn
that ended in another panel leaves its own waiting; `draftBlocked` is never set,
although the agent's design document says that high-risk drafts are blocked.
The timeline (`iframe/index.html:5005`) counts entries to find out what changed,
although the design of step items says that the page only renders the final
states and makes no duplicates: after a step with nothing to show, a later one
is appended again; a step whose successor begins within the throttle never gets
its tool's result; a failed status set after the last report stays "running".
Each settled persist of an analysis makes two sessions, of which one is listed;
after a failed write of a new session, a restart stores its chat under the newest
listed session; states of sessions that left the index are never deleted.

A draft, an analysis or a failed search for an issue that ends late replaces the
chat of the panel it began with, with the questions asked meanwhile.

Drafts. A new session, or an apply on another page, forgets the transaction before,
and what it drew can only be deleted by hand. Two applies can start at once; labels are not rolled back; a failed
replacement leaves the panel with a transaction that is gone. A device choice
that ends later wins over a newer one, and an enrichment under way when a new
draft arrives brings the old one back. In the wiring, a backfilled pin stays on
its old net too, which is a short when design and guidance disagree; nets with a
single pin and wires that the editor refuses are dropped without a word; a second
completion may add parts whose references the first one had to change. The
checks look expected nets up under the pin's name as it is, so pins such as "D+"
are never checked, and two pins of a component with one name are held to the same
net, that of the later one; the header of a power net named "2" is reported; a repaired draft with two headers is reported as a drive
conflict. Path searches walk signal nets only, so a power path shows its first
component alone.
