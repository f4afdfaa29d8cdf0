# QClaw: formal models and proofs

QClaw is an agent platform (Node.js: agents, tools, channels, dashboard) with a
trading engine beside it (Python: scan, approval, execution, monitoring).  This
directory holds TLA+ models of the parts of it that keep shared state while
other things happen, the TLC configurations that check them on small instances,
and TLAPS proofs of their invariants for every value of the constants.

Paths below are relative to the repository; `file:line` is the code at the
commit the models were written from.

1. [Inventory](#1-inventory)
2. [Modules and how they correspond to the code](#2-modules-and-how-they-correspond-to-the-code)
3. [Runs, bounds and what they show](#3-runs-bounds-and-what-they-show)
4. [Fairness](#4-fairness)
5. [Proofs](#5-proofs)
6. [Where the code and its documents disagree](#6-where-the-code-and-its-documents-disagree)
7. [What is not modelled](#7-what-is-not-modelled)
8. [Plan](#8-plan)
9. [Running the checks](#9-running-the-checks)

---

## 1. Inventory

### The trading engine (`src/trade_engine`, `src/trading`, `relay/`)

One asyncio process.  Every `await` is a point where another coroutine may run;
there are no threads that share state but for the child process that places an
order.  Persistent state is in Supabase, reached by single HTTP statements, with
no transaction across two of them.

| Component | State it keeps | Operations | What is hard | What makes it correct |
|---|---|---|---|---|
| **Approval gate** `approval.py` | `_pending` and `_results` in memory under one asyncio lock; a message with two buttons in Telegram | `send_approval_request`, `wait_for_decision`, `handle_callback`, `check_pending_expirations`, the update poller | taps, the waiter's deadline and the poller's sweep race; two clocks; answers to `sendMessage` lost; cancellation and restart | one question at a time; one outcome per question; "approved" only by the owner's tap on that question; a waiter always returns |
| **Position monitor** `monitor.py` | none of its own: rows of `trading_positions` and `trading_position_alerts` | `check_positions`: settle, flag, retry undelivered alerts, close, tidy | works from rows fetched at its start; scheduled and on-demand sweeps overlap; a call may fail after taking effect | the monitor closes a position only at a price of 0 or 1, never on a crossing; one live alert per position and type; an alert stamped delivered was delivered; what keeps failing now and then still gets done |
| **Position routes** `main.py` | the same tables | manual close, hold, `/monitor/run` | run while a sweep is under way | one manual close succeeds; an exit record is final |
| **Store** `database.py` | the Supabase tables | conditional and unconditional PATCH, INSERT under a unique index | atomic per statement only | the unique index, `require_status` |
| **Executor** `executor.py` | none: reads config and counts, writes the position row | eight gates in order, child process, position write | check-then-act on the count; the order outlives the call; every fault after the money is spent | money that moved is never reported as money that did not; rows stand for orders the exchange took; the cap |
| **Trade script and relay** `execute_trade.py`, `relay.py` | the order at the exchange | sign, post, answer | timeouts on both sides; a lost answer | an unknown outcome is called unknown |
| **Scan, selection, sizing** `scanner.py`, `analyst.py`, `horizon.py`, `sizing.py` | a candidate in memory from scan to summary; a simulation row per candidate | scan, size, select, review, ask, execute, summarise | book and ceiling are read long before they are acted on; money in doubles floored to cents twice | what is ordered is what was shown; a debit within the ceiling; no late refusal but for a change; a true summary |
| **Service and scheduler** `main.py`, `scheduler.py` | which jobs run | start, stop, cron jobs, manual routes | jobs and routes overlap | one scheduled instance per job |

### The agent process (`src/agents`, `src/tools`, `src/security`, `src/channels`)

One Node.js process; the same rule, `await` is where others run.

| Component | State it keeps | Operations | What is hard | What makes it correct |
|---|---|---|---|---|
| **Agent turn** `agents/registry.js` | a promise per agent as a lock, histories | `_withAgentLock`, `_processNonReflex`, `regenerateWithGates` | turns of different agents overlap; a lock released wakes several; a gate may make a turn run again | one turn per agent; every turn ends |
| **Tool loop** `tools/executor.js` | counters of the limiter | approval, limit, content queue, scope, tool, accounting | check before, account after; a timed-out tool goes on | nothing runs without the approval it needs |
| **Tool registry** `tools/registry.js` | one field `_activeTools` shared by all agents | `registerForRequest`, `cleanup`, `executeTool` | set by one turn, read by another | a turn runs tools of its own scope |
| **Exec approvals** `security/approvals.js`, `approval-gate.js` | approvals table, `callbacks` map, ten-minute timers | `createPending`, `approve`, `deny` | timer against reply; restart forgets callbacks | what the caller is told is what the row says |
| **Limiter, content queue** `security/*.js` | counters, a queue file | `check`, `record`, `enqueue` | window resets; other agents between check and record | the limit is passed by a bounded number |
| **Claude Code dispatch** `dispatch/`, `tools/claude-code-dispatch.js`, `agents/cc-results.js`, its migration | table `claude_code_dispatches` | enqueue, authorise, cancel, claim, run, push, write back, reap, collect | three processes over one table; a killed run; a lost write-back; a reaper with its own clock | a row runs once, as the owner ruled; "complete" is true; every row ends |
| **Channels** `channels/manager.js` | a runner, a recovery lock, a failure put aside, two counters and a timer | start, fail, classify, retry with back-off, degrade, recover, stop | a runner fails while a recovery holds the lock or a timer fires; frames of failed re-initialisations unwind over a rebuilt channel | one recovery and one poller at a time; an active channel is not deaf; an outage ends or asks for the owner |
| **Delivery queue** `core/delivery-queue.js` | rows on disk, an interval | enqueue, send, back off, give up | the interval fires while a round still sends; the process restarts | a row says what became of its message; each settles |
| **Heartbeat** `core/heartbeat.js` | the day's cost and questions in memory | tasks, graph discovery, auto-learn questions | timers fire again while earlier ones await the model | the caps bound the day |
| **Process and settings** `index.js`, `cli/`, `core/config.js` | the process and its pid file, `config.json` | start by layers, shut down; start, stop, restart, update; settings commands | two processes at once; a file written whole from old copies | stop finds the agent; a setting is lost only by way of an older copy |
| **Dashboard** `dashboard/server.js`, publishing workflows of `n8n-workflows` | pending enable code, login tables, tunnel process, sockets; Supabase rows of two review boards | trading switch, review boards, login, PIN, tunnel, websockets | requests interleave at each await; webhooks nobody waits for; a publishing run that fails half way; a tunnel that exits, times out or is stopped | one enable per code; nothing posted unapproved; wrong tries bounded; no stray tunnel |
| **Memory** `memory/*.js` | conversation rows, vector index and its file, facts, graph, link to Cognee | add, read, search, save, extract, connect | embeddings that come late; a crash before the save; a link lost by a 401 while it is renewed | what is stored was said, once, in order; a lost link is retried |
| **Model calls** `models/router.js`, `tools/executor.js` | history, a cache-marker flag | choose a tier, cut the history, send, retry | the cut may fall anywhere; refusals change the next request | every request is valid |
| **Verification gates** `agents/gates.js`, `security/audit.js` | audit rows of all agents | judge, hedge, ask again, escalate | evidence in a window of time shared with other agents, in rows cut at 200 characters | what is shown as done is backed |
| **Skills** `agents/skill-*.js`, `tools/registry.js` | the tools registered | parse, diagnose, route, call, re-read after a write | two parsers of one file; a write whose answer is lost | parsers agree; a report is true |
| **Shell tool** `tools/shell-exec*.js` | none between calls | split, check, resolve, run, collect | links move between check and run | what runs is what was meant and checked |
| **Credentials** `credentials.js`, `security/secrets.js` | secrets file and a copy per process, identity, hub | load, save, connect, start a hub-lite | two processes, overlapping attempts | the hub is retried |
| **MCP client** `tools/mcp-client.js` | requests with timers, a child or a stream | connect, call, disconnect | timer, answer, exit and disconnection race | no caller waits for good |
| **Observability** `observability/*.js` | ledgers, rollups | beat, watch, aggregate, alert | the ledger fails, Telegram fails, outages flap | the owner hears |
| **Completion cache** `core/completion-cache.js` | keyed answers | get, set, prune | nothing calls get or set | — |
| **AGEX core** `packages/agex-core` | none | schemas, signatures, policy | pure functions nothing here imports | — |
| **Clipper, marketing, other workflows, scripts** | external programs and exported n8n workflows | — | outside this code | — |

### Interactions

```
 scan ──ask──> gate <──taps── owner            owner ──✅/❌──> channels
   │             │ waits                                  │
   └──approved──>┘──> executor ──> child ──> relay ──> exchange
                        │ row                             │
                        v                                 v
   monitor <──fetch── trading_positions      approvals <── tool loop ──> tools
      │                   ^                       ^           │ active set
      └─alerts─> owner    └── manual close        └─ timer    └──> registry
                                                              │
   turn ──enqueue──> claude_code_dispatches <──claim── dispatcher ──> GitHub
     ^───────────────────── collect ──────────┘  <─── reap ───┘
```

The hazards of this code, each at its line with the properties that watch it,
are listed in `PROJECT.json`, `hazards`.

---

## 2. Modules and how they correspond to the code

The six core components have a specification, a module `MC…` with its instance,
and a module `…Proofs` each.  Twenty smaller services have a specification each
and one instance together, `MCServices`; theorems about them are in `HostProofs`
and `RecoveryProofs`.  `PROJECT.json`, `map`, names for every definition the
lines it stands for.  Definitions marked *Fault:* are the forms a bug would give
to the definition after them; nothing in `Next` uses them.

### ApprovalGate, ApprovalContract

`ApprovalGate` is `approval.py` with the scan that calls it.

| Model | Code |
|---|---|
| `pending`, `results`, `published` | `_pending`, `_results` and the order of publication |
| `caller[r]` | the coroutine of the scan: sending, waiting, expiring, and the answer it got |
| `untilExpiry[r]`, `age[r]`, `stepped` | `expires_at` by the wall clock, the age by the monotonic clock, and how often the former was stepped |
| `sweep`, `listed` | the list of expired requests the sweep made under the lock and uses after it (`approval.py:617-631`); `listed` is its history |
| `message`, `messageId`, `edits` | the message in the chat, whether its id is known, edits under way |
| `taps`, `ruling` | taps delivered or to be delivered, and the tap the gate accepted (history) |

Every critical section is one action (`Register`, `SendSucceeds`, `SendFails`,
`Decide`, `DecideLate`, `Poll`, `WaiterExpires`, `SweepCollects`,
`SweepExpires`), since the lock makes it one, and what happens between two of
them can be anything else.  A tap stays in `taps` after it was handled: Telegram
may deliver it again.  `Cancel`, `Restart` and `ClockStep` are actions.

`ApprovalContract` is what the gate promises: a question is put, settled once or
closed unanswered, and the scan told that very outcome.  It has one allowance,
stated as such: a settled question that a sweep had already listed may be told
as a timeout, which trades nothing.  A timeout is never told as an approval.
The mapping is in `ApprovalGate` (`Question`, `ReportOf`): the contract's safety
half, `CSafe`, under it is `KeepsContract`, checked and proved; its fairness,
`CFair`, is a part of `GateEnds`, checked.

### PositionBook

`monitor.py`, the routes of `main.py` that write the same tables, and the two
tables (`database.py` and the alerts migration).  One action per database or
Telegram call.  A sweep (`at`, `todo`, `heldSeen`) works from what it fetched; a
manual close (`request`) reads, writes under `require_status`, resolves alerts.
`market` is the direction side's price as `_check_one` tells it apart: past a
threshold, at 0 or 1, or left alone.  A price of 0 or 1 closes the position
whether or not the market has closed (`monitor.py:309-336`), so it may move away
again between the sweep's look and its write; a market voided at 50/50 is left
alone for good.  `finals` (history) holds the positions whose price has stood at
0 or 1 since their row was made.  Price moves that no sweep will look at any more
are left out; which threshold is crossed is a fact about the market, the price
arithmetic is not modelled.  With `Faults`, a call is refused, or takes
effect and loses its answer, and the process restarts.

### TradeExecutor

`execute` as a chain of awaits: staleness, gates, post, await, record.  The
position count (gate 2) is computed from the rows; the other gates pass or
refuse.  `order[e]` is the order as relay and exchange know it and changes
whether or not the run still waits; an order taken "unmatched" is answered without
an error, and may fill later or lapse; `row[e]` is the row in the database.  `cut`
(history) holds the runs whose connection broke while the order was out, and
`overlap` whether two runs were ever under way together: both appear in what a
property excepts, never in a guard.

### ToolLoop

Agents' turns, the registry's one active set, the limiter and the approvals.  A
turn is `Enter` (the lock), `Register`, calls, `EndTurn` (cleanup, release).  A
call goes through the checks in the code's order: `CheckCall` (does the tool
ask), `Ask`, wait, `Begin` (limit, publishing calls to the queue, scope),
`Effect`, `Return` (accounting), or `ToolFails`, after which the effect stands
or not.  A tool in `Inline` asks from inside (`n8n-workflow-update`).  What
asks, what publishes and what each turn may use are constants.

### Dispatch

The table `claude_code_dispatches` and the three parties over it: the tool and
the turns that collect (`Enqueue`, `Poll`), the owner (`Lookup`, `Reply`, a
reply being a lookup followed by a PATCH conditional on the row still waiting)
and the dispatcher (`Claim`, `Refuse`, `Start`, `CcEnds`, `Push`, `WriteBack`,
`Fallback`, `Reap`).  `phase[t]` is what the dispatcher process is doing for the
row, lost in a `Crash`; `overdue` that the reaper's clock has run out on it.
`remote[t]` is what reached GitHub.  `ruling`, `ran`, `told` are history:
the reply that took effect, how often Claude Code was started, what a turn was
told.  A fault (bounded by `MaxFaults`) loses a request, loses an answer, fails
the set-up or kills the process.

### Sizing, TradePipeline

`Sizing` is the arithmetic of a stake in exact integers: cents, percents, and
ten-thousandths for the fee factor.  It agrees with the code's doubles on whole
cents and whole percents but in two places.  The floor to a cent loses one on
some amounts: those are the constant `Slip`, and `MakerAmount`, the iterated
floor, is defined through it.  And where `amount / price` is exactly the minimum
number of shares, a double can fall just short; scanner and gate 8 do the same
division, so they err together, and the model compares exactly in both.  An
order book is a best ask with a depth and one dearer ask beyond it, enough for
the walk to end at the first level, further on, or not at all.

`TradePipeline` is `scanner.run` with the jobs that start it.

| Model | Code |
|---|---|
| `stage[s]`, `trade[s]` | where the coroutine of a scan is, and its `best_trade` |
| `shown[s]` | the candidate as the approval message printed it |
| `result[s]`, `order[s]` | the executor's result, and the order the exchange took (filled or not), which the scan may not know of |
| `said[s]` | the summary of the scan, in the branches of `_scan_summary_message` |
| `book`, `ceiling` | the order books at Polymarket and `max_position_usdc` now |
| `blind`, `moved` | history: scans that read no ceiling, scans whose book or ceiling changed since |
| `question`, `report`, `listed` | the approval gate, as `ApprovalContract` |

The wait is the contract's actions, not the gate's: `ApprovalGate` is checked to
keep that contract.  Executor faults are one step here (`Place` has an order
taken or not, and the answer be any of those the executor can give); their
interleavings are `TradeExecutor`'s.

### The services

One event loop again, so an action is what happens between two awaits.  Outside
services are environment actions, in the map as external: they answer, refuse,
lose the answer, go down and come back.

| Module | Code | State and steps |
|---|---|---|
| `TelegramChannel` | `channels/manager.js:350-520, 812-1270` | a `Task` is an activation of `_onRunnerFailure` or `_attemptRecovery`, with its place (`at`) and the frames of failed re-initialisations below it (`frames`); a `Runner` is a poller; `stop()` in two steps |
| `DeliveryQueue` | `core/delivery-queue.js` | rows on disk; a `Round` is one firing of the interval with the rows it has still to send; restarts |
| `Heartbeat` | `core/heartbeat.js` | a `Beat` is one firing of a timer; cost and questions are charged when the answer comes |
| `TradingSwitch` | `dashboard/server.js:74-110, 1764-1880` | a request between its awaits (`reqAt`); the code of an enable request is named after the request |
| `ContentBoard` | `dashboard/server.js:1972-2350`; of `n8n-workflows` the two scheduled publishers, the two publishers, the platform retry and the approval handler | statuses of rows, attempts, slots; webhooks on their way and runs that fetched a row; a day is a publishing slot; only the regeneration of Crete items, whose workflow is not here, is external |
| `DashboardAccess` | `dashboard/server.js:166-260, 372-420, 551-700` | per address: wrong tries, lock, requests of the minute, cookie |
| `DashboardServer` | `dashboard/server.js:515-550, 2539-2888` | port, tunnel process, sockets, questions on disk |
| `Lifecycle` | `index.js`, `cli/index.js`, `core/config.js` | processes by layer, pid file, `config.json` and the copies of it |
| `CogneeLink` | `memory/manager.js:34-60, 335-430, 568-760` | overlapping connection attempts and calls, the interval, the header sent |
| `ConversationMemory` | `memory/manager.js:145-250`, `memory/vector.js` | rows, documents, embeddings under way, the file, crashes |
| `KnowledgeBase` | `memory/knowledge.js`, `memory/graph.js` | entries by their text's start, entities by name and type, edges |
| `ModelCall` | `models/router.js`, `agents/registry.js`, `tools/executor.js:106-710` | a history of roles and sizes, the blocks with their marker, the last request |
| `VerificationGates` | `agents/gates.js`, `agents/cc-results.js`, `security/audit.js` | audit rows, each cut or not; a sentence is the claims the patterns find in it and the entity it cites; Claude Code's results are deposited as a call and its result at once |
| `ShellTool` | `tools/shell-exec*.js` | a command of pieces: quotes, blanks, metacharacters, whole literals; links that move |
| `Credentials` | `credentials.js`, `security/secrets.js` | the secrets file and each process's copy, the steps of `_connectHub`, the hub-lite's port |
| `McpClient` | `tools/mcp-client.js`, `tools/registry.js:958-1075` | clients, requests with or without a timer that runs, the server's end |
| `SkillCall` | `tools/registry.js:1245-1660`, `security/subject-resolvers.js` | a call from prompt to report over a row that others change |
| `SkillFiles` | `agents/skill-*.js` | a file as a sequence of lines the two parsers tell apart; words of a message |
| `LivenessWatch` | `observability/liveness-*.js` | age of the last beat, the ledger of episodes, ticks of silence |
| `SpendAlerts` | `observability/spend-*.js` | hours, rollups, the cooldown of each tier |

They share no variable in the code (each owns its files, timers and rows), so
`MCServices` lets one of them move in a behaviour and keeps the others where they
began: one run explores twenty systems, and says nothing about compositions of
them that the code does not have.

---

## 3. Runs, bounds and what they show

| Run | Instance | Shows |
|---|---|---|
| `gate_safety` | 2 scans, owner and a stranger, 3 taps, window of 2 ticks, `MaxRetained` 1, one clock step, restarts; symmetry of requests | one pending request, one outcome, approval only by the owner |
| `gate_contract` | 2 scans, the owner, 1 tap, window 2, `MaxRetained` 2, one clock step, restarts | the gate implements the contract, liveness included; the gate frees itself; the chat tells the story the scan was told (but for a listed request revived by a clock step), and while the wall clock is left alone a timeout takes its whole window |
| `book` | 1 position, one threshold, a scheduled and an on-demand sweep, 2 manual closes, holds, faults | alerts unique and honestly stamped, one manual close, closes only at a final price, and both liveness properties |
| `book_race` (violation) | 1 position, one sweep, one manual close, no faults | a sweep overwrites the operator's exit record |
| `executor` | 3 runs, cap 2, all faults | exposure accounted for, rows only of orders the exchange took, cap without overlap, every run returns |
| `executor_race` (violation) | 2 runs, cap 1 | two overlapping runs exceed the cap |
| `toolloop` | 3 turns (two of one agent), 2 agents, 1 call and 2 tries each, 2 requests, limit 1, restarts | turns serialised, approval first, answers agree with rows, scope without overlap, quota, every turn ends |
| `toolloop_scope` (violation) | 2 turns of 2 agents | a tool runs outside its turn's scope |
| `dispatch` | 2 rows of any scope, daily cap 1, cost at most 1, 2 faults anywhere | run once, as ruled, truthful completion, spend bound, everything ends |
| `pipeline` | a scheduled scan and a posted one, one market listed with or without a conditionId, two order books, ceilings of 0 and 1.21, one change of book or ceiling, crashes | the order is the one shown, to the cent; stake and shares refused late only after a change; debits within the ceiling; true summaries; every scan ends |
| `pipeline_summary` (violation) | 1 scan | the summary calls an order of unknown status a failed trade |
| `services` | each of the twenty service modules on its own (274,183 states in all) | what each must never get wrong, and that what was disturbed comes right |

Properties are named for what they say together.  A bundle is a conjunction of
parts with a comment each, in the module it belongs to:

| Property | Parts |
|---|---|
| `GateSafe`, `GateEnds` | `OnePending`, `DecidedOnce`, `ApprovedByOwner`; `GateFrees`, `EveryRequestEnds`, `CFair` of the contract |
| `BookSafe`, `BookLive` | `NotifiedMeansDelivered`, `OneManualClose`; `AlertDelivered`, `SettledCloses` |
| `ExecutorSafe` | `KnownExposure`, `RowsAreAnswered` |
| `LoopSafe` | `OneTurn`, `ApprovedBeforeRun`, `AnswerIsRow`, `ScopeRespected` |
| `DispatchSafe` | `RunsOnce`, `OwnerDecides` |
| `PipelineSafe` | `AsShown`, `Anticipated` |
| `OwnerHolds` | `OneEnablePerCode` (switch), `PostedWasApproved` (boards), `CapsHold` (heartbeat), `AccessIsBounded` (access) |
| `RecordsAreTrue` | `RowsAreHonest` (queue), `MemoryIsTrue` (conversation), `NothingTwice` (knowledge) |
| `LinksAreRetried` | `HubIsRetried` (credentials), `LostLinkIsRetried` (Cognee), `WaitersHaveTimers` (MCP) |
| `SkillsLoadRight` | `InspectedAsParsed`, `BestAreOffered` (skill files) |
| `OwnerHears` | `NeverLongSilent` (watcher), `CrossingsAreHeard` (spend) |
| `ServicesRecover` | `RowsSettle` (queue), `SilentSocketsGo` (server), `LinkReturns` (Cognee), `EpisodesClose` (watcher) |

The other properties of `services` are single: `OneRecovery` and `OutageEnds` of the
channel, `NoStrayTunnel` of the server, `RunningIsFindable` and
`OnlyOldCopiesForget` of the process, `RequestsAreValid` of the model call,
`RunsWhatWasMeant` of the shell tool, `ResultsAreTrue` of a skill's call,
`ShownIsBacked` of the gates, `ApprovedRowsGoOut` of the boards, `CallsComeBack`
of the MCP client.

Why the bounds are enough:

* **Gate.** The races are between one waiter, one sweep and one tap; a second
  request is needed for "busy", for taps on an older message, and for eviction
  from `_results` (`MaxRetained` 1 makes the second outcome evict the first).
  Three taps are one more than the two outcomes a request could be given.  A
  window of 2 ticks separates before, at and after a deadline on both clocks.
* **Book.** Rows of different positions touch only in the set a sweep fetched,
  so one position and two sweeps reach every interleaving over one row; two
  manual closes are the fewest that can clash.  The alert types differ in no
  guard, so one type is enough; `Alert` and the proofs are for any set.
* **Executor.** The third run sees a book that the first two changed, at a cap of
  two; faults are unbounded.
* **Tool loop.** Two turns of one agent contend for its lock, the third, of
  another agent, for everything else; two tries are one regeneration.
* **Dispatch.** Two rows let a claim skip one, let the day's spend reach the cap
  and let a fault hit either; two faults allow a lost answer followed by a
  failed fallback.
* **Pipeline.**  Scans meet in the gate and nowhere else, so two of different jobs
  are enough.  The numbers are chosen so that boundaries bind: the Kelly stake
  comes to an amount the floor slips on, so does the ceiling of 1.21; half the
  stake buys fewer shares than the minimum in one book and enough in the other;
  one book is dearer than the quote, the other cheaper; a ceiling of 0 stops
  trading.  One change is what a refusal has to be blamed on.
* **Services.**  Two of whatever can overlap (rounds, beats, attempts, browsers,
  processes, clients, requests), a third where two race and one looks on
  (recovery tasks, runners, enable requests), and the smallest limit that can
  be reached and passed: two tries, two attempts, a cap of two.  A recovery
  needs three tasks: the one that holds the lock, the one the rebuilt runner
  starts, the one its timer starts.  Shell commands are every verb with up to
  two words of one or two pieces out of 17, among them each kind of quote, escape
  and metacharacter; skill files every file of up to two lines, and every such end
  of one with an auth section; histories grow to four messages of two sizes.
  On the boards one item and one draft over two slots are explored apart (the parts
  `content` and `drafts`), each with one webhook or run lost and one row a tick: the
  races are between requests, webhooks, runs and the timer on one row.  Two attempts
  are one that may be repeated and one that may not.  Of two
  drafts in one slot nothing is claimed (section 6), and `NothingPostedUnseen` is
  proved for any number of rows.  The gates are explored in two
  parts, each over logs of three rows and two attempts: `gates` for what is said to
  be done, found and cited, `delegation` for what is said to be handed over and its
  outcome (there only results are cut); three arguments and three answers hold a row that is cut, one that names
  each entity, a pseudo-success and an error, and each conjunct of `ShownIsBacked` is
  reached with a claim it is about.  One AGEX process is run (`HubIsRetried` is
  proved for any number and with any overlap of their attempts).

Liveness properties are checked without symmetry and, where the
specification's state is unbounded (alert numbers, publications, steps of the
clock), the bound sits in a guard named by a constant or follows from one-use
requests; TLC explores every reachable state without a state constraint.

`CHECK_DEADLOCK FALSE` in the configurations: scans, runs, turns and rows are
used once, so a system whose work is done has nothing left to do.

---

## 4. Fairness

* **Gate**: network calls return (each has a client timeout), a coroutine that can
  run runs, the poller keeps sweeping, time passes.  Nobody is made to tap or to
  ask, and no clock is made to step.  That the poller keeps sweeping is more than
  the code gives: it leaves the sweep out when `getUpdates` fails
  (`approval.py:737-744`).  `EveryRequestEnds` does not lean on it, since each
  waiter has a deadline of its own.
* **Book**: a started sweep runs on (weak fairness on its steps, failing calls
  included); the scheduler starts a sweep every 15 minutes (`Fetch(Cron)`); and
  for the scheduled sweep strong fairness that a call tried again and again does
  not fail every time.  On-demand sweeps and operators are not assumed.  Without
  the strong part a Supabase that never answers would refute both liveness
  properties, and say nothing about the monitor.
* **Executor**: every call has a timeout (60 s for the child, 45 s for the relay).
  Nothing is assumed of relay or exchange, so `EveryRunEnds` rests on the
  timeouts alone.
* **Tool loop**: awaited calls come back or time out, and each request has its
  timer.  Nobody is made to answer: a turn waiting for its owner ends by the
  timer.
* **Dispatch**: the process manager restarts the dispatcher, its loop and timers
  run, Claude Code exits or is killed, days end.  The owner need not answer:
  `EveryDispatchEnds` is about rows past the owner.
* **Services**: activations under way run on, and intervals and timers that are
  armed fire (`TaskStep`, `RecoveryTick`, `QueueTick`, `SocketBeat`,
  `RequestTimesOut`, the watcher's cron); sends and connections end one way or
  the other; days pass, the publishing timers fire (`ContentTick`, `DraftTick`), a
  webhook that was not lost arrives (`PublishStarts`) and a run that fetched its row
  writes it back or is counted as lost (`PublishContent`, `PublishDraft`).  A
  tunnel told to end exits.  No outside service is made to come back:
  `LinkReturns` and `EpisodesClose` say what follows if it does and stays, and
  `OutageEnds` has the channel ask for its owner if Telegram does not.
* **Pipeline**: each call of a scan has a timeout, and the gate ends each question
  it was asked (`ApprovalGate` is checked to).  Nobody is made to tap, to start a
  scan or to move a book.

---

## 5. Proofs

Each of the six core proof modules holds type correctness, an inductive invariant,
one theorem per safety property and one for the bundle a run checks
(`GateIsSafe`, `BookIsSafe`, `ExecutorIsSafe`, `LoopIsSafe`, `DispatchIsSafe`,
`PipelineIsSafe`), for every value of the constants under the named
assumptions of the specification (finite sets of agents and runs, positive caps,
reserved names not used as model values).  The two modules about the services
hold the theorems of `MCServices`, for the services' own assumptions of the same
kind.  Every invariant that a passing run checks has a theorem, and so has
every action property.  Layout: one lemma for the initial
states, one for a step with a case per action, one temporal theorem.

**ApprovalGateProofs** (`TypeCorrect`, `OneQuestion`, `OneOutcome`,
`NoInventedApproval`).  That an approval was the owner's tap cannot be proved
from the caller's state alone: the answer travels through `results`, so `IInv`
adds that a request still pending has no ruling (`PendingUnruled`), that a
published result carries the ruling (`ResultsRuled`), that a ruling comes from
an authorised tap (`RulingsTapped`), and that nothing is known of a request
not yet made (`IdleUntouched`).

Three more, `ChatTellsWhatWasTold`, `WholeWindow` and `GateKeepsContract`, need that a
result is still there when its scan looks for it.  The gate retains the newest
`MaxRetained` of them, so with more requests than that one may be pushed out, and its
scan is told of a timeout where the owner was shown an approval.  They are
therefore stated under `[][NoneEvicted]_vars`: no step drops a result that is still to be
collected, but for one of a listed request.  `GateIsTrue` draws all three from `Spec`
alone where the gate retains as many results as there are requests, as it does in the
run.  The code retains 32 (`approval.py:77`), and one request is pending at a time.  The
invariants: every word about a request (an edit on its way, a label, a result, an
answer) says what was ruled (`Words`), a ruling stays where its scan will find it, and
while the wall clock is left alone the two clocks agree (`Times`).  The refinement goes
action by action: a step about one request moves no other question and no
other report, and what it does to its own is a step of the contract or none.

**PositionBookProofs** (`TypeCorrect`, `LiveAlertsUnique`, `NoSilencedAlert`,
`ManualClosesExclude`, `NoPhantomExit`, `ScheduledExitFinal`).  The
strengthening says what a sweep or a request in the middle of its work already
knows: a sweep about to stamp an alert has delivered it, a sweep about to close
saw a final price (every position with a row and such a price is in `finals`, which
only grows), a request told "closed" wrote the
exit itself.  `ScheduledExitFinal` is the positive side of `book_race`: with one
scheduled sweep and no manual close no exit is rewritten, because each position
still on the sweep's list, or in its hands, is open (`StillAhead`).

**TradeExecutorProofs** (`TypeCorrect`, `RowsOnlyOfOrders`, `NoSilentFill`,
`SerialWithinCap`).  `NoSilentFill` needs that an order not yet sent is unknown
to the exchange, that a run about to record has an order the exchange took, and
that what may still fill when `execute` returns is accounted for already.
`SerialWithinCap` needs that without overlap one run is active (`OneActive`) and
that a run past gate 2 has left room for its row (`RoomLeft`), with two lemmas
on the cardinality of the open rows.

**ToolLoopProofs** (`TypeCorrect`, `Serialised`, `ApprovalFirst`, `OneAnswer`,
`SoloInScope`, `QuotaBounded`).  Approval first: ids above the counter are fresh,
each pending request has one waiter, an id is spent by one call.  Quota: the
calls between check and account are of different agents (`Flying`), so the count
is below the limit plus the number of agents.  Scope: while turns do not
overlap, the active set is that of the one turn under way (`Solo`).

**DispatchProofs** (`TypeCorrect`, `StartedOnce`, `OwnerFirst`, `CompletionTrue`,
`DeclaredOnly`, `MovedByItsRun`, `ToldAtMostOnce`, `SpendStaysBounded`).  The invariant ties the row
to the process: a claimed row has not run (`RunPhases`), a row that waits is
not ruled on and an authorised one was (`Ruled`), what is being pushed or
reported complete is a declared change done in full (`Honest`), and a row
before its claim has neither run nor been told of (`Untouched`).  `MovedByItsRun` and
`ToldAtMostOnce` are action properties proved from it.  `SpendStaysBounded` is about
a sum over the rows: one row is held at a time, and until its cost is written the day
is under its cap, so the sum passes it by one run.  That a sum moves by as
much as one of its terms does is proved of the fold that defines it, by induction
over the subsets of a finite set: no operator parameter is needed for that, since
what is to be shown is written out as the set of those subsets for which it holds.

**TradePipelineProofs** (`TypeCorrect`, `OrderedAsShown`, `DebitBounded`,
`ScannerAnticipates`, `TrueSummary`).  First the arithmetic: the iterated floor
ends, at an amount the floor leaves alone (`MakerFixed`, by well-foundedness of
the naturals); the debit of a capped notional is within the ceiling for every
quote, edge and ceiling (`CapBound`, from lemmas on products and quotients); a
dearer fill costs no more fee (`DebitBound`); a smaller stake fills at the same
ask or a cheaper one (`FillMonotone`).  Then candidates: what `Select` returns, and
what `Halved` leaves of it, is a `Stake` within its ceiling and `Sound` for the
book it was walked in.  The invariant carries this through the wait: while
neither book nor ceiling has changed the numbers are those of now (`Fresh`), what
is past the question is what was shown (`Carried`), and nothing is ordered or said
before the end (`Unsent`).  `Frame` says once what another scan's step leaves alone.

**RecoveryProofs** (`RecoversOneAtATime`, `LostLinksComeBack`, `StoresTellTheTruth`).
The first: the recovery lock of the channel does not exclude a second recovery by
itself, because a finally block opens it while an older frame still unwinds.  What
does is a *turn* that one party has: the runner that polls, one activation that
handles its failure or rebuilds it, the failure put aside, or the timer
(`OneTurnOf`); an active channel has not lost it (`ActiveHasTurn`), and
`OneRecovery` follows.  Each kind of step gives the turn up, passes it on or keeps
it (`TurnGivenUp`, `TurnLeft`, `TurnKept`).

`LostLinksComeBack` is the bundle of `HubComesBack`, `LinkIsRetried` and
`NobodyWaitsForGood`.  They rest on when a timer may be null or cleared: a cleared
one that is not null is what the code's own `if (!this.timer)` takes for a running
one (`HubInv`, `LinkInv`), and it is found only after the end.  `StoresTellTheTruth`
adds to the queue (`RowsSayTheTruth`) the conversation, whose index and file tell once
what was said, and hold nothing that is still being embedded (`ConvInv`), and the
stores of facts and entities, which hold a fact, and a name with a type, once
(`KnowInv`): of two facts that begin alike the later would have overwritten the earlier
(`Apart`).  That a
bundle holds of twenty services, one of which moves, is said once: they begin as
they should (`EachBegins`), and a step is a step of one of them (`EachMoves`).

**HostProofs.**  *Tunnel* (`TunnelEndsWithServer`): what is waited for or let run is
held.  *Skill calls* (`ReportsAreTrue`): a call that was told something has an outcome
that cannot change any more (`Decided`).  *Process* (`StopFindsAgent`,
`SettingsForgottenByOldCopies`): until two processes have been alive at once there is at
most one, and the pid file never names one that was not ready (`ProcessInv`).
The other is an action property: the only writes that drop a setting come from a
copy without it, or follow a write cut short (`ForgetStep`).

*Owner* (`OwnerIsTold`, `OwnerIsObeyed`).  For an outage: the last alert of each episode
that stands is as old as the silence or older, and no older than its first
(`WatchInv`); for the spend: while one run of the alerter was silent, no tier tried in
the hour before the next, so that no cooldown holds (`QuietInv`).  `OwnerIsObeyed` has
four parts.  A code that waits in the slot has been told to the owner by a request
that is done, so it comes there once (`CodesInv`), and the requests that are enabling
are no more than the codes spent (`CountInv`).  A row that says approved, is on its way
to be published, was shown, or lacks a platform has been signed off (`BoardInv`).  What the heartbeat charged, with what its activations still owe, passes
the cap by no more than what all of them may add (`CapsInv`, over the cardinality of
those that owe).  A count of tries at its limit is the lock, and a lock that ran
out has forgiven the tries before it (`TriesInv`).

*Skills* (`SkillsAreLoadedRight`).  The parser and the diagnostics are folds over the
lines of a file.  `FoldRuns` says that a fold has its states one after the other, by
induction over the positions; then, line by line, the section the diagnostics see is
one the parser is in, or one of no consequence (`SectionsAgree`).  For the
choice: *ahead of* is a strict order of the skills that match, what is ahead of one is
finite and grows down the order, so that the first of them are those with fewest ahead.

*Requests* (`RequestsStayValid`).  The stored history alternates and ends with an answer;
both cuts leave an end of it; a turn adds its message, and then calls with their
results (`RequestInv`).  What the join of neighbours leaves, again a fold, alternates
and ends as the messages did.

*Replies* (`ReplyIsBacked`).  The fold that pairs calls with results pairs a result only
with an earlier call of the same tool that no other result took (`PairsAre`), be it
the call of its id or the nearest; so a claim that passes its gate has a row of the
asked-for status and, of the same tool, a row that names its entity, which is what
`ShownIsBacked` says.  That the two rows are one call is not claimed, since the code
does not give it (section 6).

*Commands* (`WhatRunsWasMeant`).  The specification says which command is meant, as
pieces of words, and its parser reads the characters they are written as.  The proof
lays the pieces out along the line, each between the ends of two prefixes of the
whole (`FlattenIs`, `LineIs`), and has the invariant `ShellInv` say where the parser
stands, between two pieces or inside a quoted one (`Between`, `Inside`), and that the
words it holds are those meant up to there (`ReadSoFar`).  Every branch of the parser
reads the next piece whole, opens or closes its quote, reads its text, or ends the word.
For paths: links lead to what is no link, and what was resolved and allowed holds no
link that could be moved.

*Types* (`ServicesKeepTypes`).  Most types are inductive as they stand.  Two are not: that
the attempts of a channel's recovery stay within their number needs that an armed
timer has one left (`ChannelInv`), and that a day's spend stays within its range that it
is within what the hours so far can have spent (`SpendInv`).  Where a type is that of
a fold (the rows a round takes, the table of a skill's tools), `AllAlong` carries it
along the fold.

Theorems that a bundle is put together from are not listed in `PROJECT.json`:
`HubComesBack`, `LinkIsRetried`, `NobodyWaitsForGood`, `RowsSayTheTruth`,
`TriesAreBounded`, `NothingPostedUnseen` and `CodesAreSpentOnce`.  `LiveAlertsUnique`,
`ScheduledExitFinal`, `DeclaredOnly`, `MovedByItsRun` and `ToldAtMostOnce` are proved of
definitions that no run checks.

**Only model-checked.**  Liveness: `GateEnds` (with the fairness of the contract),
`BookLive`, `EveryRunEnds`, `EveryTurnEnds`, `EveryDispatchEnds`, `EveryScanEnds`,
`OutageEnds`, `ApprovedRowsGoOut`, `CallsComeBack` and `ServicesRecover`, since the
prover does not handle fairness and ENABLED.  The induction theorems of its library take
an operator, which no installed prover can instantiate; where an induction was needed
here (the folds above) it is made over a set, from the well-foundedness of the naturals
or over the subsets of a finite set.  The converse also holds: `ShellInv` and the
invariants about folds speak of every sequence and were not given to TLC, which
checks what follows from them (`RunsWhatWasMeant`, `SkillsLoadRight`, `RequestsAreValid`)
on the instances above.

---

## 6. Where the code and its documents disagree

Four are shown by violation runs and listed in `PROJECT.json`, `findings`: an exit
record overwritten by a sweep, the cap passed by overlapping runs, a tool outside
its turn's scope, and a summary that says a trade failed when nobody knows.

Others were met while modelling.  The models contain the behaviour, the
properties leave it out or are stated so that it is allowed:

* **Gate.**  Expiry is by the wall clock, so a forward step of it expires a request
  before its window is over.  A send whose answer is lost leaves a message with live buttons for a
  request the gate forgets (`approval.py:393-395`).  A tap that comes later is
  refused as unknown; one that comes before the send is known to have failed is
  accepted, the message marked approved, and the scan told nothing was delivered:
  it trades nothing.  A request expired by the sweep is not announced when its message
  id is unknown, and keeps its buttons (`603-604`).  After a backward clock step a request
  listed by the sweep can be tapped and then expired (`630`); the contract
  allows the resulting timeout.
* **Book.**  An alert may be raised on a position held or closed since the fetch
  (`main.py:591-592`, `monitor.py:648-650`).  When resolving the alerts of a
  closed position fails, nothing retries it (`monitor.py:657-662`).  Only manual
  closes are said to exit a position (`main.py:648-649`), but a settled market
  is closed by the monitor.  So is a market that has not settled when the
  direction side's price is read as 0.0 or 1.0: the price alone decides
  (`monitor.py:309-336`, pinned by `test_monitor.py:423-429`), although the comment
  there says `closed` is the field that means settled, and the exit stays when the
  price moves back.  A voided market settles at 0.5 and its position never closes
  (`monitor.py:313-327`, documented there).
* **Scan.**  A candidate without a conditionId is proposed without a look at its
  book (`scanner.py:752`, against the docstring above it) and, once approved, always refused
  by gate 6: `Anticipated` is about stakes and shares.  A `max_position_usdc` of 0
  is read as no ceiling when sizing (`scanner.py:613-614`) and refuses everything in gate 5.
  "The CAP IS THE DEBIT" (`sizing.py:28`) holds at the quote and above; filled
  cheaper, the fee is a larger share and the debit can pass the ceiling:
  `DebitWithinCeiling` is about the former.  The scanner's threshold (`high_edge_threshold`, environment) is not gate
  4's (`min_edge_threshold`, database).
* **Executor.**  An order the exchange takes without a match is recorded and
  announced as a trade: the relay answers `success` for any response
  (`relay.py:370-394`), `execute` looks only at the return code and `"error"`
  (`executor.py:547`), and a status other than "matched" merely has the row carry the
  scan's price (`756-796`, `test_executor.py:1472`), against the comment "Succeeded.
  From here the money is spent" (`592`).  So `RowsAreAnswered` and `SummaryIsTrue` speak of
  orders taken, not of fills.  Output that is not JSON with return code 0 would be
  recorded too (`685-707`); the child prints nothing else.  A connection that breaks while the row is written leaves `execute`
  as an exception.  A lost answer is reported as a failed trade
  (`execute_trade.py:76-98`): `KnownExposure` excepts these runs (`cut`).
  Staleness is looked at once, before the gates (`executor.py:133-136`).
  An approval may be posted to `/execute` twice within its five minutes.
* **Approvals.**  The JSON fallback keeps 200 rows (`approvals.js:35`): a pending
  row pushed out of it makes the timer's `deny` throw, and its caller waits for
  good.
* **Tools.**  A tool that outlives its timeout goes on (`executor.js:345`).
  `n8n-workflow-update` writes back a workflow read before the approval
  (`n8n-workflow-update.js:118`, `175`).
* **Dispatch.**  A row reaped while its run was alive gets a second outcome: the
  write-back goes by the id alone (`claude-code-dispatcher.js:311`), although
  `CHARLIE_OVERHAUL.md:383-386` ends every row in one.  The second of two overlapping replies is told "Approved" or
  "Cancelled" although its PATCH changed nothing (`manager.js:253-261`).
  `claude-code-dispatcher.js:404` promises nothing partial, but a pushed branch
  stays when `gh pr create` fails, and a pull request can be open under a failed
  row when the answer to the write-back is lost.  Runs that are killed cost
  money the daily cap does not count.  A turn that collected a reaped row is
  told timeout and never of the later outcome.  The authorisation timeout and
  the status `authorised` of `CHARLIE_OVERHAUL.md:383-392` are not implemented.
  The per-session enqueue cap is checked, then the row inserted; it fails open
  and does not count rows that wait.
* **Channel.**  A failure put aside is handled after the lock is let go, so two
  frames of one recovery may both clear it (`manager.js:912-915`); that is harmless
  only because one party at a time has the turn, which is what is proved.
* **Delivery queue.**  The retry loop is an async function on a 30 s interval and
  overlaps itself: a message is sent twice, and a delivered row can be marked
  failed by the slower round (`delivery-queue.js:118-130`).
* **Heartbeat.**  The "daily" counters are reset 24 hours after the start, not at
  midnight (`heartbeat.js:240`); the cap is read before a call and charged after it.
* **Trading switch.**  A disable clears the pending code (`server.js:1845`) but not a
  confirmation whose PATCH is on its way, which lands after it.
* **Review boards.**  "One draft per day max." (`server.js:2203`) is checked, then
  written: two schedule requests can take one slot.  A Crete item can be edited after
  its approval (`server.js:2062`), so what is posted was signed off as a row and not
  word by word; one approved without a date is never retried when its webhook is
  lost, nor is one approved again once its attempts are spent.  The same holds of a
  draft that the Telegram answer "go" approves without a slot, although the message
  says "approve and schedule": the timer looks for rows with a `scheduled_for`.
  `ApprovedRowsGoOut` leaves these out.  The publishers do not look at the status
  again, so a webhook and the timer can post a row twice, and a publishing run that
  fails sets an item to approved that was rejected meanwhile, for the timer to find.
  A draft of which every platform failed is "partially_published".  The platform
  retry of a draft without recorded errors posts nothing and marks it published,
  whatever its status.  A draft sent back is gone when the rewriting fails: its row
  is rejected and no other inserted.  Dates are told apart by the day only, items
  due on one day not at all.
* **Dashboard server.**  An auto-learn question is deleted once broadcast, whether or
  not a browser was there (`server.js:515-535`).  Without `autoPort` a busy port makes the
  start fail (`server.js:2894-2899`).  The address of a tunnel stays
  after the tunnel has gone.
* **Process and settings.**  `qclaw restart` waits two seconds (`cli/index.js:137`):
  the old agent may still be alive and remove the new one's pid file.  A token
  persisted by one process is dropped when another writes the file from an older
  copy (`config.js:152`), although `cli/index.js:1165-1167` counts on its staying.
* **Memory.**  Up to 30 seconds of the vector index are lost in a crash; `remove`
  and `clear` of the JSON knowledge store are not saved (`knowledge.js:280-300`).
  The graph keys an entity by name and type (`graph.js:72-74`): one made as an end of a
  relationship is `unknown` (`graph.js:309-316`) and gets a second row when it is named
  with a type, and later relationships go to the row with more mentions.
* **Gates.**  Every tool row of the audit log is of the agent `tool` (`index.js:336-345`), so a
  call made for another agent counts as evidence.  A row is cut at 200 characters,
  and where that takes the id, `correlatePairs` falls back to the nearest call of the
  tool (`gates.js:153-160`), which may be another.  A post that was only queued for
  review and a refusal as out of scope are booked as successes (`index.js:345-349`)
  and count as such for claims of what was done; only the gate on identifiers tells
  them apart (`gates.js:632-683`).  `delegate_to` is retired, and the stub's answer
  still backs a claim that something was delegated (`gates.js:329-332`); nothing writes
  a `delegate_to_result`, so a claim of a specialist's outcome is never backed.  The
  gates' two windows, of five and ten minutes, are one here, which may end anywhere; a
  sentence cites at most one entity; the kill switch and a gate that throws (it is
  passed over) are left out.
* **Skills.**  A PUT and a PATCH on one path get the same tool name
  (`skill-parser.js:146`), and the later one stands.  A re-read that says "open"
  need not be final: a queued write can still be applied.  The table of words that only
  count in combination (`COMBINATION_TRIGGERS`) is empty today, so what `SkillFiles`
  says of weak words is about no skill yet.
* **Shell.**  A path is resolved when it is checked; one that does not exist yet, and a
  plain file replaced by a link after the check (`shell-exec-verb-schemas.js:281-285`),
  are outside the model, which moves links.
* **Credentials.**  The identity file and the key in the secrets file are two writes;
  a save of the other process's older copy can drop the key (`credentials.js:549-555`).
  A file that cannot be parsed is replaced by a new identity (`528-534`).
* **MCP client.**  A stream that dies leaves `connected` as it was, and calls run into
  their timers.  Enabling a server again starts a second child and forgets the first;
  if that child fails, the old tools stay registered and are refused.
* **Watchers.**  A first alert that Telegram refused is noted as fired
  (`liveness-watcher.js:225-226`), and the next comes with the reminder, although the
  header (lines 20-22) says that suppression never gates the first alert.  An all-clear that could
  not be recorded leaves its episode open, and the first alert of the next outage is
  then taken for a reminder and may be muted.  The age of a health alert is that of a
  file written after it was sent (`spend-alerter.js:200-206`), so an hour later may be
  too early; two hours are not.  Rollups that
  are no longer renewed are alerted on as if fresh.

---

## 7. What is not modelled

Left out inside modelled components: message texts, the filters by which the scan
drops markets, the NO side (no scan proposes it), non-finite numbers, signing
and token selection, briefs, clones and the scrubbing of output, prompt
assembly, what a verification gate finds in prose, several rate categories and
the daily window, the read-only routes.

In the services: the other channels, pairing and media; read-only routes, pages and
statistics of the dashboard; the onboarding dialogue and the terminal interface;
ranking of search results and traversal of the graph; formats of providers and
built-in APIs other than their common path; what the patterns of a gate find in
a sentence; schemas of single shell verbs beyond three representatives;
encryption and the credential proxy; the poller of the provider's own spend
figures and the spike detector; of the n8n workflows everything but the publishing,
retrying and deciding of the two review boards' rows.

Left out as components (each with its reason in `PROJECT.json`, `components`): the
simulation worker, which the pipeline takes any answer of; the completion cache,
which nothing calls; single-call tools; the trust kernel and the exchange rates;
AGEX core, which nothing here imports; clipper, marketing, the other workflows and
scripts (external programs).

Two hazards have no property: the same approval posted to `/execute` twice, and
the write-back of a workflow read before its approval.

---

## 8. Plan

Written, in this order: `ApprovalContract`, `ApprovalGate`, `PositionBook`,
`TradeExecutor`, `ToolLoop`, `Dispatch`, `Sizing` with `TradePipeline`, each with its
runs and proofs; then the twenty services with their run and theirs.  The order
is that of consequence: what decides whether money moves, what spends it and keeps
its books, what lets an agent act, the scan that ties the first two together, and
what all of it stands on.

Next:

1. `WorkflowUpdate`: the read-approve-write of `n8n-workflow-update` with a second
   writer.
2. Pure operators against reference definitions: monitor thresholds, horizon.
3. Compositions of services where the code has one: the liveness beat with the
   channel's status, the heartbeat's questions with the dashboard's poller.
4. Proofs: that the scans over the gate, with `ApprovalContract` replaced by the gate
   it is kept by, order what was shown.

---

## 9. Running the checks

In this directory:

    tlasany ApprovalGate.tla
    tlc -workers 2 -config ApprovalGate_safety.cfg MCApprovalGate
    tlapm ApprovalGateProofs.tla

`PROJECT.json`, `runs`, names the module and configuration of every run, and
`mutants` for every property a change of one definition that breaks it: the
*Fault:* definitions of the modules.
