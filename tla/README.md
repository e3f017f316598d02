# A TLA+ verification of QuantMan

QuantMan trades Korean and American stocks by rules. A Windows program on the
user's machine (`local/localapp`) talks to the broker (KIS) and places the
orders; a FastAPI server (`server/app`) holds accounts and strategies, ranks the
candidates of the day and shows what the local program reports; a library
(`core/quant_core`) evaluates strategies for both; `web` is the front end. Money
can only be lost in the local program, so that is where this project starts.

## 1. The system

| Part | State | Operations | What is hard |
|---|---|---|---|
| Trader (`trader.py`) | `ledger`, `pending`, trades, equity, `_in_cycle`, `_CYCLE_LOCK` (module-wide RLock) | `cycle`, `_resolve_pending`, `_apply_fill`, `_submit_buy/_sell`, `_after_submit`, `cancel_all_pending`, `reconcile_with_kis`, `_save` | three threads share one Trader; several Traders share two files |
| Intraday loop (`intraday_loop.py`, `intraday_stop.py`) | one Trader for the session, `_sold_today`, threads | execution notices, stop losses, kill switch monitor and trigger | handlers that act without the lock; nested cycles |
| Intent journal (`intents.py`) | `intents.jsonl` | `begin`, `mark_submitted`, `mark_failed`, `is_active`, `reconcile_submitting` | crash between journal and order; ambiguous rows at KIS |
| Runs (`runner.py`, `scheduler.py`, `catchup.py`, `gui.py`) | the scheduler's jobs, `cycles.jsonl`, retry counters | `run_cycle`, settlement, catch-up, commands | several runs at once, retries of what was half done |
| Kill switch (`killswitch.py`) | `killswitch.json` | activate, reset, day start, loss check | load, modify, save by several threads |
| KIS client (`kis_broker.py`, WebSockets) | token, throttle window, subscriptions | orders, queries, notices | lost replies, rate limits, reconnects |
| Server channel (`sync_client.py`, `sync_retry.py`, `commands_client.py`, `datafetch.py`, `calendar_sync.py`) | `pending_sync.json`, cached preview, dataset tag, calendar file | push, pull, poll, acknowledge, download | offline queue, duplicated commands, files that are read while they are replaced |
| Order log (`order_log.py`, `analytics.py`) | `orders.jsonl` | append, profit per strategy, split of a shortfall | best-effort appends, partial fills, rounding |
| Server routers (`routers/sync.py`, `commands.py`, `trading.py`, `preview.py`, `dataset.py`) | database rows, background checks | ingestion, alarms, preview, timeline, bundles | overlapping requests that each read before they write |
| Server jobs and caches (`main.py`, `preview_engine.py`, `data_cache.py`, `krx_cache.py`, `calendar_cache.py`) | price cache, screen table, calendar, preview of the latest row | nightly and afternoon jobs, loading on demand | jobs of minutes that write into what another one has replaced; stale caches |
| Core (`core/quant_core`) | data files, none while running | backtests, calendar, feeds, freshness | long sequences of arithmetic; dates of two time zones |

The scheduler starts `run_cycle` before the opening, the intraday loop at the
opening and the settlement after the close. `run_cycle` pulls the preview from
the server, makes a Trader from `ledger.json` and `pending_orders.json`, closes
what the intent journal left open, and runs `Trader.cycle` under `_CYCLE_LOCK`:
resolve pending orders, read the balance, exits, entries, a short wait, save,
report. The intraday loop makes a Trader of its own and keeps it: execution
notices change its ledger, stop losses sell from it, and the kill switch monitor
may run a cycle on it at any moment. The settlement makes a third Trader,
resolves and compares with the balance at KIS.

Around this core run the channels that feed it. The server collects prices every night, rebuilds its caches,
the calendar and the preview of each user, and packs the prices into a bundle; the local program downloads
the bundle and the calendar in the morning, pulls the preview in `run_cycle`, and pushes a snapshot when a run
is done, which a retry thread repeats while the server cannot be reached. The server shows the snapshots as a timeline and tells
the user's webhook what is wrong in them. KIS sends prices and execution notices over two WebSockets, each
with a thread that reconnects it; all REST calls share one throttle.

What makes these parts correct is stated by `docs/INVARIANTS.md`: each fill is
in the ledger exactly once (INV-FILL-1), an intent is submitted at most once
(INV-ORDER-1, -2), the ledger holds positive quantities only (INV-LEDGER-1), a
reconciliation deducts only what was sold outside (INV-RECON-1), shared state
changes under one lock (INV-CONC-1), the kill switch stops entries and cancels
what is pending (INV-KS-1, -2), KIS is called no more than its limit allows (INV-API-1), nothing is run on a
holiday (INV-CAL-1). For the channels the promise is rarely written down; it is that what is shown, cached or sent
is current, or is noticed not to be. The properties below say when the code keeps
these promises, and section 3 lists where it does not.

`PROJECT.json` lists every component with its status and every hazard with the
properties that cover it, or the reason none does.

## 2. The modules

| Module | Stands for |
|---|---|
| `OrderFills` | one Trader of the intraday loop and the three threads that use it |
| `OrderFills_proofs` | theorems about it |
| `OrderOnce` | the promise of the intent journal: at most one live order each |
| `IntentJournal` | the journal and the runs that read and write it; implements `OrderOnce` |
| `IntentJournal_proofs` | theorems about it, the implementation of `OrderOnce` among them |
| `TraderStore` | the two files, and the Traders that read, change and save copies of them |
| `TraderStore_proofs` | theorems about it |
| `KillSwitch` | `killswitch.json` and the cycles, monitor, notices and commands that change and obey it |
| `KillSwitch_proofs` | theorems about it |
| `CommandBus` | commands from the web: the rows and streams of the server, and the client |
| `CommandBus_proofs` | theorems about it |
| `Catchup` | the daily jobs, the log of what has run, and the decision of a start about what was missed |
| `Catchup_proofs` | theorems about it |
| `Entries` | the entry pass over the candidates of a preview, and the ledger keys its orders are booked under |
| `Account` | the settlement's comparison of the ledger with the account, and the split of a shortfall |
| `Broker` | throttle, token and retries of the REST client |
| `Routing` | the index of American tickers, and the market that an order is sent to |
| `Streams` | the intraday loop's price stream, its subscriptions and the polling beside it |
| `OrderStream` | the stream of execution notices and the keys of its connections |
| `Attribution` | the log of order events and the profit read off it |
| `SnapshotSync` | the way of a snapshot to the server, with the pending file and the retry thread |
| `DatasetSync` | the way of the price files between server and application |
| `Calendars` | the way of the market calendar from the server's library to the gate of a run |
| `Preview` | who builds, merges, pulls and shows the preview of the next day |
| `Freshness` | which signals enter a preview, by hour, season and holiday |
| `Alerts` | the webhook messages about the snapshots |
| `Timeline` | what the web page says of the runs of a day |
| `DataCache` | the server's cache of price files |
| `Screens` | the table behind the screener and the jobs that fill it |
| `Fetching` | what each feed asks for and how it is merged into a file |
| `EventEngine`, `Rebalance` | the two day loops of the backtester |
| `Server_proofs` | theorems about `DataCache`, `Alerts`, `Preview`, `Timeline`, `Screens`, `Freshness` and `Fetching`; and, since they need sums, about `EventEngine`, `Rebalance` and `Account` |
| `Local_proofs` | theorems about `SnapshotSync`, `Routing`, `Broker`, `Streams`, `OrderStream`, `DatasetSync` and `Entries`; and, with `Broker` for its folds, about `Attribution` |
| `MCLinks`, `MCTrading`, `MCParts` | `OrderFills` and the modules from `Entries` on, several in one run (section 3) |
| `MC...` | constants of the other runs: model values, symmetry |

A few definitions are there only for the mutants of `PROJECT.json`: next to the definition that models the code they state the
plausible mistake (`BuildsMissing` beside `Builds`, `PlannedFloor` beside `Planned`, `KeyOnce` beside `KeyOf`). No action
uses them.

`OrderFills`, `IntentJournal` and `TraderStore` look at the Trader from three sides, each with the
data its hazards need: `OrderFills` has quantities and partial executions but one
Trader and no crash; `IntentJournal` has crashes and many runs but no quantities;
`TraderStore` has many Traders and files but orders of one unit. `KillSwitch` has
the threads of all three, and of the orders only the buys. In `OrderFills` the switch is one
atomic flag; what its file makes of that flag is the subject of `KillSwitch`.

### OrderFills

`pending`, `soFar` and `seen` are `Trader.pending` with the fields
`filled_so_far` and `_dedup_keys` of an entry; `ledger` is a partial function
from ledger keys to quantities, its domain what the dictionary holds; `intents` and
`soldToday` are the two gates of a sale (only the cycle looks at the first, only the
stop loss at the second). `order`, `book`, `done` and `notices` are KIS. `lock`, `ws`,
`hook`, `cyc` and `tick` are the program counters of the threads; a step of the
model ends where the code releases or has not taken the lock, or where it calls
something that takes time. `registered`, `applied`, `wsApplied` and `polled` are
history: no guard reads them.

| Action | Code |
|---|---|
| `WsReceives`, `WsApplies`, `WsChecksSwitch`, `WsFinishes` | `_on_exec_event`: match and dedup; `_apply_fill`; its kill switch check; delete or update |
| `MonitorWakes`, `Evaluates`, `CancelsPending`, `EntersCycle` | `_ks_monitor_loop`, `evaluate_killswitch_now`, `cancel_all_pending`, the trigger's `Trader.cycle` |
| `PollsFilled`, `PollsPartial`, `PollsCancelled`, `PollsNothing`, `PollDeletes`, `PollUpdates` | `_resolve_pending`, one order at a time |
| `CycleChecksHealth`, `CycleSells`, `CycleSellFails`, `CycleSkips`, `CycleRegisters`, `CycleWaits`, `CyclePollsAgain`, `CycleEnds` | `_cycle_body` |
| `TickSells`, `TickSellFails`, `TickFindsNothing`, `TickRegisters` | `IntradayStopManager.on_tick` |
| `BrokerExecutes`, `BrokerCancels`, `UserResets` | the environment |

The trigger's cycle makes no entries (the handler passes none), so the model has
none. The day ends when nothing is left to do: deadlock is not checked there.

### IntentJournal and OrderOnce

`seed` and `phase` are the journal, the last line of an intent deciding its phase.
`kis` is the order posted for an intent, `shown` what the row of that order at KIS shows, which
need not be what the intent says: `_row_matches` (`Looking`) compares the symbol as it is written (`BRK/B` is not `BRK-B`)
and wants a price within 5% of the reference (`intents.py:176-178, 206-210`). The rows that a reconciliation gets (`KisAnswers`) are any part of the live orders: one page is
asked for, reservations are not listed, and an answer that reports its failure in `rt_cd` is read as one without rows
(`kis_broker.py:81-90, 710-727, 768-780`). `run` has one record per thread: where it is,
the intents it listed, KIS's answer, the strategies still to look at, and the attempt.
A crash keeps `seed`, `phase` and `kis` and clears the rest. Strategies are those
trading one symbol on one side, since neither the gate nor a KIS row ever relates
intents of different symbols or sides. Appends to the journal are atomic. Stop
losses, which do not ask the gate, are in `OrderFills`.

An order is identified by its intent and not by its number: KIS numbers say nothing
that the intent does not, and the code never sees the number of an order whose reply
was lost. `exempt` collects the strategies that have been put outside of the promise: by a lost reply
(`IntentJournalLost` shows it), by a reconciliation that asked KIS while another run was between journal and
POST, or by one that got no row looking like the intent of a live order (`Forfeits`). After that a crash that was reconciled
may open the gate while the order lives. In `OrderOnce`
the exempt strategies are part of the specification: the promise is explicit about
what it does not cover.

### TraderStore

`ledgerFile` and `pendingFile` are the files, `mem` the copies of the Traders, `act`
where each Trader's thread is, `lock` the holder of `_CYCLE_LOCK`. With a quantity a
ledger carries `has`, how often each order's fill went into it: a history that
`_save` and loading move along with the quantity. A Trader becomes `stale` when another
one writes a file after it was made. Jobs make `run_cycle`, settlement and
RECONCILE_NOW Traders; `Loop` is the intraday loop. Saving is two steps, and an exception
or a crash may fall between them.

A notice is in `notice` from its match (`LoopMatches`) over the change of the ledger (`LoopApplies`) to the removal of
the order (`LoopRemoves`), as `intraday_loop.py:138-150` and `trader.py:308-367` have it. Only the second step takes the lock. A cycle on the same
Trader, the trigger's or the monitor's, can run between any two: it polls the order, adds its fill again and saves; and if the
handler removes an order that such a cycle has listed, the fill is added again and the missing key ends the cycle (`ResolvesGone`).
`crossed` collects the orders of such notices. A loop that stops with a notice in hand is gone once the notice is done.

### KillSwitch

`file` is `killswitch.json` and `tmp` the one temporary file of all who write it. `th` has for
each thread where it is, the kind of change it is making, the copy it loaded, the balance and the
day it read, and `ks_active`; `pend` is the `pending` of each Trader, `saved` the pending file.
Jobs are threads of the scheduler and of commands, which make a Trader for each attempt; the
monitor and the notice threads share the Trader of the loop.

| Action | Code |
|---|---|
| `ActivateLoads`, `ResetLoads`, `DayLoads`, `DayKnown` | the `load` of `activate`, `reset`, `update_day_start`, and the change of the copy |
| `Writes`, `Replaces`, `ReplaceFails` | the two steps of `save_json`; the second raises when another thread has moved the temporary file |
| `Starts`, `MakesTrader` | `run_cycle` from the scheduler and RUN_CYCLE_NOW; LIQUIDATE_ALL; the reset by button or command |
| `EntersCycle`, `ReadsBalance`, `BalanceFails`, `Gate`, `CycleChecks`, `Buys`, `CycleEnds`, `CycleRaises` | `Trader.cycle`, with the retry by `run_cycle` |
| `Wakes`, `ReadsEquity`, `EquityFails`, `WatcherChecks`, `Cancels` | `_ks_evaluate_once`, `evaluate_killswitch_now`, `cancel_all_pending`; the trigger goes on with `EntersCycle` |
| `LoopStarts`, `LoopStops`, `EquityMoves`, `Midnight`, `OrderCloses`, `Crashes` | the session and the environment |

History: `latch` says whether the last activation or reset to finish was an activation;
`mixed` that two changes of different kinds have overlapped; `warned` has the threads whose cycle
was asked for while the latch was set. No guard reads them.

`mixed` is an exemption the code makes necessary. `killswitch.py:4` assumes that there is no
concurrent access, but the first cycle of a day, which records the starting equity, can
overlap an activation by LIQUIDATE_ALL, and writes `active` back as it was before. What the
properties say is that nothing else is needed: activations may overlap each other, steal each
other's temporary file and fail. It is never taken back: after such an overlap the properties
claim nothing more of that behaviour.

Simplified: the writing of the temporary file is one step, so that a reader never sees half
of it; the monitor's snapshot, which may be up to a minute old, is one read of the equity some time
before it is used; a notice may evaluate the switch at any time, not only after a fill; a new
session begins when the watchers of the last one are done; percentages are levels
of equity and a `Limit` of levels. `check_daily_loss` ignores the day of the recorded start, and so does
`Loss`.

### CommandBus

`status` and `stamp` are the rows of one device, `registered` and `queue` are `_device_queues`
and the `asyncio.Queue` of each stream, `gen` where its generator is. `batch` has the rows of a
stream's first query that the client has not received, `pipe` what the stream sent after them.
`client` is the one thread of the client, `late` a poll whose client has given up.

| Action | Code |
|---|---|
| `Commits`, `Publishes` | `create_command`, before and after its commit |
| `Connects`, `RegistersLate`, `Queries`, `Takes`, `Dies` | `stream_commands`: the request, the first query of `event_gen`, one turn of its loop, its cancellation |
| `PollQueries`, `PollAnswers`, `LatePollQueries`, `LatePollCommits` | `poll_pending`, around its query |
| `Refused`, `StreamEnds`, `Polls`, `PollFails` | `CommandClient._run`, `_poll_once` |
| `DispatchesStreamed`, `DispatchesPolled`, `Acknowledges`, `AckLost` | `_dispatch`, `_ack`, `ack_command` |
| `Breaks`, `ClientCrashes`, `ServerRestarts` | the environment |

History: `ran`, how often a command was executed; `raced`, the commands that a reader marked while they were in a queue or about to
be; `hit`, those that a fault has hit; `overtaken`, that a request handled too late has registered
last. What a command does when executed is in `KillSwitch` and `TraderStore`. Several
commands are created at once by several threads of the server; each one's time of creation is
different. The acknowledgement of an executed command that arrives late is left out: it
could only settle the row.

A command can be executed twice: the stream registers its queue before it reads the
pending rows, so a command created in between is in both. `ExecutedOnce` allows that and nothing else. A
command can be lost: it is marked before it is sent, and neither a new stream nor a poll
offers marked ones (`commands_client.py:98` hopes they do). `LostForCause` says that only what
a fault has hit is lost.

### Catchup

A day is cut into ten intervals, at the times at which a job runs, a session begins or ends or the
catch-up decides differently: the code compares dates and times of day, never durations shorter than these
intervals. `due` has the jobs whose time has come, `planned` the one-shot jobs that the planner
of the US session has made, `running` the runs under way, `todo` what each catch-up thread still has
to do, `log` is `cycles.jsonl`. A job is a market, a kind and the day of the session that it is
for; the entry it leaves has the day on which it ended, and the difference of the two days
is where the catch-up can go wrong.

| Action | Code |
|---|---|
| `Tick`, with `DueAt` | the clock, and the triggers of `register_jobs` and `_plan_us_session` |
| `Start` | `register_jobs`: plan the US session, start a thread, whose `_decide_catchup_plan` is `Plan` |
| `ToggleOff`, `Exit` | the button of the window (runs and threads go on); the end of the process (they do not) |
| `Sleep`, `Wake` | the machine sleeps; `misfire_grace_time` |
| `FirePlanner`, `Fire` | the jobs of `register_jobs` and `_plan_us_session` |
| `Begin`, with `Before` | `run_catchup_on_startup`: settlements, stop losses, cycles |
| `Complete`, `Fail` | the end of `run_cycle` and `_run_settlement_locked` with the entry written, or without |
| `RunNow` | `run_cycle` by the button, RUN_CYCLE_NOW, LIQUIDATE_ALL or the command line |

History: `chance` has the KRX runs that were due while the program could do them, `hindered` those
of them that failed or were cut off, `renewed` the cycles that were under way, or done minutes
before, when the jobs were registered again.

Facts the properties spell out by their exceptions. A settlement that the catch-up makes up for in
the morning is logged with that day's date, and a start in the evening then takes it for the
settlement of the day. A cycle by hand counts as the day's cycle (`ByHand`). The
button that stops and starts the jobs while a cycle runs lets the catch-up run it a second time
(`renewed`). A start between 08:55 and 09:00 gets neither the job nor a catch-up, so it is no
chance; a start in the middle of a US session plans no settlement of it.

Simplified: a run or a plan lasts into the next interval at most; the machine does not sleep in
the middle of a run; entries say their market and kind, so the classification of old entries by their
time is not needed, and the log is not longer than what `_last_of` reads. The US session
opens at 22:30 or 23:30; the one decision for which this matters, the 30 hours of the US settlement,
has both results (`early`). PAUSE_AUTO, the heartbeat and the data jobs are left out.

### Entries

`entries` has for each ledger key the shares booked per symbol: the code keeps one record with one symbol per key,
and the model keeps them apart to see two symbols under one key. `visit` is the pass of one cycle, its two
loops: the strategies to come, and of the one at hand the candidates and the places left; the limit of the day. `orders` are the buys accepted, `picks`
the server's preview.

| Action | Code |
|---|---|
| `CycleEnters`, `NextStrategy`, `PassesOver`, `BuysCandidate`, `CycleLeaves` | `_enter_from_preview`, `_try_buy_one_symbol`; `Places` are the candidates beyond the entries held |
| `Books`, `Expires` | `_resolve_pending` and the notices, which end in `_apply_fill`; an order that is not executed that day |
| `SaleDone`, `Midnight` | the sale of an entry; `_today_buy_summary`, which counts the lines of one KST date |
| `PicksChange` | the user edits a strategy or the server ranks anew |

`OneSymbolPerEntry` exempts what the code lets happen: a strategy of one symbol whose symbol is changed
while an order for the old one is open (`swapped`).

### Account

`held` is KIS, `ledger` the entries in the order of their insertion, `settle` the snapshot while it is being read: domestic part
first, then overseas, with trades by hand in between (`ReadsDomestic`, `ReadsOverseas`, `TradesByHand`).
`Part` is what an answer shows of the account: the rows of some symbols, and nothing of the others. `_kis_check`
never looks at `rt_cd` (`kis_broker.py:81-90`), so an answer that reports a failure counts as an empty account, and only the first page is
asked for (`kis_broker.py:167-203, 281-347`), of which `docs/kis-api` says that it has 50 rows at most, 20 of a virtual account (TTTC8434R). `unread` has the symbols whose row
was missing. `Reconciles` is `reconcile_ledger` with `plan_orphan_adjustments`: `Planned` is the share of an entry with the truncation of
the code and the remainder for the smallest entry (`Smallest`), and an entry whose plan exceeds what it has is left as it is.
Trades of the program itself are in `OrderFills` and `TraderStore`.

### Broker

Times are ages in ticks. `calls` is the list of the throttle, `granted` the places really taken within the last window, which the
property is about. `Acquires`, `Sleeps` and `Wakes` are `_Throttle.acquire`, whose lock is held during the sleep; a thread may
wake late, when a `Tick` has passed it by. `SendsRequest` is `_get_retry` and `_post_retry` with the answers `Outcomes`: a
query is tried again after any answer that may be transient, an order only after EGW00201. `Creates` is KIS. The requests of a
token and of an approval key do not pass the throttle (the former in `kis_broker.py:119`), and `WindowBounded` does not count them.

### Routing

`mem` is the index in memory, `master` the one on disk, each a set of exchanges; a download gets any subset (`Downloads`).
`Considers` is the test of a candidate's market in a cycle, `Submits` a regular order. An order of the regular American cycle is
reserved by a first lookup (`Reserves`, `trader.py:433-439`) and sent by a second one, to NAS if that finds nothing (`SubmitsReserved`, `kis_broker.py:652, 659`); a download may replace the
index in between, and `dropped` has the stocks whose exchange it took away. `RouteEnds` its status
query or cancellation by the market recorded with it. Stocks are told apart by form: a Korean code, a plain ticker, a class share (`BRK/B`).

### Streams and OrderStream

In `Streams`, `connection` is the program counter of the stream's thread, `connected` and `stopped` its event and
flag, `subs` and `served` what the client and what KIS believe is subscribed. `LoopStarts`,
`LoopStarted`, `LoopStops`, `LoopStopped` are `start` and `stop` of the loop around their thread starts;
`ConnTests`, `ConnRuns`, `ConnOpens`, `ConnRestores`, `ConnBreaks`, `ConnRetries` are `KisWebSocket.start._runner` with its
callbacks; `Syncs` is the minutely `sync_subscriptions`; `PollChecks`, `PollAsks`, `PollAnswers`, `PollEndsRound` are
`_rest_polling_loop`. A message is in the hands of its thread from `Arrives` to `Ticks`, and so is a price from `PollAsks` to
`PollAnswers`; each is evaluated however long it takes, also after a stop: an American tick waits for the module lock that `stop` holds
(`intraday_loop.py:405-409`), and the further records of a message are not given up (`kis_websocket.py:172-189`). `late` says that the message came after the stop.
A stop that falls between the test of the flag and `run_forever` closes nothing, and `slipped` records it. A thread that
outlives its loop goes on as `stray` (`StrayMoves`, `StrayBreaks`, `StrayArrives`, `StrayTicks`). Simplified: there is one such thread at a time, and the answer to a price that an earlier loop
has asked for is dropped when the next one starts.

In `OrderStream`, `wire` is what KIS has sent on the open connection, the answer to the subscription with its key first, and `handed`
what the client gave to `on_exec`. `Trade` sends to an accepted subscription and is lost otherwise, which `OrderFills` expects. The
price of a notice is right if it was read in the form of its market (`Mine`, `Decoded`).

### SnapshotSync

`pending` is `pending_sync.json`, `run` and `retry` the threads with the snapshot in their hands, `stored` what the server has
appended.

| Action | Code |
|---|---|
| `RunStarts`, `FlushSends`, `FlushUnlinks`, `RunEndsEarly` | `_flush_pending` at the beginning of a run |
| `Takes`, `Pushes`, `SavesPayload` | the snapshot of the run, `push_snapshot`, the file when it fails; the notices' push, which keeps nothing |
| `RetryStarts`, `RetryReads`, `RetrySends`, `RetryFails`, `RetryUnlinks`, `RetryKeepsFile` | `sync_retry._attempt_once` and its loop |
| `Dies` | the end of the application |

`fate` says how a snapshot was lost: a notice, a newer failure that replaced it in the file, the end of the
application, or the race of a thread that sends an older content and then removes the file
(`raced`). The property says that there is no fifth way.

### DatasetSync

A content is a version per file; a tag is the versions it stands for. `BundlePacked` and `BundleTagged` are the two replacements of
`build_bundle`, between which the server may die; `PullAsks`, `PullDownloads`, `PullOpens`, `PullWrites`, `PullTags` are
`fetch_dataset_bundle` file by file (a file is torn between `PullOpens` and `PullWrites`); `PullListed`, `PullFetches` are
`sync_dataset`; `Uploads` is `push_local_dataset`, which compares with a list that may be old; `LoadsFile` is a run that finds a file torn and
moves it away.

### Calendars

Reading and keeping what was read are two steps on both sides: `ReadsDisk` and `KeepsRead` at the server, `LoadsCalendar` and
`KeepsLoaded` in the application, so that `BuildsCalendar` and `Pulls` may come between. `Load` puts the downloaded
calendar over the bundled one, as `_load` does: bundled days outside the downloaded range stay.

### Preview and Freshness

In `Preview` a preview is the generation of the dataset it was built from. `DataReplaced` is a new generation of which nobody
builds a preview: the weekly American fundamentals (`main.py:161-169`), an upload (`routers/sync.py:536-560`), an order to load the data again
(`routers/admin.py:22-30`); `announced` is the last one that did trigger them. `DataRefreshes` and the job's
`Builds`, `ReadsRow`, `Merges` are one thread of the server; the button's and the pull's (`PullBuilds`, `PullMerges`) are requests.
`RowArrives` is a push; `WebPolls` the page's conditional request, whose tag a push and a heartbeat change;
`PullAnswers` and `CachedVoid` the file of the application. `lateRows` says that the last write was of older data,
`failed` that the job gave up a user.

`Freshness` computes dates: `DataFresh` compares, per market, the last date of the data with the last session on or before today less `DaysBack`.
`ClosedDays` is, independently, the last session that was really over at the hour. A day has six parts
in Korean time, with and without summer time in New York.

### Alerts and Timeline

In `Alerts`, `check` has the running background checks with the settings they read, `settings` what is committed. `ChecksAlarm` is one
alarm of `_check_alerts` with the message, the record and the commit, if any; `CommitFails` a commit that raises after
the message. `CooldownPasses` is time. Only a cycle's snapshot says something of the switch and of a missing preview; that of a settlement, of a reconciliation after the
opening or of a notice (`runner.py:323-335`, `intraday_loop.py:155-163`) is read as a release and as a preview that is there. `heard` is what the user holds
to be on, which only a cycle's snapshot ends (`IsOver`); `misread` what such a snapshot has ended in the records alone.

In `Timeline`, `came` are the snapshots, `done` what ran. `MatchSnapshot` and `ClassifyMissed` are the functions of that name;
a cycle's snapshot names its market and day, a failed one's its market only, a notice's neither; each may come late, or not at all.

### DataCache, Screens and Fetching

`DataCache`: `files` counts the changes, `generation` is the number on file, `built` the one noted, `cache` what each part contains.
`Asks` is `_maybe_reload`, `Finds` a hit, `RequestStarts`, `Loaded` and `LoadFails` a load under the lock, `WritesFile` and `Marks` the
job, perhaps of another process. `masked` are parts that a load of the dataset has left older than the number it noted.

`Screens`: a table has a number, so that a job that reads one and writes into the next is seen (`jobRun[j].to`).
`KrxRuns`, `NaverRuns`, `TechnicalRuns` are the clock, `RefreshByHand` the operator's requests, `ServerStarts`,
`StartRefreshes`, `StartRuns` the threads of a start.

`Fetching`: a candle is `none`, `live` or `final`; each feed (`FetchYfinance`, `FetchFdr`, `FetchKorean`, `FetchOverseas`,
`FetchBitcoin`, `FetchFred`) has its rule when to ask and from which day.

### EventEngine, Rebalance and Attribution

`EventEngine` has a day in four steps: `NextEventDay`, `SellsAtOpen`, `BuysAtOpen` one purchase after the other until
`BuysDone`, `ClosesDay`. `fillPlan` chooses the path: fill at the next open or the typical price, a part of a position per sale, a
part of the cash per purchase (the twin in `backtest.py`). `Rebalance` has `NewDay`, then the execution of a waiting
target (`Sells`, `Buys`, `Executed`), then one of `MarginCall`, `Rebalances`, `Exits`, `Holds`. Prices are small integers and costs are left out, so that
`NeverBorrows` is about the order of sales and purchases and the sizing, not about rounding.

`Attribution` reads the whole log with a fold (`Summary`), as `strategy_pnl_summary` does, and a sale reads the lots
with another one (`Taken`, one lot in `TakesFrom`), against `bought` and `soldUnits`, which pair the shares one by one.

## 3. The runs

| Run | Result | Shows |
|---|---|---|
| `OrderFillsThreads` | holds | `HandlersReturn`: notices, stop loss, monitor and cycle share the lock, and none waits for ever |
| `IntentJournalRestart` | holds | `OneLiveOrder`: overlapping runs, a crash, a lost reply |
| `IntentJournalRetry` | holds | `OrdersOnce` (refinement), `StuckIntentsClose`: cycles that are tried again |
| `TraderStore` | holds | `RecordedOnce`, `SavedStays`: several Traders and two files |
| `KillSwitch` | holds | `SwitchExact`, `BuysBlocked`, `LossTriggers`: changes of the switch that overlap |
| `CommandBus` | holds | `ExecutedOnce`, `LostForCause`, `PendingDelivered`: two commands, two streams, a fault |
| `Catchup` | holds | `KrxCycleOnce`, `UsCycleOncePerDate`, `KrxCycleDone`: three days of schedule and starts |
| `Links` | holds | the machines that keep going: `SnapshotSync` (`NothingLostSilently`, `FileMoves`), `Calendars` (`HolidayArrives`), `Streams` (`HeldPriced`, `StopEndsStream`) |
| `Trading` | holds | what a cycle lives on and leaves: `OrderFills` (`NeverDroppedEarly`, `NoticeAppliedOnce`, `NoticePathExact`: one order, executed in parts, its notices repeated and polled), `Entries` (`OneSymbolPerEntry`), `OrderStream` (`HeardAsTraded`), `DatasetSync` (`TagCovers`), `Preview` (`PreviewCurrent`) |
| `Parts` | holds | one invariant or two of each of the other modules from `Account` on |
| `IntentJournalLost` | violated | a lost reply: the order is repeated by the retry |
| `FreshnessCurrent` | violated | a preview built on a Korean session day before its close has no Korean candidate |

The findings in `PROJECT.json` quote the line of the documentation or the comment
that each violation contradicts.

`Links`, `Trading` and `Parts` check independent machines in one run: the first state names a machine, only its
variables change, and those of the other machines rest in one initial state. So each machine is explored as if
alone, from all its own initial states, and its properties are checked in all of its states; nothing is claimed of
their composition. The machines meet the others through what they take as environment: `SnapshotSync` delivers what `Preview`,
`Alerts` and `Timeline` receive, `OrderStream` what `OrderFills` is notified of, `DatasetSync` what `Entries`
and the runs read.

### Where the code and its documentation disagree

The two findings have a run. Others show in actions of the models or in an exception that a property has to make; each is named with the
line that causes it.

- `_resolve_pending` adds the new part of a partial execution, but the whole quantity when the order is then filled
  (`trader.py:266-276`), so a part that a poll has seen is added twice, against INV-FILL-1 (`docs/INVARIANTS.md:44`). Actions `PollsPartial`
  and `PollsFilled` of `OrderFills`. It also happens with orders of one unit: a fill fires the kill switch, and
  the cycle nested in its handler polls the order, which is still pending, and saves: the ledger file then has the fill twice, by no torn or stale
  save. `RecordedOnce` of `TraderStore` exempts the orders whose notice was in hand during a cycle of the loop (`crossed`).
- The same addition can end the tracking too early. An order of two is half executed and the notice in flight; a poll answers "partial" and adds the unit (`trader.py:269-276`), the
  notice adds it again, takes the order for complete and deletes it (`intraday_loop.py:138-145`) while the other unit is working. `NeverDroppedEarly` exempts
  this one case: an order of which both a poll and a notice were applied, counted as complete that way.
- An order that was cancelled after a part of it was executed is dropped together with that part (`trader.py:277`,
  action `PollsCancelled`), against INV-FILL-1; `NeverDroppedEarly` exempts cancelled orders.
- After a crash behind the POST an order whose row does not look like its intent (`intents.py:176-178, 206-210`), or is not in the answer, is taken for
  not sent; the intent is marked as failed and a later cycle may send it again, against INV-ORDER-2. `OneLiveOrder` and `OrdersOnce` exempt that strategy from then on.
- The settlement compares KIS with the ledger file, to which the loop's own sale is written later, and deducts it as
  one by hand (`trader.py:190`), against INV-RECON-1 (`docs/INVARIANTS.md:89`). `RecordedOnce` and `SavedStays` of `TraderStore`
  exempt stale saves for it.
- What the settlement does not read of the balance it takes for sold, also against INV-RECON-1: the American shares when their query raises
  (`kis_broker.py:339`), and of either market all shares when the answer reports a failure (`rt_cd`), and those beyond the first page. `DeductedForCause` exempts them (`unread`).
- A start after midnight repeats the cycle of the American session, since dates of Korea are compared (`catchup.py:365`),
  against INV-CATCHUP-1 (`docs/INVARIANTS.md:66`); `UsCycleOncePerDate` holds within one date.
- A cycle that activates the kill switch itself (`trader.py:1009`) and LIQUIDATE_ALL (`gui.py:931`) cancel no
  pending order, against INV-KS-2 (`docs/INVARIANTS.md:100`); only the trigger of the watchers does (`Cancels` of `KillSwitch`).
- A class share whose exchange is missing from the index is sent to KRX, although the docstring of `_detect_market`
  (`kis_broker.py:372`) means to block what is not recognised; `RoutedHome` exempts it. A reserved order whose exchange an
  overlapping download drops between its two lookups goes to NAS (`kis_broker.py:652, 659`), although the index never guesses (`market_index.py:9-11`); exempt too (`dropped`).
- A snapshot without the field of the kill switch is read as its release (`routers/sync.py:91`): the user is told of a release that was none, and by
  the next cycle of the same activation again, which the comment says is told once (`routers/sync.py:96`). It also resets the count of missing previews. `ToldOnce` tells these repetitions
  apart (`misread`).
- Two jobs replace the data without a new preview (`DataReplaced`), although a successful refresh triggers one (`main.py:106`); `PreviewCurrent` is about the data that were announced.
- A sync adds before it removes (`kis_websocket.py:299-304`), so with all places taken a symbol that is held gets none until a later sync, and by trades at every sync none at all;
  `HeldPriced` assumes that the other holdings come to rest, or fit in beside those still subscribed.
- A feed that asks from the day after its last candle on keeps the unfinished candle of a day still traded (`data_fetcher.py:289`);
  `FileWhole` says which feeds do not.
- A load of one part of the price cache notes the new generation for the parts loaded before it, which then stay old
  (`data_cache.py:76`); `StaleIsSeen` exempts them (`masked`).
- The backtester counts a stop as done although no price was there to sell at, or less than a share was to be sold
  (`engine.py:316`); `StopsHeld` exempts these positions.

### Bounds

In `Trading`, `OrderFills` has one order of up to two units, so it can execute in
two parts; two deliveries of each notice, so one can be repeated; two stamps, so two
parts can look equal or different; one round of `_wait_pending` after the first pass,
so a poll can see the order before and after. `OrderFillsThreads` has a loaded order
and one more for the cycle or the stop loss to send, of one unit each, which is the
smallest over-sale. `IntentJournalRestart` has two strategies whose orders may look alike, and two looks of a row, so that an order may look like its intent or not,
two runs, one crash and one lost reply; the interchangeable identifiers are symmetric.
`IntentJournalRetry` gives each run two attempts and drops the second strategy, because
liveness is checked without symmetry. `TraderStore` has a purchase and a sale, one job
that may become each kind in turn, the loop, and one mishap: a crash, a sale by hand, a stale save, a
torn save or a notice that crosses a cycle of the loop. `MaxDeducted` bounds only how much a reconciliation may take out.
`KillSwitch` has one job and the monitor, so two threads can be in the middle of a change, one buy,
two levels of equity, so that a loss of `Limit` = 1 can come and go, and one event: a midnight, a
reset, a LIQUIDATE_ALL or a crash. Equity itself moves without a bound. The notice threads evaluate the
switch exactly as the monitor does, on the same Trader, and are left out of the
runs (`Notices = {}`); the theorems have any number of them.
`CommandBus` has two commands, so that they can change places, two streams, so that a new one
can meet what an old one left, and one fault of any kind. It idles when
nothing is to be done: deadlock is not checked.
`Catchup` has three days, a KRX session on the first and the last of them and a US night from the second to
the third: so a session can be followed by a holiday, a settlement can be made up for two days later, and a
night lies between two dates. Two starts are a start and its repetition, or a restart. One event is one
failure, one start without credentials or one run by hand. The last day ends: deadlock is not checked.

In `Links`, two cycles and a notice take two snapshots between them, so that one can replace or overtake the other in the
file; three calendar days are one between a first and a last, which a closing can remove; of three symbols all may be held, for two places
(`SUBSCRIBE_MAX` = 2), so that others come and go beside one that stays, and can keep it out for a while. Restarts, broken connections, failed calls and purchases are not bounded.

In `Trading` (`Preview`, `DatasetSync`, `OrderStream`, `Entries`) and `Parts`:

| Module | Bounds | Why they are enough |
|---|---|---|
| `Alerts` | two checks, three pushes, threshold 2 | two can overlap; a streak can reach the threshold and be told again |
| `Preview` | three generations, two rows | a builder can be late for the data and for the row; one generation announced and one not |
| `Timeline` | two days of four ticks, two snapshots, a heartbeat | a snapshot of another day in view, and the first one leaving the window |
| `DatasetSync` | two files, two versions | one file new and one old in one bundle, and an older upload |
| `DataCache` | two requests, two changes | a change during a load, and one between two loads |
| `Screens` | two days, two odd events | a job over the change of the table, and a failure of each job |
| `Fetching` | six days, two asked for again | an outage longer than the days asked for again |
| `Freshness` | three days, each with and without session | a holiday between two sessions, and a night over midnight in either season; a strategy that selects both markets has all the candidates there may be |
| `EventEngine` | two symbols, two prices, three days | a decision, its execution and the day after; two purchases for one budget |
| `Rebalance` | two symbols, two prices, four days, a rebalance every third | exits on two days in a row, the second with what was exited on the first still excluded, and a rebalance after them |
| `Attribution` | two keys, three fills of up to two shares | a lot split over two sales and a sale over two lots |
| `OrderStream` | four executions, three connections | a notice of each market on an old and a new key |
| `Broker` | two threads, two places in a window of three ticks, two attempts | a full window, two waiting, one waking late |
| `Routing` | two exchanges, a stock of each form, two loaders | an index with either exchange missing, two downloads at once, one of them between the lookups of a reserved order |
| `Account` | a symbol of each market, three entries of up to two shares, two trades by hand | a split with remainder; sales before and after the reading |
| `Entries` | a strategy of one symbol, one of two, an order each, one edit, two days | a late booking of another day and symbol |

### Fairness

A thread that has started a handler or a run keeps being scheduled, which
is what the operating system does; weak fairness is on the steps of one thread
together and never on the broker, the network, the market, the user or the start of a
run. A cycle that waits for `_CYCLE_LOCK` eventually gets it because the holder's steps
are fair. `StuckIntentsClose` assumes what it says: that run_cycle is called again and again,
and KIS does not fail its queries for ever. `LossTriggers` needs
the monitor to wake (`_ks_monitor_loop` has no way out but the end of the session), its balance query to
succeed when tried again and again, and its trigger to get a lock that is free again and again
(strong fairness: a job may take it in between). Nothing is assumed of the jobs' start, of the
market or of the user. `PendingDelivered` assumes that the server's and
the client's threads run, and that a poll or a stream is tried again and again, which is the loop of
`_run`; a client at a connection that broke silently (`timeout=(10, None)`) is exempt, since nothing in the code
wakes it.

In `Links`, `FileMoves` assumes that the retry thread starts with the application and that its loop, which never ends, does not
fail for ever (strong fairness of reading, sending and removing: an end of the application may come in between). `HolidayArrives` assumes the
nightly build (a cron job) and, strongly, that the morning's pull succeeds when tried on one day after another, and that
somebody asks for a session, which every scheduled run does first. `HeldPriced` assumes the threads of
the loop, its minutely sync, that a message or an answer in hand is evaluated, and of each symbol that KIS sends a tick, or the polling thread asks for its price, when one of the two is possible again and again.

## 4. The proofs

All theorems hold for every value of the constants that satisfies the module's
assumption: disjointness of the identifiers from the `None` marker, natural
bounds, finite sets of symbols, positive prices and capital in the backtests, in `TraderStore` purchases that are not sales,
in `SnapshotSync` cycles that are not notices, in `Routing` stocks of the three forms.

Every invariant of the runs that pass is a theorem, and so is every action property. What follows says along which argument,
module by module.

Sums, folds and counts need induction over a finite set or a sequence, and the library's induction theorems cannot be
instantiated here, since their parameter is an operator. The proofs go through minimality instead: a set of
subsets of a finite set has a smallest member (`SmallestSubset`, from the well-founded order of the library), so among the
parts for which a claim fails there is one all of whose proper parts satisfy it; for sequences `ShortestSeq` gives a shortest
one, which is empty or lacks the claim for its last element only. On these rest, in `Server_proofs`, the facts on
`SumFunctionOnSet` (`SumIs`, `SumWith`, `SumMinus`, `SumAtMost`, `SumOnPart`), and in `Local_proofs` those on `FoldLeft`: a fold by a step
that is a function is unique and obeys `FoldOfNone` and `FoldOfMore`, and the folds of the models, whose step is an operator,
are shown to be such folds (`FoldGiven`).

- `OrderFills_proofs`. `TypeCorrect` and `LedgerStaysPositive` go together: that a
  stop loss finds a positive quantity is what makes the order it sends well typed.
  `TrackedToTheEnd` needs `EntriesBacked`: what an entry, the notice
  handler (`already`) or a poll remembers of an order never exceeds what was applied of it, units counted twice included, so that an order no longer tracked was applied in full or cancelled (`AppliedInFull`).
  If it was not executed in full, a notice of it was applied (`DroppedForCause`: polls alone delete only what KIS calls filled), and by `NoticePathExact` a poll was too.
  Each of them is read without the lock, and the point of the proof is that `applied` only
  grows, so an old value remains a lower bound. `NoticesOnce` needs `DedupCovers`: the
  dedup keys cover every notice applied or about to be. `NoticesNeverExceed` needs `UnitsInv`: the notices of an order
  report disjoint intervals of its executed units (the `qty` units that end at `upTo`), and of an order that was not polled
  exactly the units of the applied notices are in the ledger, `applied[o] = Cardinality(Covered(o))`. A notice applied once more adds units
  that were not covered, and all covered units were executed.
- `IntentJournal_proofs`. The invariant is a conjunction of named parts: `LockHeld` (mutual
  exclusion of cycles), `UsedIntents`, `AnswerCovers` (KIS's answer shows an order that looks like every intent still to close whose order is live), `NoneBeforePost` (a run past the gate finds no live order),
  `LiveIsActive`, `RepliesBacked`, with `OneLiveOrder` and `SubmittedForCause` themselves.
  `AnswerCovers` is the heart: it is why failing a listed intent without a matching row is
  sound, and it is what overlapping runs and missing or different rows break, hence `exempt`. `JournalKeepsPromise` maps
  every step to a step of `OrderOnce` or a stutter.

- `TraderStore_proofs`. The invariant is the conjunction of `OnlyHolder` (only the holder of
  `_CYCLE_LOCK` is inside a cycle), `NoticeHeld` (what a notice in hand has done), `TodoPending`, `FilledOnly`, `HalfSaved`, `FreshCovers`
  and `FreshOnce`. The argument: a copy of the two files that was read under the lock covers
  what is on disk until its owner writes (`FreshCovers`), and holds each fill once
  (`FreshOnce`), but for the one order of which the handler has added the fill and not removed the entry (`OnceIn`); between the two writes
  of a save the ledger file is the copy of its writer (`HalfSaved`). Everything each thread has in hand is one
  predicate `Part(t)`, so a step of one thread only has to say what it does to its own part
  and why the files it wrote leave the others' alone (`InvIsNamed` takes the parts together
  again). From it: `FillsRecordedOnce`, no fill is booked twice, and `FilesKeep`, no save
  removes what an earlier one recorded. The actions that write a stale copy are excluded from
  both.

- `KillSwitch_proofs`. `SwitchIsExact` and `WarnedBuysNothing` share one invariant: `OnlyHolder`
  (only the holder of the lock is inside a cycle), `ChangeKinds`, `ChangesAgree` and `WarnedStop`. The
  argument: changes that overlap without `mixed` are all of one kind, and then their copies, and the
  temporary file whoever wrote it, agree on what the switch is to be (`ChangesAgree`); so it does not
  matter whose content a thread moves into place, or that another one then fails. A day's
  record keeps the flag it loaded, which without `mixed` nothing changes before it is written. A cycle asked for
  after an activation then finds the flag at its gate, however long it waited (`WarnedStop`).

- `CommandBus_proofs`. `LostOnlyForCause` needs to know where marked commands are:
  a stream whose connection works is the one the client reads (`WorkingIsRead`), and a stream before its query
  has sent nothing that the query's rows could replace (`OpenedSentNothing`). `Accounted` is the one way to lose nothing:
  what a step marks, or what was on its way, is hit, executed or on its way after it. `SettledForGood`
  needs that the client, the only one to acknowledge, has no command in hand while it polls
  (`PollsEmptyHanded`, `ReadUnsettled`). `ExecutesOnce` counts. A command has two ways to the client: by a reader of the pending rows,
  the query of a stream or a poll (`ByReader`), and by the queue of a stream, from the commit on (`ByQueue`). `Counted`: executions so far plus ways
  still open are at most one, two if they `crossed`. It needs that a command has one place in one queue (`QueueInv`), that
  a pending one was never sent (`PendingUnsent`) and that what a poll has read was never executed (`PolledUnsent`).

- `Catchup_proofs`. The invariant has `Settling` (what is to be settled is closed), `Timing` (a KRX cycle
  that is due, planned or under way is of today and in its interval), `Sorted` (which kinds of job are where),
  `Ordered` (the entries are in the order of their days, and those of a cycle are of its session), `Once`, `Chances`
  and `Done`. The heart is the lemma `LastDecides`: since the log is ordered, the
  last entry of the KRX cycle is of today exactly if some entry is; therefore what `_last_of` reads
  tells whether the day's cycle has been run. `Once` then says that a cycle is in the log, under
  way or planned in one place only, and `Done` that one which could be run is in one of them. The US cycle, whose session
  has two dates here, has an invariant of its own, `UsInv`: a US cycle that is due or planned is of the session that its interval says
  (`UsTiming`), one of its entries is the last (`UsLast`), and on a date it is in one place only (`UsOnce`).

- `Server_proofs`. `CacheInv` is the property with `LoadsAlone` (one request loads at a time, holding the lock) and
  `Noted` (what is cached was built from a noted generation that is not ahead of the file): so a part that lacks a
  change can differ from the file only in the number noted. `AlertInv` has `Alone` (without an overlap one check runs, and the settings it
  read are those committed) and `OnRecord` (what the user has heard is on record, or was misread as ended), which the records and recoveries of
  every alarm keep in step. `PreviewInv` has `BuildersBehind` (no builder is ahead of data or row, and the
  job, which refreshes in the same thread, is never behind the data), `RowAccounted` (a preview in the latest row older than the data announced means
  that the job is still to write, has failed, or a late builder wrote last) and `PageLatest`.
  `TimeInv` is about the snapshots that came: each of them before now, and one of a finished run with the market and day of its own time;
  the property then follows by cases on the schedule. `ScreenInv`: a job at work began today (`RunsToday`), and the fields of a job
  without an excuse are in the table or will be written into the one of today (`ComesToday`).
  `FreshnessInv`: no data are of a session that is not over (`DataOfThePast`, from `LastSessionGrows`). `FetchingInv`: no candle is
  of a day to come, the file is whole up to its last date (`IsWhole`), and before the last good pass after a close all candles
  are final (`IsFinal`); `Storing` says what a merge does to both.

  `EngineInv`: a stop that is done sold a part or nothing (`FiredIsKnown`), and after a close a position beyond its stop is about
  to be sold for it or was bought since (`StopsSeen`), through the two folds of the day; the list of purchases names symbols
  of the universe (`BuysKnown`). `RebalanceInv`: what a strategy without leverage and shorts has and wants is not
  negative (`Solvent`, with the sums of its worth), and of an exited symbol none is wanted, none is held once the target is executed, and
  meanwhile a short position of it is being covered in the order of the names (`NoneWanted`).

  `AccountInv` relates what the entries have or had, `Kept(s) == Total(s) + deducted[s]`, which a comparison does not change, to what was
  at KIS: at most `held[s] + sold[s]`, and at most `seen[s] + sold[s]` for what was read, since sales by hand are never taken back.
  The work is in `PlanFits`: quotas rounded down are never more than the target together, the smallest entry gets the rest, so the
  plan sums to the target exactly; a plan above an entry's size is cut, so what is left is at most the target, and with two
  entries the smallest is never planned more than it has. With three it may be, which is why `split` is an exception.

- `Local_proofs`. `SyncInv` adds to the property `SentFirst` (a thread that is about to remove the file has delivered what it read) and
  `HeldTaken`. `RouteInv` needs `ReservedKnown` (the stock of an order to be reserved is in the index, unless
  its exchange was dropped); otherwise an order is sent home by what the index knows at that moment, and `unsure` remembers when it did not know. `PostInv`: a call that is not over has made no order, since the only answer after which a
  posted order is tried again is the one by which KIS refuses it.
  `WindowInv`: the throttle's list, filtered as `acquire` does, is what the window really holds (`ListIsWindow`); a thread that waits
  does so with the lock, and its wait reaches the end of the first place of a full window (`SleepersWait`). So ticks make the window smaller only, and a
  place is taken when one is free.
  `StreamsInv`: only a thread that slipped past a stop is beyond the test of the flag afterwards (`PassedSlipped`), and a message that came after the stop is in the hands of one only then (`LateAfterStop`).
  `OrderStreamInv`: on the wire is the answer to the subscription first, then notices in order and later than those handed on
  (`WireInOrder`), and the client has the key of an accepted subscription or reads it next (`KeyFirst`).
  `DatasetInv` holds as long as no older file was put in place: contents only grow from the noted tag over those on the way to the
  files of the server (`Growing`); a refresh has every file it has finished (`OnItsWay`), and those of the noted tag are there also while it
  goes on (`NotedIsThere`).
  `EntriesInv`: what waits for a key and what is booked on it are of one symbol (`OneSymbolSoFar`); what waits for a strategy of one symbol is of that of the
  preview (`WaitsForPick`).

  `AttributionInv`: while every fill is in the log and nothing is sold that was not bought, the open lots of a key cover the shares
  bought and not yet sold, in their order (`Covers`: a function cuts that interval into the lots, each of one price), and the profit is
  that of the shares sold (`Matched`). `TakenIs` says what a sale does to lots that cover an interval: it pairs its shares with the first of them and leaves lots
  that cover the others, by induction over the lots (`TakesNext`).

Proved and not listed with the runs: the type invariants, `LedgerPositive`, `GateCoversLive`, `SubmittedForCause`, `SettledStays`,
`SettlesClosed`, `PostedOnce`, and for `Screens` and the others whose types the invariant names, those types.

The inductive invariants were checked by TLC on the runs' instances before they were proved, where TLC can evaluate them; it
cannot enumerate the functions in `Covers` nor the sets of sequences in the types.

Only model-checked: `HandlersReturn`, `StuckIntentsClose`, `LossTriggers`, `PendingDelivered`,
`FileMoves`, `HolidayArrives` and `HeldPriced`. They are liveness under fairness, which is out of the provers' reach
here and stays with TLC. The composition of two modules is not proved either: each theorem is about the specification of one module with the
others as its environment.

## 5. Not modelled, and the plan

Not in the modules above: the American
reserved orders, which take the same path through `_submit_buy` and
`_after_submit`; the rounding of a limit price to the tick and the daily price limit; the variants of the exit rules and the daily reset of `_sold_today`; the heartbeat job
and PAUSE_AUTO; torn lines in the journal; costs, interest and all weightings but the equal one in the backtests.

Whole parts that are left out, with the reason: blocks, expressions and indicators are pure functions on floating point numbers; the screener
and the compiler of natural language keep no state of their own; the fundamental feeds and the masters are parsing and I/O; the oil
futures page is an analysis without orders; windows, tray, updater and the web front end are presentation.

In the order of importance, next:

1. `Accounts`: the pairing of a device and the versions of a strategy. Two polls of one code between its check and its mark; two
   edits that read the same last version number.
2. The composition of `OrderStream` with `OrderFills`, and of `Account` with `TraderStore`: a notice lost with its connection and found by a
   poll; a comparison that starts while the loop sells.
3. Theorems: abstract specifications beside `OrderOnce`, of the ledger (a set of recorded fills that only grows, for `TraderStore`) and of the
   command channel (a command is executed at most once or lost for a named cause), with their refinements; lemmas on the arithmetic of the
   split with three entries and more.
4. Tick rounding and the price limit as operators with lemmas.
