# A verification project for stonxx / lumibot

TLA+ specifications of the order handling, the backtesting broker, the strategy
executor and their neighbours in this repository, the TLC configurations that
check them on small instances, and TLAPS proofs of what holds for every
instance. Paths are relative to `src/`; `lumibot/` is left out where it is clear.

## 1. The system

A *strategy* is a Python object with lifecycle methods. A *strategy executor*
thread calls them; the strategy submits orders to a *broker* object, which talks
to a brokerage and keeps *trackers*, lists of Order objects by state. A *stream*
thread brings trade events to the broker, and the broker puts them into the
executor's queue. In a backtest the *backtesting broker* plays the brokerage, in
one thread. `stonxx_india_bot.py` is a strategy that plans orders after the close
and submits them at the next open, and keeps its state in a JSON file.

| component | state it keeps | operations | talks to |
|---|---|---|---|
| `_LazyEvent` (`entities/order.py`) | flag, lazily made `threading.Event` | `set`, `wait` | strategy threads wait, the stream thread sets |
| Order (`entities/order.py`) | status, identifier, two events, transactions | `set_new`, `set_canceled`, `set_error`, `add_transaction`, predicates | shared by all threads |
| Broker (`brokers/broker.py`) | eight `SafeList`s of orders, positions, `_hold_trade_events`, `_held_trades` | `submit_order`, `_process_*_order`, `_process_trade_event`, `process_held_trades`, `sync_positions`, cleanup | stream thread, executor, strategy |
| PollingStream (`trading_builtins/custom_stream.py`) | queue of 100 events | `dispatch`, `_run`, `_poll` | one thread per broker |
| Tradier adapter (`brokers/tradier.py`) | "first iteration" flag | `_submit_order`, `cancel_order`, `do_polling`, event handlers | the brokerage by HTTP |
| Strategy executor (`strategies/strategy_executor.py`) | event queue, scheduler, dates of the daily methods, cash | `sync_broker`, `process_queue`, `check_queue`, `_run_trading_session`, `gracefully_exit` | broker, strategy, trader |
| Trader (`traders/trader.py`) | pool of executors | `_start_pool`, `_join_pool`, `_stop_pool` | executors |
| Positions (`entities/position.py`, `brokers/broker.py`) | `_filled_positions` | `sync_positions`, `_set_cash_position` | executor and stream thread |
| Backtesting broker (`backtesting/backtesting_broker.py`) | trackers, futures lots, cash | `_submit_order`, `cancel_order`, `process_pending_orders` and the fills it sets off, settlement of expired and assigned options | executor, data source |
| Download queue client (`tools/data_downloader_queue_client.py`) | semaphore, two tables of requests | `execute_request`, `cleanup_completed` | any thread, the downloader by HTTP |
| Drift rebalancer (`components/drift_rebalancer_logic.py`) | a table of one iteration | `calculate`, `rebalance` | strategy, broker |
| Daily swing bot (`example_strategies/stonxx_india_bot.py`, `state_manager.py`) | `self.state`, the JSON file | plan, submission, fill, `save_state`, `load_state` | two scheduler threads, the stream thread |
| Data sources, vendor helpers, agents, scripts | tables and caches | I/O | |

What is hard in it:

* **Threads share state without locks.** A `SafeList` locks one call; the checks
  around the calls are not atomic. `_LazyEvent` reads and writes two attributes
  from two threads. `_hold_trade_events` and `executor.scheduler` are plain
  attributes that several threads read, test and write.
* **One order, several objects.** Orders compare by identifier, but the status
  and the events belong to the Python object. The submission, the poll and the
  synchronisation can each make an object of the same order.
* **Snapshots.** A poll compares a list fetched from the brokerage with trackers
  read later, and its conclusions are queued and acted on later still. A backtest
  looks at orders from a list taken before the first of them is filled. The
  positions are walked by index while entries are removed.
* **Lost events and calls.** A full queue drops events; a failed fetch looks like
  an empty account; a lost reply is asked for again.
* **Two handlers of events.** During a synchronisation the stream thread puts
  events aside and the executor handles them; `process_queue` runs on two threads.
* **Chains of consequences.** One fill in a backtest cancels a partner, starts
  children, closes a parent and cancels what was to close the position.
* **Crashes.** The bot's memory, its file and the brokerage change in three
  different steps. An exception of a strategy method takes the scheduler down
  while the loop that needs it goes on.

Each of these is a row under `hazards` in `PROJECT.json`, with the properties
that would catch it going wrong.

For each component, what makes it correct: waiters wake when, and only when,
there was something to wait for (`_LazyEvent`); an order is in the trackers its
status says and its fill is told once (broker); every difference between
brokerage and trackers is noticed at last (polling); putting events aside loses
none, and what two handlers leave behind is repaired (synchronisation); events are handled
and the cash is put right (executor's queue); one submission of a repriced order works
at a time (ladder); iterations run alone, on every day, and end when stopped (lifecycle);
fills are fair, the books agree and dependent orders depend (backtest); the bot
comes to see what it holds (positions); a request ends with its own answer
(downloads); the account comes to its targets without debts or short sales
(rebalancer); what the file says can be continued from (bot).

## 2. Modules

```
LazyEvent             <- MCLazyEvent, Broker_proofs
OrderTracking
  PollingBroker       <- MCPollingBroker, Broker_proofs            => OrderBook
    SyncBroker        <- MCSyncBroker, Broker_proofs
FillPrices, FuturesLedger
  BacktestingBroker   <- MCBacktestingBroker, Backtest_proofs      => ContingentOrders
                                                  (with Sums)
OptionExpiry          <- MCOptionExpiry, OptionExpiry_proofs (with Sums)
Executor              <- Executor_proofs
SmartLimit            <- Executor_proofs
Lifecycle             <- MCLifecycle, Lifecycle_proofs
PositionSync          <- MCPositionSync
DownloadQueue         <- MCDownloadQueue, DownloadQueue_proofs
DriftRebalancer       <- MCDriftRebalancer, Strategies_proofs (with Sums)
StonxxBot             <- MCStonxxBot, Strategies_proofs
```

`A => B` is a refinement: A implements the abstract specification B.

**LazyEvent.** `_flag` and `_event` of one `_LazyEvent`; a program counter for
each setter and each waiter. Every read or write of an attribute is an action
(`RaiseFlag`, `LookForEvent`, `FireEvent`; `CheckFlag`, `ReadEvent`, `Acquire`,
`Reread`, `Allocate`, `Recheck`, `Publish`, `Unblock`), for this is where Python
may switch threads. Waits are without a timeout, as in `wait_for_order_*`.

**OrderTracking.** The tracker lists as sequences, and the handlers
`_process_new_order`, `_process_canceled_order`, `_process_filled_order` and
`_process_error_order` as operators. An Order object is a record of an
identifier and of who made it (strategy, poll, sync); `status`, `registered`
(`_new_event`), `closed` (`_closed_event`) and `fills` are functions on objects.
`submitted`, `open` and `new` are one status: `equivalent_status` never tells
them apart.

**PollingBroker** extends it with the brokerage (`market`, `dropped`), the
strategy's submissions, the stream's queue and the poll. A submission is cut
where the code is: accepted by the brokerage, tracked, NEW dispatched
(`tradier.py:706-710`). A poll is fetch, first snapshot of the trackers, one
step per record, second snapshot, one step per missing order, end. Only the stream
thread runs trade-event handlers here, so each is one step. `CancelOrder` is
`cancel_order`.

**OrderBook** is what a strategy may rely on for one Order object, without any
mention of threads or brokers: it opens once, a fill is final and told in the
step that records it, a canceled order can only turn out to have been filled or
rejected. `PollingBroker` implements it object by object (`ImplementsOrderBook`,
`Orders <- Obj, state <- status, told <- fills`).

**SyncBroker** composes the polling broker with the executor's `sync_broker`.
The stream thread now takes an event, reads the flag, and appends or handles in
separate steps; the executor raises the flag, looks at the held list, drains
it, pulls the orders, compares, adopts, replays, cancels what is missing,
lowers the flag and drains again, for ever.

Both threads run the `_process_..._order` handlers, and nothing locks these, so `job`
has the handler that each thread is in and where: `TestNew` (the tests of
`_process_new_order`, `broker.py:1359-1365`), `Leave` (the removals), `Mark` (the status
and the event of the object) and `List` (the append, line 1372). The tests
are one step and the removals another: of the lists that are searched or left, whatever
the other thread does between two of them ends as if it had come before or after them.
`Rewrite` is the write of the record's status that ends a poll's comparison
(`tradier.py:1404-1407`), after whatever the executor did since the comparison. Objects
that one thread parses of one order share a name (`by`), also when a second is registered
while the first is between two lists.

**FillPrices** and **FuturesLedger** are the pure algorithms of the backtest: at
what price a market, limit, stop, stop-limit or trailing order is filled by a
bar or a quote, with what the order remembers from one period to the next; and
the lots of a future, first in first out, with margin and profit.

**BacktestingBroker** is `_submit_order`, `cancel_order` and
`process_pending_orders` over them. `book` is everything the broker holds
(trackers, positions, lots, cash, cash of fills that the executor has not taken
off its queue, transactions). A period begins with `StartPass`, which takes the
snapshot; `ProcessOrder` is one order of it with the whole chain its fill sets
off (`ExecuteFilledOrder`: partner, children, cash, trackers, position, other
exits, parents, OCO placeholder). `BookCash` is the executor taking fills off its
queue: until `EndFirstIteration` (`first`, the strategy's `_first_iteration`) `process_event`
returns at once (`strategy_executor.py:540-547`), and `skipped` counts the cash that is lost
by it. Orders are simple, bracket, one-triggers-other,
OCO, multi-leg, and packages with a smart limit.

**ContingentOrders** is what a backtest promises about dependent orders, as four
sets of orders: exits wait for their entry, of two linked exits one is filled. The
refinement mapping reads the sets off statuses and trackers
(`ImplementsContingent`).

**OptionExpiry** is what becomes of options in a backtest. `account` is the cash, the
cash of fills still in the executor's queue, and for each asset what is held and what is
on order. `agenda` is what the executor still does today, in order: methods of the strategy
(`opening`, `iteration`, `hook`, `night`), `process_pending_orders` (`pending`, followed by
the passes for early assignments and, with daily data, for expired contracts), the sleep,
and the waits for the closing minutes and the close. A pass settles one position per step
(`Assess`, `Settle`), by what the ones before it have left: worthless, exercised or
assigned with a delivery at the strike, or settled in cash; a missing price of an
underlying ends the backtest in the middle of the pass (`Abort`).

**Executor** has the two threads that drain `executor.queue` (`check_queue`, and
the trading iteration on the scheduler's thread), `process_queue` cut at its test
of `empty()`, its blocking `get()` and the handling, the lock around the cash, the
first iteration, in which events are skipped, and the cash half of `sync_broker`. The
queue holds fills and cancels. An exception of a handler ends the check thread.

**SmartLimit** is the ladder of one smart-limit order that `check_queue` drives: `order` is
the Order object, `subs` its submissions at the brokerage. A step is repriced by `Modify`,
or by `CancelToReplace` and `Resubmit` if that fails, while the brokerage fills the order and
the strategy cancels it. A cancel is a request only (`tradier.py:399`): a submission goes on
working as `canceling` until the brokerage cancels or fills it, and the resubmission does not
wait for that (`strategy_executor.py:822-829`). The stream's thread fetches rows, takes
the row with the object's identifier for the object's, compares, and queues what it found.
What it queues names the object and not the identifier (`tradier.py:1392`, `1423`), and the
handlers look at the identifier no more (`broker.py:1383-1390`, `1413-1420`); `misled` remembers
that the object was ended in this way while its submission was working.

**Lifecycle** has the executor's own thread (`run`, `_run_trading_session`), the
schedulers it makes, with the trading iteration on each one's thread, the trader's
main thread, and the clock as a day in five phases (night, before the opening,
open, the last minutes, closed). A daily method is called in two steps (the test
of `stop_event`, then the method). An exception sends its thread through
`on_bot_crash` and `gracefully_exit`, which reads `executor.scheduler` anew in
each of its steps. Several threads may be in it at once; `overlaps` counts the
exceptions raised while another was handled.

**PositionSync** has `_filled_positions` as a sequence of objects, the executor's
`_set_cash_position` and the `sync_positions` of executor and stream thread, one
step per look at an entry, update, append and removal. Removal is by identity; the
index of the walk is not moved back.

**DownloadQueue** has the threads in `execute_request`, the two tables behind the
client's lock, the semaphore, and the server's jobs. Steps are cut where the lock
is released or the server is called.

**DriftRebalancer** is one iteration in steps (synchronise, calculate, one order
each for the sells, read the cash, one order each for the buys), the brokerage's
fills and the market's prices between them: in a backtest only between iterations,
live at any time. Weights are integers over `Whole`, money is in cents. `todo` is the set of
rows that a loop has yet to visit; it takes the one that precedes the others (`IsNext`).

**StonxxBot** is the swing bot: `generate_after_close_plan`,
`submit_pending_orders`, `on_filled_order`, `save_state` and `load_state`, called
by two threads for plans and batches and a third for fills; kill and restart at
any step. A paper order reads the cash in one step and books the deal in
another, a save dumps in one step and replaces the file in another, or fails,
which the code only logs. In live trading the orders go to a brokerage that fills
them at once.

`MC...` modules only give values to constants and, in `MCSyncBroker`, narrow the
initial states and bound how far one of the two is followed. Operators marked `Mutant:` are wrong
variants of the definition that follows them; they are used by no specification,
only to show that a property would notice the error (`PROJECT.json`, `mutants`).
Each module also has its type invariant; those of `LazyEvent`, `PollingBroker`,
`SyncBroker`, `Executor`, `SmartLimit`, `Lifecycle`, `StonxxBot`, `DownloadQueue`,
`OptionExpiry`, `DriftRebalancer` and `BacktestingBroker` are proved, that of `PositionSync` was checked by
TLC on the instance of its run and is not listed among its properties.

### Abstractions

* A handler of a trade event is one step where one thread alone runs handlers
  (`PollingBroker`), and several in `SyncBroker`. Its calls into the strategy
  (`on_filled_order`) go through the executor's queue and are not waited for.
* The records of a poll are looked at in any order.
* A refused submission has no effect at the brokerage.
* On the polling side there are no partial fills, child orders or modification (a
  polling broker never reports a partial fill); child orders are in the backtest.
* In the synchronisation of orders, whether an order is young, or a market order,
  is chosen freely. Cash and positions have modules of their own.
* Prices of the backtest are small integers, `0` for a missing or unusable one; the
  bar or quote of a period is chosen from a set. Fees, slippage, crypto
  and daily bars are left out. Whether the net price of a package with quotes is valid
  and within its limit (`backtesting_broker.py:3711`, `3766`) is chosen freely; if not, its
  legs are filled at their opens (line 2533).
* Of options: one iteration comes before the closing minutes and perhaps one in them;
  orders are plain ones, one at a time for an asset, filled at the price of the moment
  if at all; positions of a pass are taken in any order. The model begins with the first
  iteration: methods before it, and the cash that is skipped until its end, are in
  `BacktestingBroker` only. Fees, a second source of prices,
  a source other than a pandas one, and a sleep over several days are left out.
* The smart-limit ladder is a number of steps in time; a repricing may find no quote
  or the same price. A reply to a submission is not lost, and a submission is one step
  (`PollingBroker` has it in its parts). That `check_queue` ends, or waits in `get` for good,
  is a step of `SmartLimit` that may come at any time (`Stop`); `Executor` has the reasons.
* In the lifecycle no thread is held up for a whole phase, with the exceptions that the
  code makes likely: `on_trading_iteration` and `before_market_closes` may run over
  the end of one. The scheduler's job fires at least once while the market is
  open. Other races of APScheduler's own locks are left out. Market hours are those of
  `Broker.market_hours`; its session turns over at UTC midnight.
* `Poll` of the download queue makes its status call (`:646`) before it takes the lock
  (`:663`); the two are one step, so that an answer never is older than what another thread
  has written meanwhile. An old `open` written over an end would be put right by the next
  poll. A downloader's answer that is merely late counts as a fault; retries that change
  nothing are stutters. The forced correlation ids carry a second of time in the
  code; two threads that time out in one second share it, which is the case modelled.
* The rebalancer trades whole shares and every fill is a whole order.
* The bot's signals and sizes are chosen freely; one lot is bought at a time.
  A state is dumped at one moment: the only thread that may change it during a
  dump is in a second batch, whose orders the dumped plan no longer holds.
  `paper_cash -= x` is one step, as no call separates its read from its write.
  A fill that the process was not told of before it was killed is not told later:
  the first iteration after a restart replays old fills without `on_filled_order`.

## 3. Runs

| run | instance | shows |
|---|---|---|
| `LazyEvent` | 2 setters, 3 waiters | no wait returns before `set()`, and the blocked waiters share one Event |
| `PollingOne` | 1 order, all outcomes, 1 failed fetch, queue of 1 | fills once, trackers consistent, the order book implemented, and under fairness fills and ends are recorded at last although events are dropped |
| `Sync` | 1 order that is filled or canceled, an old one that is listed or not, synchronisations for ever, queue of 1 | no fill is made up or lost, held events are handled, what two handlers or a stale record left behind is swept out and corrected for good |
| `Executor` | 3 fills, 1 cancel, 2 faults | events are handled, and the cash is corrected |
| `SmartLimit` | 3 ladder steps, 2 faults | one submission works at a time and the order ends, unless the object was ended by what was known of an earlier submission; the first one never is |
| `Lifecycle` | 3 days, 2 exceptions, 5 schedulers, a stop | iterations run alone but for one more per exception raised while another was handled, each day is traded whatever crashed, a stopped strategy ends and trades no more (with the same exception) |
| `Positions` | 2 assets, 2 threads, 2 trades, 1 failed request | the bot comes to see what it holds |
| `Backtest` | 15 orders in 7 roots of every class, 2 submitted, 2 assets, 7 kinds of period, 3 periods | books and cash agree with the fills, fills are fair, a flat position has no exits left, dependent orders are as promised |
| `Download` | 3 threads in four workloads, 2 slots, up to 3 faults | every request ends, with its own data or a failure the server had |
| `Rebalance` | 3 assets, 8 modes, 3 prices, 2 accounts, 2 moves, 1 failure | no debts beyond fees, no short sales, rest at the targets |
| `Expiry` | a call, a put, an index call and the stock, 2 trading days with an expiration between them, 4 markets, 3 orders | no position outlasts its settlement, no way of settling makes or loses money, exercises are supported but for cash that is in the queue |
| `StonxxBot` | 1 symbol, 3 days, 2 kills | the saved books fit the saved plan, paper cash is short only where two threads of one process have submitted one order, submissions are bounded, no order of the plan in force is lost |

All runs are expected to pass. Bounds, and why they are enough.

* *Polling and synchronisation.* No handler looks at more than one identifier at a time,
  and the safety properties of the polling broker are proved for any number of orders
  (below), so its run has one. A queue of one is filled by one order: the case in which
  the queue of 100 is full. Failed fetches are bounded so that polls succeed in the end.
  Synchronisations are not bounded. `MaxHeld` keeps the stream from polling while so
  many events are held. The races of `Sync` are those of one order; the old one beside
  it is either no longer listed, and out of everything, or listed, so that the list is
  not empty and the other order may be missing from it. That half is followed through
  the first iteration (`OldListedFirst`), in which the old order is replayed; no
  behaviour of the first half is cut.
* *Executor.* Three fills meet two threads and a synchronisation between the read and
  the write of the cash; a fault is a lost balance or an exception of a handler.
* *SmartLimit.* Three steps are two replacements and the final cancel, so that news of
  the first submission may reach the object under the second's identifier or the
  third's; a fault is a lost modify, cancel or submission.
* *Lifecycle.* Three days are the start, a day after a crash and the day after that; two
  exceptions meet each other in session, handler and next session, and one may be raised
  while the other is handled: then two iterations at once are reached. One scheduler is
  made per session and per crash, so five are enough (`LifecycleAssumption`); three
  exceptions and six schedulers were also checked once.
* *Positions.* Skipping needs two entries in succession, the cash entry is a third.
* *Backtest.* Two roots meet in one snapshot; a bracket, an OCO and a package have their
  children besides. Three periods are entry, exit, and what was left over. Bars rise,
  fall and open with a gap beyond stops and limits; quotes have two sides or a bid, one
  of them above its bar.
* *Expiry.* The put expires on a day without trading, the other two on the first day.
  The cash exercises the call once and not after another purchase, shares cover the put
  or do not, contracts are of 2 shares; prices make calls, puts or neither worth
  something, carry a premium or not, or are missing. Three orders are two options and
  the stock that one of them needs, or a position, its exit and another. Data are daily
  or not.
* *Download.* The id changes after the third timeout: four workloads of threads and
  faults keep the product small, and timeouts are told apart up to six.
* *Rebalance.* `FeesAreSmall` holds of the prices. Two assets with a target and one
  without; prices double, halve a third, and return; weights sum to the whole, to less,
  and include a short one.
* *Bot.* Two kills are a batch carried out again twice. Three days are plan, purchase,
  and sale at the following open; prices of 1 and 2 with a seed of 1 make an order
  affordable or not after it was planned.

`CHECK_DEADLOCK FALSE` stands where a system may really stop: all waiters have returned,
all requests have ended, or all days and periods of the bound are over. In `Sync` the
executor never stops, and deadlock is checked.

Fairness. The stream thread is a `while` loop that ends only with the broker:
weak fairness of `Stream`. `_submit_order` has no loop between the response of
the brokerage and its return: weak fairness of its steps. In `LazyEvent` a `set()`
that has begun, and a waiter that is not blocked, go on (no run needs it). The executor
synchronises before every iteration (weak fairness of its steps in `SyncBroker`) and runs
iterations for as long as the strategy does; the thread that waits for the
executor's lock gets it in the end, as the other holds it for three statements
(strong fairness of `ReadCash`). In `SmartLimit` the check thread, unless it has stopped,
and the stream's polls go on, and a cancel that the brokerage has accepted takes effect
unless the fill comes first. In `PositionSync` both threads are driven by timers
and survive exceptions. In `DownloadQueue` threads run, a wait that can learn nothing
reaches its time limit (strong fairness, for it is interrupted by polls), and the server
ends each job that does not hang. In `DriftRebalancer` iterations come again and the
brokerage answers cancellations and fills what the market fills. In `Lifecycle`
threads go on, methods of the user return, and time passes. The brokerage of the
polling broker is not fair: liveness is conditional on what it does
(`market[i] = "fill" ~> ...`).

### Further disagreements between code and documentation

The following were seen in the models, each with a property (in
parentheses) that its module states and TLC violates when it is added to the run, or in the
reading that the modules needed.

*Order events and trackers.* A `set()` between the last look at the flag and the
publication of the Event is lost (`SetWakesEveryWaiter`). When the poll takes an order
in first, the object that the strategy holds never closes (`SubmittedObjectCloses`). An
order submitted during a poll is reported canceled (`CanceledIsNotOpen`). A held fill is
found again by the poll and told twice (`ToldOnce`); a late canceled event undoes a fill
(`FilledStaysFilled`). The first poll skips orders that were over before the program
started, "to avoid ingesting large historical order lists" (`tradier.py:1322`), and the
second poll takes them in; an expired order is noticed only once the brokerage stops
listing it; if at every poll more than 100 records differ, those at the end of the list
never find room in the queue. `process_held_trades` drops the error of a held event.

With the executor and the stream thread both in the handlers, an order that was filled or
canceled may be among the outstanding ones until a synchronisation sweeps it out, and
`_new_orders` may hold two objects of one order (`OverIsNotOutstanding`): the tests of
`_process_new_order` and its append are apart, though it says "Don't duplicate orders in the
new orders tracker" (`broker.py:1357`). The poll's write of an old status, or a registration
that comes late, opens an object again that was over, until a later poll corrects it
(`NotReopened`).

*Executor.* `process_queue` tests `empty()` and then blocks in `get()`
(`strategy_executor.py:644`): when two threads see the last event, one waits for the next,
and the iteration is not called until some event happens (`IterationRepeats`), nor the
ladder driven. The cancel before a replacement is only requested, and the same
Order is submitted again at once (lines 822-829): the old submission may be filled and
the new one as well (`ExecutedOnce`), while the design "repeatedly reprices the same logical
order" (`docs/investigations/2025-12-30_SMART_LIMIT_ORDER_DESIGN.md:93`). News of the old
submission ends the object under its new identifier (`NeverMisled`); the new submission then
works on, is no longer repriced, and is not canceled at the end, since `cancel_order`
returns for an object that is over. A fill that the balance
already contains is subtracted once more until the next synchronisation.

*Lifecycle.* `gracefully_exit` after an exception ends the check thread, "which will run
continuously in the background" (`strategy_executor.py:1878`), and closes the broker's
connection; the loop then makes the scheduler again but not these (`CheckerRuns`). Live,
`before_starting_trading` is called on the first day only (`StartsEachDay`), since
`should_we_stop` is computed before the loop, which therefore goes on over the close;
`strategy.py:4925` proposes it for "daily resetting variables".
`before_market_opens` is called in an open session when the bot starts in it
(`OpensBeforeOpen`); `after_market_closes` while an iteration still runs
(`ClosedAfterLast`); closing methods twice, when the jobs are seen gone before the
scheduler is (`ClosesOnce`). Two exceptions handled at once can leak a scheduler: the crashed
iteration's thread forgets the one which the executor has made meanwhile, and its iterations go on
next to those of the one after, also behind the strategy's end; each such exception leaks one at
most (`Alone`, `NothingAfterEnd`). After `stop()` the executor's thread may sleep until the next
opening or close. `get_time_to_open` takes local time for UTC: in zones east of it a bot
started before the opening sleeps to that of the next day.

*Positions.* Two threads append one asset each (`OnePositionPerAsset`), though the comment
has it "position does not exist in lumibot" (`broker.py:865`); the Schwab adapter
overrides `sync_positions` for that reason. The walk leaves the entry after each removed
one until the next synchronisation, while the docstring says "Remove any lumibot positions
that are not at the broker". Positions taken in by the poll belong to "Unknown" until the
executor's synchronisation.

*Backtest.* A package fills the legs before one that has no data and fills them again in
the next period (`LegFilledOnce`, `backtesting_broker.py:3902`; "filled atomically",
line 2008). Parents whose children were canceled one by one stay open (`ParentsClose`); an
OCO parent that was canceled may become filled. A pending bracket entry is canceled when
another order makes the position flat (`EntriesSurviveFlat`). A stop that trails by a
percentage follows the price down again. `TrailRatchets` holds for amounts. Before the
end of the first iteration `process_event` skips every event, "because in this case we are
most likely processing events that occurred before the strategy started"
(`strategy_executor.py:541-542`): the fill of an order that `initialize` or
`before_market_opens` submitted is skipped too if the wait for the opening drains the queue, and its
cash is never booked (`NothingSkipped`).

*Options.* Whether cash supports an exercise is read before the cash of earlier fills is
booked (`_can_support_long_exercise`, `backtesting_broker.py:1503`), so that an exercise
after a purchase, or the second of two in a pass, leaves a debt (`ExerciseIsAffordable`);
the policy asks to "avoid silently forcing unrealistic unlimited negative cash/short stock
by default" (`docs/OPTIONS_EXPIRATION_ASSIGNMENT_POLICY.md:44`), and for contrary exercise
where the code settles in cash. A pass finds positions, so an open order for an expired
option that is not held is not canceled; it may fill in the night after, and what it
buys is settled at the price of the next day. A sell order for the stock that is larger
than what a delivery has left of it opens a short.

*Downloads.* Two threads with one correlation id submit twice (`:417`, "no duplicate
submissions", line 210), and the death of one job is told to the thread that waits for the
other (`DeathIsOwn`). After a 404 the waiting thread recovers by its timeout only; a failed
info is never cleaned up.

*Rebalancer.* With relative drifts an asset at exactly twice its target has a drift of
-1, which is also the mark of an asset to sell whole
(`drift_rebalancer_logic.py:388-389`), though "we just need to adjust our holding" (line
315): all of it is sold, and half bought back (`OnlyAdjusts`). Options are valued
without their multiplier of 100, though quantities are computed with it. Fees are not
deducted between two buys, and what is bought of an option may take all the cash and
leave none for its fee (hence the bound in `CashCovers`), nor are they looked at in a
sale (hence `FeesAreSmall`). A short position without a target, or of twice its target,
is bought back whole whatever the cash (line 454): with weights of 1.5 and -0.4, and a
price that doubles, TLC finds an account of 15 that owes 46 after the fill, so
`CashCovers` is about rebalancers that must not go short. An excess that would take
every share is never sold (`TakesAll`); live, an order filled late is sold a second time
from stale positions.

*Bot.* A doubled sale leaves the account short (`NeverShort`).

## 4. Proofs

`Broker_proofs` has four parts. The first has the lemmas on the trackers which the
others rest on: what removal of the first match and `Append` do to the identifiers of a
list, and what each handler of `OrderTracking` changes and leaves alone. The second is
about `PollingBroker`, for any set of orders, queue size, number of failed fetches and set
of outcomes: `TypeCorrect`, `FillsOnce`, `OutstandingActive`, `NewOrdersAreDistinct` and
`Refinement` (`Spec => ImplementsOrderBook`).

None of the properties is inductive. What makes "a fill is told once" true is
spread over the lists, the queue and the poll in progress, and `IInv` says it:

* `TrackInv`: which submission states allow which trackers (`SubmitInv`), that one
  object at most stands for an identifier in `_new_orders` and
  `_unprocessed_orders` (`ListsInv`), that a status agrees with the tracker and
  the events of its object (`StatusInv`), and that once an order is recorded as
  filled no other object of it can be (`SettledInv`);
* `PollInv`: what a fetched record still says of the brokerage (`RawInv`), which
  object a snapshot holds for an identifier although the trackers have moved on
  (`KnownInv`), and where the loops stand (`TodoInv`);
* `QueueInv`: an event in the queue still holds when it is handled (`EventOK`: a
  fill is of an order the brokerage executed and of the object that was in the
  snapshot; a cancellation is not of a filled object), and at most one *verdict*, a
  fill, cancellation or error, is on its way for an order (`OneVerdict`). The argument
  is that a poll begins only with an empty queue, and gives each identifier one
  verdict at most: either it is listed and has a record, or it is missing.

TLC checked `IInv` conjunct by conjunct on one and two orders before the proof.
`Inductive` proves `Spec => []IInv` with one step per action; the theorems follow
from it, and `Refinement` has one step per action that maps it to `Open`, `Cancel`,
`Fill`, `Fail` or a stutter.

`Backtest_proofs`, for any finite set of orders of every class and type, any quantities,
prices, margin and cash, any number of legs, periods and submissions: `BooksAlwaysAgree`
(`BooksAgree`), `CashIsAlwaysProceeds` (`CashIsProceeds`), the action properties
`FillsAlwaysFair` (`FillsAreFair`), `NoExitEverLeftWhenFlat` (`NoExitLeftWhenFlat`) and
`TrailAlwaysRatchets` (`TrailRatchets`, which no run lists), and
`BrokerImplementsContingent` (`ImplementsContingent`): the broker implements
`ContingentOrders`, so that no exit works or is filled before its entry
(`ExitsAlwaysFollowEntry`) and of two linked exits at most one is filled
(`AtMostOneEverFills`). `TermsAreWellLinked` is what the abstract specification requires of
entries and partners.

A step of this broker is a chain: a fill cancels the partner, lists the children, pays,
moves the position, cancels what the flat position leaves over, closes the parent and the
placeholder, and a package repeats all of it for each leg. The proof therefore first says of
every link what it changes and what it leaves alone, then that a whole fill and a whole
cancelation keep each part of the invariant, and only then takes the actions. `Inv` is

* `TypeOK`;
* `BooksFit`: besides the two properties on the books, that the lots of a future are all long
  or all short (`OneSided`). Without it neither would be inductive: `Closing` takes the
  smaller of the fill and the *net* position, and the loop of `_realize_futures_pnl` closes
  that many contracts of the lots from the oldest on, which is the same only if no lot
  lies the other way. That the loop leaves the lots one-sided, takes exactly that many
  contracts off them and books the difference in cost as profit is the invariant of its
  rounds (lemmas on `CloseOldest` and `Realized`);
* `OrdersFit`: which orders the lists hold, given the statuses. Nothing has happened to an
  order that was not submitted; `_new_orders` holds no order twice and no filled one, though
  an order may remain there that was canceled as a child before its entry was filled
  (`NewFits`); exits are listed only after the entry is filled and end with it if it is
  canceled (`ExitsFit`); the partner of a filled order is canceled (`PartnersFit`). During
  a pass an order of the snapshot may have been canceled by the fill of an earlier one, but
  not filled (`TodoFits`);
* `FeedFits`: the low of a bar is not above its open, nor the open above its high.

Recursive functions over lots, lists and legs (`Realized`, `Without`, `FillLegs`) are
defined step by step on `0 .. n`. `Sums` proves that such a function exists
(`StepsExist`) and that what every step keeps holds of all its values (`Climb`), which stands
in for the induction that the prover does not have.

`CashIsProceeds` counts what the executor skipped in its first iteration (`skipped`) with the
cash: nothing else is lost, and this is lost to the cent.

`Executor_proofs` has two parts. The first is about `Executor`, for any number of fills,
cancels and faults: `OneHandlerWrites` (types, and two threads are never both between
the read and the write of the cash). `LockInv` ties the lock to the place of its holder.

Its second part is about `SmartLimit`, for a ladder of any length, any number of failed
calls, and cancels that take effect late or never: `NeverWorkingTwice` (`OneWorking`)
and `FirstIsJudgedRightly` (`FirstIsNotMisled`). Both compare submissions, but what
keeps them is the one Order object. The invariant is `SmartIInv`. As long as the object
was not ended while its submission worked, only the submission whose identifier it bears
can be working, and none works when it is over, or between the cancel and the submission
that replaces it (`OrderInv`). That the stream cannot end it wrongly before there is a
second submission is `FirstInv`: then rows and news that speak of an end are true,
however old. `StepInv` has it that a step of the ladder replaces once at most, and
`StreamInv` what the stream's rows are of. Without the hypothesis `~misled` the first
property does not hold (section 3).

`Strategies_proofs` has two parts. The first is about `DriftRebalancer`, for any assets (of
any multiplier), prices, weights, slippage, fees, and number of iterations:
`RebalancerTypeCorrect`, `HeldAlwaysCovers` (`HeldCoversSells`) and, if `FeesAreSmall`,
`OrdersAlwaysCovered` (`OrdersAreCovered`). Neither cash nor holdings are looked at when an
order is filled, so both properties rest on what holds of an order from the iteration that
submitted it until it is filled or the next iteration cancels it:

* `AccountInv`: in a backtest the rows of the iteration still say what is held;
* `OrdersInv`: one order at most is open for an asset, a sell where the drift is negative
  and a buy where it is positive, and none of an asset that a loop has yet to visit; so the
  sum over the open sells of an asset is one quantity, and the purchases are no more than assets;
* `HeldInv`: holdings are not negative, and an open sell is of no more than is held;
* `BudgetInv`: the cash less the cost of the open purchases at their limits, and less a fee
  for each, is above the bound; while purchases are submitted the budget is the cash less
  their cost, and after the first one a fee is still in it (unless there are options).

That a purchase leaves the fee is what `adjust_quantity_for_fees` does with its two
quotients (`Afforded`, from `Quotient` and `FactorCancels`); that limits and quantities are
positive, and so every divisor is, comes from the rounding (`LimitsTyped`). The cost of a set
of orders is a `SumFunction`, which `SumSplit` of `Sums` takes apart by one order.

The second part, about `StonxxBot`, for any symbols, threads, kills, days and prices: `TypeCorrect`,
`FileFitsPlan`, `CashCovered`, `SubmissionsAreBounded` and the action property
`PlanIsNotLost`. A batch works on a copy of the plan while the other thread may have taken
the plan out, so that the properties hold of the file only because of what holds of the
copies:

* `ThreadInv`, `PlanInv`: where threads may stand by day and by night, and that each copy
  of the plan, in memory, file, batch or dump, is for this open or an earlier one;
* `BatchInv`: the plan in memory is the whole batch of whoever carries it out, or empty,
  and two batches under way are the same one;
* `SubmittedInv`, `CountInv`: what a thread took off its batch is submitted; the submissions
  of an order in this life of the process, and the threads that may still make one, are at
  most the threads;
* `BooksInv`: the saved books fit the saved plan, those in memory do when no batch is
  under way, and a dump does while it is written;
* `CashInv`: as long as no order was submitted twice in one life of the process (`doubled`),
  one thread at a time has deals to book, and the cash, in memory, file and dump, covers the
  deal that it has read the cash for. A batch that is carried out again after a kill is no
  excuse: it starts from the saved cash and cuts its purchases down to it.

`DownloadQueue_proofs`, for any threads, requests, slots and faults: `AnswersBelong`
(`AnswersAreOwn`), `HandedOutIsHeard` (`HandedOutIsTracked`) and `SlotsAreKept`. Threads
share infos that another thread or the cleanup may have dropped from the tables, so that
`InfoInv` and `TableInv` say what an info, an entry and a job agree on, and
`RecordOK` what a thread holds from one step to the next; jobs only grow and only
change their state (`JobsKept`), which keeps what the others hold true. `SlotInv` is the count
of the semaphore: free slots and threads inside are `MaxConcurrent` together.

`OptionExpiry_proofs`, for any options, calendar, markets and orders: `ExpiredAreGone`
(`NoneOverstays`), `TypesAreKept`, and the action properties `ExerciseIsSupported` and
`WorthStays` (`WorthIsKept`). `PassInv`
says that every expired contract which is held is still on the list of the pass, and
`AgendaInv` that the night is reached only right behind such a pass, once the closing
minutes have begun; deliveries bring underlyings, which are no options. The worth of an
account is a sum over contracts and shares. `Sums` proves of the library's `SumFunction`
that it changes by as much as one summand does (`SumChanges`), for any finite domain, with
the least counterexample in the place of an induction (`SmallestSubset`); `Backtest_proofs`
uses the same for positions, cash and lots.

`Broker_proofs`, third part, about `SyncBroker` for any orders, outcomes, synchronisations
and held events: `SyncTypeCorrect` and `FillsAreAlwaysReal` (`FillsAreReal`). With two handlers
in steps an event may be late, come twice or meet another handler halfway, so that hardly
anything of `IInv` holds here, and what does has an invariant of its own. `SyncIInv`: every
fill in the queue, in the list of held events, in the hand of the stream thread
(`SyncEventsInv`) or in a handler that has begun (`JobsInv`), and every record that the poll
(`SyncPollInv`) or the executor (`SyncRowInv`) works from, is of an order which the brokerage
has executed and therefore still says so when it is used (`SyncMarketInv`). What two handlers
leave behind (`OverIsSwept`, `EndIsAgreed`) is repaired in the end only, and model-checked.

Its last part is about `LazyEvent`, for any sets of setters and waiters: type correctness
(`EventTypeCorrect`), `ReturnsAfterSet` (`ReturnsOnlyAfterSet`) and `SharedEvent`
(`OneSharedEvent`).

`Lifecycle_proofs`, for any number of days, exceptions and schedulers, with exceptions raised
at any moment, also while others are handled: `TypeCorrect`, `IterationsAlone` (`Alone`),
`EachDayIsTraded` (`TradesEachDay`) and `NothingTradesAfterEnd` (`NothingAfterEnd`). `CountInv` counts
the schedulers made against the exceptions, so that their bound is never reached. `ShutInv` says that
a scheduler which does not run is waited for while its iteration does. A scheduler
is lost when it is forgotten while it runs. Of several threads in `gracefully_exit` the first to forget
one does no harm, for what the others have read is still what is there (`Fresh`); after that each
thread that is still in it may lose one. So the schedulers lost, and the threads under way, are at most
the exceptions that overlapped another, and one more while things are `Fresh` (`LostInv`); that
is where the bound of `Alone` comes from. After the stop no iteration begins, and there are either
no more iterations than that, or one of them is waited for, or will be, by a thread that
ends only afterwards (`EndInv`, `EndsLater`). `TradeInv` ties each phase of a day to what the
executor still does in it (`WillTrade`): as long as the market is open on a day without
an iteration, the scheduler runs or is about to be made.

The assumptions are the named ones on the constants: a queue has room for one event,
bounds are naturals, `Outcomes` is a set of known outcomes; the rebalancer's prices are
positive, its slippage is below its threshold and that below 1, and the account begins
without debts or short positions; the bot has finitely many threads (it has two);
options and underlyings are finitely many, and an option is not the underlying of
another; the threads of schedulers are not the executor's or the trader's. Of the
backtest: orders and assets are finitely many; children are simple orders of one parent,
the children of an OCO have its asset, and orders are linked in pairs, as the children
of one bracket or OCO (`TermsAssumption`, from `_set_order_class_children`); prices are
naturals, and a bar is in order or missing. `FeesAreSmall` is a hypothesis of the
theorem named above, and the run satisfies it.

Only model-checked: liveness, which is out of the prover's reach (`FillIsRecorded`,
`EndIsRecorded`, `SyncFillIsRecorded`, `HeldIsHandled`, `OverIsSwept`, `EndIsAgreed`, `EventsHandled`,
`CashIsCorrected`, `SmartLimitEnds`, `StopEnds`, `EveryRequestEnds`, `Converges`, `Balances`).
Every other property of the runs is the statement of a theorem.

## 5. Not modelled, and the plan

`PROJECT.json` lists every component with the reason. Most of the repository's lines are
adapters for brokerages and data vendors, tables of prices and their caches, and the
strategy API, which delegates to what is modelled; they keep no state that several steps
could bring out of order, or they keep it in floating-point tables out of TLC's reach.
Dhan's polling does not start at this commit (`_get_stream_object` returns nothing).
In the order of the plan:

1. Websocket brokers: partial fills, child orders, the orders thread pool, the
   retention cleanup that makes a polled order new again (`broker.py:530`).
2. Continuous markets, the backtesting loop,
   several strategies in one trader.
3. Futures roll, crypto holds, and the settlement of options in backtests that sleep over
   several days.
