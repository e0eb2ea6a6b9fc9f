# A verification of the trading system

TLA+ models of the repository's trading core, the TLC runs that check them on
small instances, and the theorems about them that TLAPS proves for every
instance. Paths are relative to the repository's root; `quantumtrade/` is
shortened to `q/`.

## 1. The system

| Component | State it keeps | Operations | Talks to |
|---|---|---|---|
| Paper broker `q/adapters/brokers/paper_broker.py` | cash, positions (mutable objects in a dict), orders, trade log, connected | `place_order`, `set_prices`, `connect`, `disconnect`, queries | called by the engine's thread and the bot's thread, without a lock |
| Remote brokers `alpaca_broker.py`, `binance_broker.py` | client, connected | the same interface over a network | engine, bot |
| Live engine `live/trading_engine.py` | trade count, start time | `start`, `stop`, a tick per interval: signal, size, risk check, order, record | broker, risk manager, trade table, scheduler |
| Risk manager `q/core/risk_management/risk_manager.py` | daily P&L, its date, peak value | `check_trade`, `record_pnl`, lazy daily reset | engine |
| Scheduler `scheduler/` | running flag, hooks, last session | `start` (the loop), `stop`, signal handler | engine, main thread, `/startbot` threads |
| Telegram controller `q/interfaces/telegram/controller.py` | - | `/buy`, `/sell`, `/startbot`, `/stopbot`, views | broker, engine, trade table |
| Trade database `q/infrastructure/database/` | SQLite tables | insert, query | engine, bot |
| Entry point `run.py` | - | wires the above, runs the engine on the main thread, shuts down | all |
| Execution algorithms `q/adapters/execution/algorithms/` | child orders, their fills | `generate_schedule`, `get_next_child`, `update_fill` | smart router |
| Routing `broker_selector.py`, `smart_router.py` | active orders, schedules, algorithms, fills | select, split, `execute_order`, `add_fill`, `cancel_order` | brokers (not used by the live engine) |
| Fill simulator, cost models, TCA `q/adapters/execution/` | fill history | simulate an order over bars, cost report | - |
| Paper trader `q/adapters/execution/paper_trader.py` | balance, positions, trades, stops | submit, execute, stop losses, summary | order filler, stop-loss manager |
| Model registry, retraining, rollout `q/mlops/` | versions and stages, the current run, canary phases | register, promote, roll back, delete, retrain, poll | MLflow, a scheduler thread |
| Serving and monitoring `q/mlops/serving/`, `monitoring/`, `drift_detector.py` | model and prediction caches, A/B tests, alert times, metric windows | predict, switch versions, send alerts, check drift | registry, Redis |
| Feature store `q/mlops/features/` | definitions, online features in Redis | register, sort, compute, get, invalidate | serving |
| Portfolio risk `q/domain/risk/` | limits, price cache | report: exposures, value at risk, stress, limit checks | broker, Redis |
| Account limits and sizing `q/core/risk_management/`, `q/domain/risk/` | balance, peak, day's start; strategy, costs | update, check; size, record costs | - |
| Strategies, ensemble, decisions `q/core/`, `q/ml_ai/` | indicators, assignments, a trained model, an advisor's connection | signal, vote, decide | broker |
| Exchanges `q/adapters/exchange/` | brokers by exchange, health, prices, a combined book | connect, check, rank, route, detect, sync | brokers |
| Portfolio tracking `q/core/portfolio_management/`, `q/backtesting/metrics.py` | last snapshot, equity curve | update, report | broker, database |
| Event bus `q/events.py` | Redis streams | publish, consume | engine (unreachable as built) |
| Front ends, infrastructure, notifications | - | views, output, configuration | all |

What is hard in it: two threads (the engine's tick and the bot's event loop)
share the broker, the risk manager and the database connection with no lock; the
broker hands out its own mutable `Position` objects; the bot awaits a reply
between reading a price and placing the order; a trade is two writes (broker,
then table) either of which may fail; the daily P&L turns over at midnight
between two calls; and the loop is started and stopped by the main thread, by
signals and by chat commands over one shared flag. Around that core: calls that
raise half-way and leave tables behind; a remote broker that fills and forgets in
its own time; several retraining runs and rollbacks on one registry; caches whose
entries outlive what they were computed from; and long sequences of legal calls
(averaging, partial sales, dated and undated updates) that add up, or do not.

What makes each part correct, in a line:

- broker: cash never negative, positions real, money and shares conserved, log
  complete;
- engine and risk manager: orders that fill, limits that hold, P&L of the right
  day;
- trade table: no filled order is lost without a report;
- scheduler: a stop ends every loop after at most the tick under way, hooks
  alternate, an opening is noticed, a signal shuts the session down;
- execution: no more reaches the market than was ordered, a split places all of
  it, the tables agree after any failure, what a caller was told stays true;
- model operations: production improves, a rollout's capital keeps up with what is
  reported of it, alerts keep their distance, an answer comes from a version it may come from, features are
  computed after what they depend on;
- desk: a clean report is earned, losses stop trading, sizes respect the budget,
  signals use no future data, orders go where they fit.

`PROJECT.json` lists every component with its status and every hazard at its line.

## 2. The modules

| Module | What it is |
|---|---|
| `Ledger` | the abstract specification: an account where one order moves cash and shares together |
| `ParentOrder` | the abstract specification: shares brought to the market and filled, within the order |
| `PaperBroker` | the paper broker, one action per stretch of code between thread switches |
| `PaperAudit` | its trade log against its cash and positions |
| `LiveTrading` | engine, bot, risk manager and trade table around an instance of `PaperBroker` |
| `LiveAudit` | the trade table and the daily P&L against what the broker did |
| `Lifecycle` | scheduler loops, engine start and stop, `/startbot`, `/stopbot`, Ctrl+C |
| `Schedules` | how TWAP, VWAP, POV, iceberg and implementation shortfall split an order |
| `ChildOrders` | one such order at work: children released and filled in any order (extends `Schedules`) |
| `BrokerRouting` | which brokers an order goes to, and how much to each |
| `SmartRouter` | the router's tables through calls that raise (extends `BrokerRouting`) |
| `FillSimulation` | the fill simulator with its cost models, and the cost report |
| `PaperTrader` | paper trader, order filler, stop losses |
| `RemoteBrokers` | Alpaca and Binance adapters against servers that answer or do not |
| `ModelRegistry` | versions and stages; roll back and delete call by call |
| `Retraining` | pipeline runs on that registry, and the scheduler's thread (extends `ModelRegistry`) |
| `CanaryRollout` | the phases of a new model's capital |
| `ModelMonitoring` | drift checks, alerts, the metrics window |
| `ModelServing` | the predictor's caches, A/B tests, production moving under them |
| `FeatureStore` | definitions and their topological order, the online features |
| `PortfolioRisk` | the risk report over broker and price cache |
| `AccountLimits` | balance, peak, day's loss |
| `PositionSizing` | the sizing strategies, with cuts after expensive executions |
| `Strategies` | the signals of eleven strategies, bar by bar |
| `Ensemble` | their vote, and the trade it leads to (uses `Strategies`) |
| `Decision` | the three-layer decision engine |
| `Exchanges` | routing, arbitrage, a book over several exchanges |
| `Performance` | snapshots, reports, drawdowns |
| `MCExecution`, `MCMlops`, `MCDesk` | the above gathered for TLC |
| `Sums_proofs` | induction and sums, for the theorems |
| `PaperBroker_proofs`, `PaperLedger_proofs`, `LiveAudit_proofs`, `Lifecycle_proofs`, `Execution_proofs`, `Mlops_proofs`, `Desk_proofs` | the theorems |

`LiveTrading` composes the engine, the bot, the risk manager and the table with an
instance of `PaperBroker`; `Retraining` runs on `ModelRegistry`; `ChildOrders`,
`SmartRouter` and `Ensemble` work with the operators of the modules they extend.
The classes gathered in an MC module call each other by value only, or not at all.
A behaviour there exercises one of them (`desk`, `part`) while the others stand
still in one initial state, so the run's states are the sum of the parts', not
their product.

Definitions marked "Slip" in a module are plausible bugs of the definition after
them. They are not part of any specification; `PROJECT.json` pairs each with the
property that finds it.

### PaperBroker

CPython 3.11, which the project builds on (`Dockerfile`), lets another thread run
only at a call or a backward jump. `place_order` therefore splits where the code
calls something between two uses of shared state:

| Action | Lines of `paper_broker.py` |
|---|---|
| `PlaceOrder` (enter) | 93-100 |
| `Debit` or `RejectBuy`: test of funds, debit, `dict.get` | 115-136 |
| `BookBuy`: average the position found, or store a new one | 137-153 |
| `LookUp` (SELL) | 156 |
| `BookSell` or `RejectSell`: credit, reduce, delete | 157-187 |
| `Record`: result, log entry with `cash_after` | 189-236 |

A `Position` is a mutable object that several holders may refer to, so objects
live in a sequence `heap` and a reference is an index (0 is `None`). Deleting by
symbol raises `KeyError` when another thread has deleted first, after the cash
has been credited: the order then goes to `failed`, a history variable.

Abstractions: money and shares are integers and the average price is rounded
down; `stop_price` as a fallback for `limit_price` is one value, the order's
price, 0 when absent; metrics, ids and timestamps are left out. `set_prices` has
no caller in the repository and is modelled as the public operation it is, one
symbol at a time.

### LiveTrading

A loop is a thread that takes up a signal, any signal, whenever it is free: what
a strategy says is left open, and a tick walks the symbols one by one. For a BUY
the account is read as `get_account` reads it (list the positions, read the cash,
sum the values, three steps), the order is sized and checked, placed, and
recorded. For a SELL the position object obtained at the start is used
throughout, as in the code: after the fill, its quantity is what the sale has
left of it. The bot copies the price and the entry price, awaits its reply
(other threads run), places the order, and records it without telling the risk
manager. `InsertFails` is a failing `INSERT`: the rest of the handler is skipped
and the user told. `Midnight` moves `date.today()`.

The limits on open positions and on the cash reserve are not tested in the model
because the engine's call passes neither argument.

Abstractions: the broker is connected throughout (`Lifecycle` has the rest); the
bot's price and entry price are read together; users ask for positive
quantities; the insert and its commit are one step.

### Lifecycle

One `TradingScheduler` object, any number of threads in its `start()`: the main
thread and those of `/startbot`. Its shared flags (`_running`, `_last_session`,
the hooks, the broker's `_connected`) are read and written one step at a time.
The clock is the session that `get_session` returns; a sleep ends when the thread
takes its next step. Ctrl+C before the scheduler's handler is installed raises
`KeyboardInterrupt` in `main()`, afterwards it only clears `_running`. The bot's
thread runs before the engine starts, so its commands may come at any point.

Abstractions: the three hook registrations are one step; `engine.stop` is two
(stop the scheduler, disconnect); Crypto is a market whose session is always
REGULAR; FOREX is never chosen by the engine. The outer `except` of the loop is
left out, as every callback is guarded on its own.

### Execution

`Schedules` gives the sizes of `generate_schedule` as sequences, in units of
a fraction of a share. The sizes of VWAP are products of doubles: each may be rounded
up or down, a difference to the order of no more than 0.001 of a share is left as it
is (`vwap.py:135`), a larger one goes to the last child, rounded once more. A schedule
carries what this may come to as its `tolerance`; the other schedules are exact and
have none. `ChildOrders` keeps the children: `get_next_child` hands
out the first that is due and not larger than what remains, `update_fill` books a part
of it; the caller passes `get_remaining_quantity` back in.

`BrokerRouting` translates both selectors. The loop of `select_broker_cross_exchange`
is a recursive function over as many of the ranked venues as `max_exchanges` says:
each is given its share of what is still to be placed, up to the slice, and the first
that was given anything takes the rest. Shares are counted in 1/`Grain` and rounded
down to it, where the code has doubles. In `SmartRouter` every path of `execute_order` and `add_fill` that raises is an
alternative of its own, with the assignments made before the exception: the
algorithm "market" ends in a `NameError`, and `add_fill` of an order that has an
algorithm in an `AttributeError`, after the fill was appended.

`FillSimulation` fills one order bar by bar. The remaining quantity that
`simulate_order_execution` passes on is never counted down, which is why the
property bounds an overshoot instead of excluding it. `PaperTrader` keeps the
cost basis (quantity times entry price) in place of the average price, so that
nothing is rounded. An order already filled may be executed again, as in the code,
and then books twice.

`RemoteBrokers` models the servers as external: an order is accepted, filled in
parts, cancelled, rejected or expired there; the adapter's answer is computed when
the call is made and may be lost. The words a server uses are those the adapters'
`status_map`s expect.

### Model operations

A `ModelRegistry` action is one MLflow call. `rollback_model` archives one
production version, promotes the target and may fail in between; `promote_model`
archives none. `Retraining` has two runs of `run_pipeline` (the scheduler's and a
manual one); a step is what a run does up to its next call to the registry, and
MLflow may not answer. `stop_scheduler` sets a flag that nothing clears.

`CanaryRollout` counts days; a poll may come at any time, or never. `get_allocation`
compares the time since the start with each phase's own duration, `_get_phase_index`
with their sums, and both are in the model as coded.
`rollback_triggered` is set and ignored, as in the code. `ModelMonitoring` lets
other alerts be raised while one is being sent; that `send_custom_alert` sends at once
where there is no event loop (`alerts.py:255`) is left out. `ModelServing` treats a request as
one step, because `predict` awaits nothing; its prediction cache is keyed by
features and version without the model's name, and what the property allows for
follows that. A/B groups are the value of a hash that Python randomises per
process, so they are any group, fixed between restarts. `load_model(stage=None)`
is taken to find the version the caller asked for, as in the repository's tests;
over a real MLflow it raises (a finding). A request may also fail when the model has
been loaded and cached and refuses the features (`PredictFails`), and a `cache_ttl` of
0 keeps no predictions and counts no lookups. `FeatureStore` sorts
the definitions depth first as coded: the recursion of `visit` is the list of its calls
still to make, with an end for each feature under way (`NextCall` makes the first of
them), so that the sort is a recursive function and can be proved about. The property
is about that sort: `compute_features` itself takes the features in the order they are
asked for, or were registered in.

### Desk

`PortfolioRisk`: a broker that raises is caught, and the book is then empty; cached
price tables come back transposed, so only entries that say "no data" are ever
served from the cache; an entry is kept for a set of symbols, so a history that
another book fetched is not used. Sector limits are below 100 %. `AccountLimits`: an update carries a date or none, and a day
begins with its first dated update; the updates are kept as a history (`seen`), from
which the property works out peak and losses by itself. `PositionSizing`: rates in percent, risk in
millionths; an entry of 0 and a stop at the entry are refused; the weights a request may bring
for the composite strategy (`strategy_weights`) are left out. `Strategies`: each strategy is a function of the bars and an index;
averages and ratios are compared by cross-multiplication, exponential averages
rounded down. `Ensemble`: a vote takes up all signals of the newest bar; a strategy is skipped as
long as there are not the bars it requires, and a missing confidence raises inside the
vote and drops it. `Decision`: a day is the number of
bullish technical signals, what the model learns and the advisor writes is any of
what they may. `Exchanges`: brokers as in the repository's tests; an exchange's
score is its place in the ranking. An arbitrage is only found when the exchange
listed earlier is the cheaper one, and every `sync_positions` adds the cash again;
both are in the model as coded. `Performance`: an update reads account and
positions in two steps; percentages are in basis points.

## 3. The runs

| Run | Module / cfg | Expect | Question |
|---|---|---|---|
| `paper_single` | PaperAudit / PaperSingle | pass | Does one caller see a plain ledger? `ImplementsLedger`, `LogIsChained` |
| `paper_threads` | PaperAudit / PaperThreads | pass | What survives two callers? `TypeOK`, `PositionsAreHeld`, `CashMatchesLog`, `SharesConserved`, `OrdersAreAtomic` |
| `paper_race` | PaperAudit / PaperRace | violation | Is the trade log the full history? `FullTradeHistory` |
| `live_engine` | LiveAudit / LiveEngine | pass | Does the engine alone keep its books and limits? `EngineOrdersFill`, `TableMirrorsLog`, `NewPositionWithinLimit` |
| `live_bot` | LiveAudit / LiveBot | pass | With the bot, failing inserts and midnight, what is still recorded? `TypeOK`, `NoSilentLoss`, `BuysMatchLog`, `DailyPnlIsTodays` |
| `live_loss` | LiveAudit / LiveLoss | violation | Does the daily loss limit hold? `LossLimitHolds` |
| `lifecycle` | Lifecycle / Lifecycle | pass | Do loops stop, hooks alternate, openings get noticed? `TypeOK`, `OneLateTick`, `HooksAlternate`, `StopEndsLoops`, `OpenIsNoticed` |
| `shutdown` | Lifecycle / Shutdown | violation | Does a signal shut the session down? `GracefulShutdown` |
| `execution` | MCExecution / Execution | pass | Does an order survive its execution? `ServesTheOrder`, `CompleteWithinTolerance`, `SplitPlacesTheOrder`, `RouterTablesAgree`, `OvershootWithinOneFill`, `FinalAnswersStayTrue`, `SummaryAddsUp`, `StopsHonoured` |
| `mlops` | MCMlops / Mlops | pass | Do models in production stay what they should be? `ImprovesUnlessRaced`, `CapitalKeepsUp`, `AlertsSpaced`, `AnswersAccountFor`, `DependenciesFirst` |
| `desk` | MCDesk / Desk | pass | Do reports, limits, sizes, signals and routes mean what they say? `CleanReportIsEarned`, `UsesWhatItFetched`, `AllowedWithinLosses`, `SizesWithinBudget`, `NoLookAhead`, `BuyNeedsTwoLayers`, `RoutedWhereItFits`, `DrawdownIsLargest` |
| `ensemble` | MCDesk / Ensemble | violation | Does an ensemble act on a majority only? `MajorityActs` |

### What the passing properties leave out

Where the code itself limits what can be claimed, the property says so in its
premise: POV, whose volume estimates need not add up to the order, and a VWAP
profile that is not normalised are outside `ServesTheOrder` (they map to an order of nothing) and
`CompleteWithinTolerance`, which is itself weaker than the code's own question: the
fills of an order whose children are all filled come to the order but for what VWAP's
tolerance leaves uncorrected, which is not always `is_complete` (below). A
split of which no venue may have a share (a largest slice or a number of exchanges of
0, or a best score of 0) places nothing; a
run whose baseline MLflow did not give, or that was overtaken by another change of
production, is outside `ImprovesUnlessRaced`; the commissions of opening purchases
are in the balance and in no trade (`openingFees` in `SummaryAddsUp`); a report
that is clean because its book is empty says nothing of the book
(`CleanReportIsEarned`); a model other than the one asked for may answer from the
prediction cache (`AnswersAccountFor`). `NoLookAhead` compares series that begin with
the same bar: live trading asks for the last sixty days, a window whose first bar
moves, and an exponential average over it is another one. `DependenciesFirst` is about
`topological_sort`, which `compute_features` does not call.

### What the violations show

1. `paper_race`. Engine and bot both buy a symbol that has no position; each
   looks it up, finds none, and stores its own. Both have paid and both are in the
   log; one position object is unreachable. `SharesConserved` holds all the same:
   the shares are in the heap, not in the dictionary, and of the shares in the heap
   the account is still a `Ledger` (`OrdersAreAtomic`). The dict is the fault.
2. `live_loss`. `pnl = (fill_price - position.avg_entry_price) * position.quantity`
   (`live/trading_engine.py:428`) is evaluated on the broker's own object after
   the sale has set its quantity to 0. The P&L is 0, the recorded quantity is 0,
   and the daily loss limit never sees a loss. (For the same reason
   `DailyPnlIsTodays` compares the risk manager with the engine's rows, not with
   the broker's cash, and `BuysMatchLog` speaks of purchases only.)
3. `shutdown`. Once the scheduler has installed its signal handler, Ctrl+C makes
   `engine.start()` return normally, and the `except KeyboardInterrupt` block of
   `run.py` that stops the engine, takes the final snapshot and closes the
   database never runs.
4. `ensemble`. `weight = signal.confidence if signal.confidence > 0 else 0.5`
   (`q/core/multi_strategy.py:188`) raises a `TypeError` when a strategy gives no
   confidence; the handler logs it and the vote is dropped from the total. One
   buyer and one strategy that holds without a confidence then make a unanimous
   purchase, on half of the weight that was asked.

Six disagreements more have no run of their own and are listed as findings in
`PROJECT.json`:

- The breakout strategy never signals (proved, `BreakoutIsSilent`).
- A rollback with three versions in production takes no effect.
- The dates of a backtest's drawdown are one bar late.
- The predictor's call for "no stage" finds no version in a real MLflow. (Had it found
  one, `predict_proba` at `q/mlops/serving/predictor.py:180` is not a method of the
  `mlflow.pyfunc` model it loads, which is one way for a request to fail after the model
  was cached: `PredictFails`.)
- `get_allocation` (`q/mlops/validator.py:309`) compares the time since the start of a
  rollout with each phase's own duration. Of phases of 1, 3 and 7 days the second ends
  after three days, when it has lasted two, and all of the capital is given after seven
  days, not eleven (proved, `PhasesRunTogether`). `_get_phase_index` of the same class
  adds the durations up, as the docstring says; what holds of the code is
  `CapitalKeepsUp`: its capital never lags behind the documented schedule. Nor does
  `get_allocation` look at `rollback_triggered`: a rollout that failed its health check
  goes on to more capital unless its caller stops it, while `docs/mlops.md:179` calls
  the rollback automatic.
- `VWAPAlgorithm` corrects its sizes only when they miss the order by more than 0.001 of
  a share (`q/adapters/execution/algorithms/vwap.py:135`), and `is_complete` asks for
  `total_filled >= quantity` (`base.py:109`). Sums of doubles miss by less: the default
  profile of twelve buckets makes 99.99999999999999 of an order of 100. All children are
  filled, the order is never complete and its report is never written. In `Schedules`
  the sum may be a grain short, so the model has the state; what holds of it is
  `CompleteWithinTolerance`.

### Bounds, and why they are enough

- `paper_*`: two threads, because every hazard here is a pair of calls; up to four
  orders, enough for two threads to open, add, close and reopen one position; one
  symbol where the property is about one position, two for the refinement.
  Capital 4 or 7 with prices up to 3 makes both sufficient and insufficient funds
  reachable.
- `live_engine`: two symbols, four orders, a midnight, a failed insert; 60 % of a
  capital of 5 makes the rounding of the size matter.
- `live_bot`: one engine thread, one bot, one symbol, four orders, which is what a
  purchase overwritten and then sold twice takes (the `KeyError` of
  `paper_broker.py:184`). One signal price, besides the bot's 0 for a symbol
  without a position: sums of P&L need gains, not every gain and loss.
- `live_loss`: prices 1 and 3, so that one losing sale passes a 40 % limit.
- `lifecycle`: the main loop and one `/startbot`; `/stopbot` may come at any
  time. `MaxLate` stops the counting of late ticks at 2, one past the claim.

- `execution` (721,406 states): orders of 3, 4 and 7 shares over four ticks of the
  clock, so that sizes divide and do not divide by the number of children, and
  children fall due late; VWAP profiles in quarters, whose sizes are exact, and in thirds,
  whose sum may be a grain off either way; splits over none, two or three of four
  venues with scores 0, 1, 2 and 3, with largest slices of 0, 1 and 5 shares, of which
  each is 10,800 grains, so that every quotient is exact; two orders with two
  fills at the router, one to leave behind and one to go on; four bars, thin and
  thick, with empty, one-sided and full books; a paper trader with two orders and
  two trades, a fee of 10 % and a stop of 50 %, where averaging down moves the
  entry below an old stop's; two remote orders of two shares, the least that can
  be filled in part.
- `mlops` (814,592 states): two runs and two versions, which is what a race for
  production takes; accuracies on both sides of threshold and improvement;
  13 days, two past the last of phases of 1, 3 and 7; a throttle of 2 in 5 minutes;
  a cache of one entry and a TTL of 2, so that both evict, or of 0, which keeps nothing;
  two models and two versions; three features and a name that is never registered, enough for cycles of
  two and three and for diamonds.
- `desk` (709,692 states): empty, long and short books, cash below zero; histories of just
  the returns the value at risk asks for;
  four updates of balances from 80 to 120 over two days, across a loss limit of 5 % and a
  drawdown of 20 %; series of five bars of five kinds with windows of 1 to 3, five being what
  the directional index of the momentum strategy (a window of a window) takes; strategies
  that require three bars and one that requires four;
  four days for the decision engine with a target two days ahead; two exchanges
  that share one symbol of two and take orders of different sizes; portfolios
  worth nothing.
- `ensemble`: three assignments of two strategies, one that gives a confidence with
  its crossings and one that never gives any.

`execution` takes about two minutes with two workers, each of the others about a minute
or less.

`CHECK_DEADLOCK FALSE`: every model but `Lifecycle` stops at its bounds (orders,
bars, days, requests), and a process that has exited may have no step left.

### Fairness

Only `Lifecycle` assumes any: weak fairness of each loop's own next step and of
the process's exit. The code justifies it: the operating system schedules the
threads, `time.sleep` returns, and a tick's callbacks return (each network call
is guarded by its caller; a call that never returns is outside the assumption).
`ConnectFails`, the commands, signals and the market are unfair: nothing
promises that they happen. `OpenIsNoticed` needs the market to stay open until
some loop wakes, which is its premise.

## 4. What is proved

Every safety property of the passing runs, invariant, step property or refinement, is
a theorem, for all values of the constants.

| Module | Theorem | Says | Assuming |
|---|---|---|---|
| `PaperBroker_proofs` | `TypeCorrect` | `Spec => []TypeOK` | `BrokerAssumption` |
| | `NeverOverdrawn` | `Spec => []NonNegativeCash` | |
| | `PositionsHeld` | `Spec => []PositionsAreHeld` | |
| | `BooksBalance`, `NoShareLost` | `Spec => [](CashMatchesLog /\ SharesConserved)` | |
| `PaperLedger_proofs` | `SingleCallerRefinesLedger` | `Spec => ImplementsLedger` | `Threads = {t}` |
| | `OrdersMoveAtOnce` | `Spec => OrdersAreAtomic` | |
| | `LogChains` | `Spec => []LogIsChained` | `Threads = {t}` |
| | `SoleHistoryIsFull` | `Spec => []FullTradeHistory` | `Threads = {t}` |
| `LiveAudit_proofs` | `NothingLostSilently` | `Spec => []NoSilentLoss` | `LiveAssumption` |
| | `SessionTypes` | `Spec => []TypeOK` | `AnySize` |
| | `SessionIsBrokered` | the session implements `PaperBroker` | `AnySize` |
| | `SessionBooks` | what is proved of the broker holds in the session | `AnySize` |
| | `PurchasesRecorded` | `Spec => []BuysMatchLog` | `AnySize` |
| | `AloneOrdersFill` | `Spec => []EngineOrdersFill` | `AnySize`, one loop, no bot |
| | `OpensWithinLimit` | `Spec => NewPositionWithinLimit` | `AnySize`, one loop, no bot |
| | `AloneTableMirrors` | `Spec => []TableMirrorsLog` | `AnySize`, one loop, no bot |
| | `SessionOrdersAreAtomic` | the session implements `Ledger`, of the shares wherever they are | `AnySize` |
| | `AloneSessionIsLedger` | it does of the listed positions; its log chains and is the full history | `AnySize`, one loop, no bot |
| | `DailyPnlKept` | `Spec => []DailyPnlIsTodays` | `AnySize`, one loop |
| `Lifecycle_proofs` | `TypeCorrect` | `Spec => []TypeOK` | `LifecycleAssumption` |
| | `AtMostOneLateTick` | `Spec => []OneLateTick` | |
| | `OneLoopAlternates` | `Spec => []HooksAlternate` | |
| `Execution_proofs` | `AnswersStayTrue` | `RemoteSpec => []FinalAnswersStayTrue` | `RemoteAssumption` |
| | `TraderAddsUp`, `StopsAreHonoured` | `TraderSpec => [](SummaryAddsUp /\ StopsHonoured)` | `TraderAssumption` |
| | `LittleOvershoot` | `SimSpec => []OvershootWithinOneFill` | `SimAssumption` |
| | `ChildrenServe` | `ChildSpec => ServesTheOrder`, the abstract `ParentOrder` | `ChildAssumption` |
| | `CompleteWhenDone` | `ChildSpec => []CompleteWithinTolerance` | |
| | `SplitsPlaceAll` | `RoutingSpec => []SplitPlacesTheOrder` | `RoutingAssumption` |
| | `TablesAgree` | `RouterSpec => []RouterTablesAgree` | `RouterAssumption` |
| `Mlops_proofs` | `AlertsKeepTheirDistance` | `MonitoringSpec => []AlertsSpaced` | `MonitoringAssumption` |
| | `AnswersStayAccountable` | `ServingSpec => []AnswersAccountFor` | `ServingAssumption` |
| | `PromotionsImprove` | `RetrainingSpec => ImprovesUnlessRaced` | `RetrainingAssumption` |
| | `CapitalFollows` | `CanarySpec => []CapitalKeepsUp` | `CanaryAssumption` |
| | `PhasesRunTogether` | a poll gives all of the capital once the longest phase has passed | `CanaryAssumption` |
| | `FeaturesOrdered` | `StoreSpec => []DependenciesFirst` | `StoreAssumption` |
| `Desk_proofs` | `AllowedOnlyWithinLosses` | `LimitsSpec => []AllowedWithinLosses` | `LimitsAssumption` |
| | `NoLayerBuysAlone` | `DecisionSpec => []BuyNeedsTwoLayers` | `DecisionAssumption` |
| | `LooksNowhereAhead` | `StrategiesSpec => []NoLookAhead` | `StrategiesAssumption` |
| | `BreakoutIsSilent` | `Breakout(b, i) = Hold`, for closes within their bars | `StrategiesAssumption` |
| | `ReportsEarned`, `FetchedIsUsed` | `RiskSpec => [](CleanReportIsEarned /\ UsesWhatItFetched)` | `RiskAssumption` |
| | `SizesStayWithin` | `SizingSpec => []SizesWithinBudget` | `SizingAssumption` |
| | `DrawdownsAreLargest` | `PerformanceSpec => []DrawdownIsLargest` | `PerformanceAssumption` |
| | `RoutesFit` | `ExchangesSpec => []RoutedWhereItFits` | `ExchangesAssumption` |

**Assumptions.** The module that declares one says all of it. Most only give the
constants their kind: natural prices, capital, percentages, periods and sizes,
those that divide or delay positive, and finite sets where something is summed or
counted. The others are conditions of the code's own:

- `StrategiesAssumption`: the fast average is the shorter one (the constructor of
  the crossover refuses another), and `get_required_periods` covers the windows.
- `CanaryAssumption`: one allocation more than durations, in whatever order either is.
- `RoutingAssumption`: an order is cut into at least as many grains as there are venues,
  so that the best venue's share of it is not rounded to nothing.
- `ServingAssumption`: any `cache_ttl`, 0 included, which turns the cache off.
- `RiskAssumption`: sector limits below 100 % of the book.
- `PerformanceAssumption`: accounts worth at least 0.
- `ExchangesAssumption`: every exchange is ranked, and none is called "nowhere".

Four hypotheses are of theorems and not of modules. `Threads = {t}`, "one loop" and
"no bot" are the premises of the claims: with two callers the log does not chain
(`paper_race`), and an engine that shares its account with a bot sizes orders that
do not fill. `AnySize` is `Quantities = Nat \ {0} /\ Prices = Nat`: the broker's
types speak of the quantities and prices an order may have, and what a session
orders (what is left of a position, what 60 % of the account buy) is any natural
number. TLC needs small sets closed under what the run does instead.

**Sums.** Cash, shares, rows and fills are compared as sums over sequences and
sets, which `SumFunction` adds in an unspecified order. `Sums_proofs` proves
induction in a form that can be cited here, over sets of numbers and sets of finite
sets in place of a predicate (the least natural number outside a set of them would
have a predecessor in it), that the recursive function behind a sum exists, and from
it how a sum changes when an entry is appended, changed or moved, and that it is
monotonic. The same induction serves the running peak of `Performance` and the
exponential averages of `Strategies`: a recursive function is shown to exist for
every length first, because the definition alone does not say so.

**Paper broker.** `TypeOK` is inductive on its own; it has to say that references
(in the dictionary and in calls under way) lie within the heap, which only grows.
`NonNegativeCash` is inductive with it: `Debit` tests and takes in one step, all
other steps leave the cash or add a product of naturals to it (no run checks it beside
`OrdersAreAtomic`, whose ledger buys within its cash). `PositionsAreHeld`
is inductive with `TypeOK` because of its second conjunct: a call that has looked a
position up keeps an object of its order's own symbol, so that averaging it or
selling from it cannot touch another symbol's. Of its quantity nothing can be said,
another thread may have emptied it; that a sale never leaves an emptied object in
the dictionary follows since the sale deletes by symbol whatever is there.
`CashMatchesLog` and `SharesConserved` are inductive with these two: they count the
calls under way (`Paid`, `Received`) beside log and heap, and each step moves an
amount between two of the sums.

**Refinement.** Two mappings to `Ledger` are proved. With any number of callers
(`OrdersMoveAtOnce`) the holdings are `Owned`: the shares in all position objects,
the unreachable ones included, and those that purchases have paid for and not
booked (`Waiting`). No new invariant is needed. `PurchaseEnters` and `SaleLeaves` say
what booking does to the heap, whatever the other threads did to the object since it
was looked up; a purchase moves its shares from waiting to the heap, so the ledger
buys at `Debit` and sells at `BookSell`, also when that call then raises; and that a
sale is covered follows since neither sum is ever negative. What two callers can break
is only the reading of holdings as the dictionary's. That reading (`ImplementsLedger`)
adds `LookedUpIsCurrent`: with one caller, the object found is
still the one in the dictionary when it is used. Its mapping, too, counts the shares a
purchase has paid for before they are booked (`Pending`).
`SoleBooks` adds that no call has failed, that every object with shares is the one
its symbol has, and that the cash is the last entry's `cash_after` moved by the order
under way; the chained log follows, and with `SharesConserved` that the log is the
full history, the claim which `paper_race` refutes for two callers.

**No silent loss.** `AuditInv` is `Shape /\ CallsAreAwaited /\ NoSilentLoss`. The
property is an equation of numbers: orders logged, and failed ones, against rows,
reported alerts and the handlers that have a result to record. The last are the
cardinality of `Awaiting`, so each step is one of four kinds: nobody starts or ends
awaiting, one starts, one ends, or nothing changes. `CallsAreAwaited` is what makes
the broker's steps count: an order that ends belongs to a handler that waits for
it. Nothing is needed of money, prices or positions, and `Shape` says only that
records have their fields and sequences are sequences.

**The session.** `SessionInv` types what handlers carry between their steps. With
it every step of engine and bot is a step of `PaperBroker` or leaves the broker
alone, so the theorems of the broker's modules, instantiated (`Proved`), hold of the
session and are not proved again. Refinement composes: every session is a `Ledger` of
the shares wherever they are (`SessionOrdersAreAtomic`), one with one loop and no bot
a `Ledger` of the positions it lists (`AloneSessionIsLedger`). `OrdersAreTheirs` says that the order under way is
the one its handler holds: that is how a purchase in the log is the purchase in the
row. `AloneInv` says what a lone loop knows at each stage (the cash it read is the
cash there is, the position it found is the one in the dictionary, unsold), so that
the broker's own test cannot fail; `NewPositionWithinLimit` is a property of steps
that follows. `SoleTable` matches rows to log entries one by one. `DailyInv` counts
the engine's rows of today against `daily_pnl`: apart from the row whose P&L is on
its way, they differ by at most one row of before midnight, recorded then and booked
now.

**Lifecycle.** `TypeInv` bounds the registered hooks by the number of loops past
`register`. `LateInv` says that an iteration that has seen the flag set is not late
yet, so that it can be late once. `HookInv` says which session the last hook is
about between the hook and the assignment of `_last_session`, the gap a second
loop exploits; its premise is that there is none.

**Execution.** *Remote brokers:* what may become of an order is a relation
(`Later`), and every answer that is true of an order is true of whatever it becomes
(`LaterKeeps`); the strengthening ties the status FILLED to the server's word.
*Paper trader:* `TraderInv` balances cash and cost basis against capital, closed
P&L and fees through any averaging and partial sale, and a symbol without shares
has nothing left of its record. *Fill simulation:* `SimInv` says that all fills but
the last left something over, as the bar of the last was looked at because of that.
*Children:* `ChildInv` has each child filled to at most its quantity, and
the quantities come to the order (`ComesTo`: but for what VWAP leaves within its
tolerance), which is proved schedule by schedule (`VwapSound` for any rounding of the
sum; POV and a VWAP profile that is not normalised are the
premises named below the runs). With it each step of `ChildNext` moves one child or
none (`ChildStep`): a release adds the child's quantity to what is at the market and a
fill moves part of it, while the sums of filled, released and ordered quantities stay in
that order (`ChildSums`), so the step is one of `ParentOrder`. *Splits:* the loop over the selected venues is a recursive
function that is shown to exist (`LoopingExists`). What it has handed out never exceeds
the order (`AllocatedSound`), what its venues have is what it has handed out, and the
rest goes to the first venue (`RestIsPlaced`), which is there because the best score's
share of the order is at least a grain. *Router:*
`RouterTablesAgree` is inductive with its types, path by path of what may raise.

**Model operations.** `AlertInv` relates each alert kept to the time noted for its
key: it is noted before anything is sent, so alerts raised meanwhile find it.
`ServingInv` says of both caches what the property says of an answer: what they
hold is `Sound` (the version asked for, or one that was in production since the
caches were cleared), and of the counters what the kept requests say; a cache whose
TTL is 0 holds nothing. A request that fails after its model was cached leaves both as
sound as they were. `PipelineInv` says that what a run compared itself with still
stands as long as no other promotion or rollback came between, which is
what `raced` records. `CanaryInv` types a rollout that did not start later than today;
that capital keeps up is then that a sum of durations is at least each of them, so
that whoever is past the sum is past the duration the code compares with.
*Features:* `DefinitionsInv` of the registry says little more than that dependency lists
name features or the unknown name; the rest is about the sort, for any such registry.
`SearchInv` is the invariant of its calls: `CallsInv` says that every call in front of an
end was made for that feature, so a name under way that is called again depends on
itself, and an unknown one is depended on; `OrderInv` says that the order so far is
injective, holds what is visited and is closed under dependencies. The calls still to
make, weighed with the lists of what is not yet visited (`Left`), fall by one with every
call, so `SortSteps` calls are all there are to make. That every feature is computed is then induction
along the order.

**Desk.** `LimitsInv` ties the fields of the limit to the history of updates: the
balance is the last one `seen`, the peak the highest, and the start of the day the
balance before the day's first dated update. A verdict is of the state it was reached in,
since an update takes it back.
`BuyingScore` is arithmetic over the weights: no layer carries the score over the
line, nor do five technical signals with a neutral rest. `RiskInv` adds that a
cache entry without data stands for a fetch, of the same set of symbols, that
failed; the proof showed that the cache is kept per set, and TLC that the stronger
claim, per symbol, is false.
`SizingInv` keeps the risk within the base, and a size within its budget is
arithmetic over quotients. `TrackedInv` only keeps the values
natural: that one pass with a running peak finds the largest fall over all pairs is
proved of any sequence of naturals. `RoutingInv` keeps the registered
exchanges among the known ones.

**Strategies.** `SignalSame` says that a strategy gives the same signal on any two
series that are the same up to the bar (`SameUpTo`), indicator by indicator: a window
that is long enough lies within the past, and an exponential average is local by
induction. `NoLookAhead` follows by comparing the series with itself one bar earlier.
For the breakout strategy, the window whose extremes the close would have to leave
contains the bar itself, and the margin is a sum of ranges, none below 0.

**Only checked by TLC.** The two liveness properties of `Lifecycle`, which rest on
fairness and enabledness. The four properties that
are violated have their counterexamples.

## 5. Not modelled

- **Code that cannot run in this repository.** `walk_forward.py`, the backtest engine
  and `plugin_loader.py` import a top-level package `strategy` that is not there;
  so do, of `strategy`, `brokers`, `config`, `ml`, `ai` or `risk`, `multi_strategy.py:28-31`,
  `decision_engine.py:7-9`, `paper_trader.py:15-17` and `template_strategy.py:21`: what
  is modelled of them is their code, as it would run beside those packages;
  `domain/risk/risk_manager.py:136, 171` annotates with an `Any` it does not import, so
  that the package `domain.risk` fails on import; `backtesting/metrics.py:127-128` calls
  the properties `is_winning` and `is_losing`, which raises once there is a trade;
  the market simulator's `simulator.py` raises `NameError` (`Tuple`) on import; the
  event bus's `subscribe` is `pass`, and the engine's event-driven path
  (`_handle_order_event`) is unreachable because importing the `quantumtrade`
  package fails on a missing module. It falls back to direct mode, which is what
  is modelled. The path is kept as a recorded hazard.
- **Numerics.** Classifiers, sentiment, correlation, beta, parametric and simulated
  value at risk, Monte Carlo sampling, performance ratios, cost benchmarks: formulas
  over floating-point data. Where a decision hangs on them, the model lets them be
  anything they may be.
- **Input and output.** Configuration parsing, metrics export, tracing, logging,
  notifications, HTTP, WebSocket, GUI and command line, reports, deployment manifests.
- **A session in one piece.** `Lifecycle` and `LiveTrading` are not composed: that a
  position is bought twice by two loops, or an order fills after the disconnect,
  is in each half (`LiveTrading` allows for any number of loops, `Lifecycle` for
  restarts), and no run relates the two. Three hazards in `PROJECT.json` have no
  property, two of them for this reason; each has its note.
- **External services** are their answers: MLflow stores and fails, Redis keeps and
  expires, an exchange's server speaks the words its adapter expects.

## 6. Running it

    tlc -workers 2 -config PaperSingle.cfg PaperAudit      # likewise PaperThreads, PaperRace
    tlc -workers 2 -config LiveEngine.cfg LiveAudit        # likewise LiveBot, LiveLoss
    tlc -workers 2 -config Lifecycle.cfg Lifecycle         # likewise Shutdown
    tlc -workers 2 -config Execution.cfg MCExecution
    tlc -workers 2 -config Mlops.cfg MCMlops
    tlc -workers 2 -config Desk.cfg MCDesk                 # likewise Ensemble

    tlapm PaperBroker_proofs.tla      # likewise the other *_proofs modules
