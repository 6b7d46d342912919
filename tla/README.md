# Verification of the BTC/ETH five-minute trading bot

TLA+ models of the bot under `src/src/polybot5m`, the TLC runs that check them,
and theorems about them that TLAPS checks. Paths such as `exit_strategy.py:700`
are relative to `src/src/polybot5m/execution`, `engine.py`, `cli.py`, `config.py`,
`schedule.py`, `data/` and `backtest/` to `src/src/polybot5m`, and `README.md` is the
repository's `src/README.md`.

To run: `tlc -workers 2 -config MCEntryLeg.cfg MCEntryStrategy` checks one
instance, `tlapm EntryStrategyProofs.tla` one module of proofs. `PROJECT.json`
lists all runs with their properties, for each property a mutant of the model
that breaks it, the source lines behind every definition, the hazards of the
code and what covers them.

## 1. The system

The bot trades binary markets ("btc up or down within five minutes"). A cycle is
one five-minute epoch. The command line loop (`cli.py`) starts a cycle per
epoch; the engine (`engine.py`) runs one market cycle per symbol side by side;
each watches its books until the epoch ends, ticks the entry strategy, and
leaves a job to the redeem scheduler. All of it is one asyncio event loop with a
few worker threads.

| Component | State | Operations | Interacts with |
|---|---|---|---|
| Entry strategy coordinator, `exit_strategy.py` | per symbol a slot (bids, balances, position, buy task), per strategy its progress, one lock, symbols blocked | register, tick, evaluate exits, run a buy, unregister | ticked by both monitors; awaits orders and balances |
| Redeem scheduler, `redeem_scheduler.py` | heap of jobs, counter, worker task, lock | schedule, drain, shutdown, worker loop, execute and re-queue | filled by market cycles, drained by the command line loop |
| Redeem batch, `redeem.py`, `relayer_creds.py`, `deposit_wallet.py` | cache of probed credentials | nested retries over credentials and a busy wallet, submission, polling of the transaction | runs inside the worker, calls the relayer in a thread |
| Paper ledger, `paper_exchange.py` | cash, positions, queue of pending settlements, time of the last counted tick | place order, settle by time, settle by ticks | shared by all monitors of a paper run |
| Monitor wave gate, `executor.py` | a bounded queue per symbol, the active symbols, a writer task | submit, deactivate, collect and print, shutdown | awaited by every monitor in every poll |
| Monitor loop, `executor.py` | last balances, throttles, averages | poll, submit a row, refresh balances, tick | drives coordinator, gate, ledger |
| Engine, `engine.py` | summaries, one gate and one coordinator per cycle | stagger, gather, schedule redeem, shut the gate down | drives the monitors |
| Command line loop, `cli.py` | cycle count | wait for the window, cycles, drain | drives engine and scheduler |
| User channel, `data/clob_user_ws.py`, `data/user_channel_store.py` | connection, attempts, bounded list of trades | connect, listen, reconnect, give up | read by the coordinator for the fill price |
| CLOB client, `clob_client.py` | balance cache, throttle, back-off, a lock, shared by all markets | orders, balance reads | awaited by monitors and coordinator |
| Balance readers, `ctf_balances.py`, `clob_balances.py`, `data_positions.py` | none | one request each to chain, CLOB and data API | called by the CLOB client |
| Strike and spot feeds, `data/strike_price.py` and what it calls | latest spots | strike of an epoch from three sources in turn | awaited by the engine before a monitor starts |
| Trading schedule, `schedule.py` | none | is the bot to trade now, when is it next, wait until it is | awaited by the command line loop |
| Backtest, `backtest/` | none | aggregates over a downloaded history | separate program |

What is hard about it:

* *Coroutines that interleave at every await.* Two monitors tick both strategies;
  the lock of the coordinator is held across network calls, while slots are
  overwritten outside it; buy tasks outlive the tick that spawned them.
* *An exchange that answers late, twice or never.* An accepted order may be
  reported as refused; balances are polled, throttled and possibly stale; sell
  orders rest and fill after the position was given up.
* *Retries in retries.* Re-queued jobs, a rotation of credentials, a busy wallet.
* *Caches in front of requests.* What a reader has tested before it waits for the
  lock may have changed when it gets it, it may be cancelled at any await, and an
  entry is dated when it is stored, not when it was read.
* *Ends.* Epochs that end under running tasks, a drain at the end of the run, a
  gather that waits for every monitor, a cycle that begins in the middle of an
  epoch or after it.
* *Shared queues at their limit.* Two rows per symbol in the wave gate, one paper
  ledger under all markets.

What makes each component correct: one order per strategy and epoch, bounded
sells, no invented fills or closes, no two coroutines on one position
(coordinator); every job done or given up, none twice, none lost at the end
(scheduler); money and shares conserved, no overdraft (ledger); rows in order,
nobody blocked forever (gate); every report counted once, a working channel kept
(user channel; a trade is reported when it is matched, mined and confirmed, and
the code averages each of these reports, `exit_strategy.py:306-317`); no old
shares handed out, the CLOB spared, every reported trade followed by a read
(balances); no epoch of a window traded or redeemed twice, none without its own
strike, and none left out as long as no market raises (engine and command line
loop). After a market has raised, the monitor behind it may never return from
`submit_wave`, and then no later epoch is traded at all: see `wave_stuck`.

## 2. The modules

| Module | Models | Proofs |
|---|---|---|
| `EntryStrategy` | coordinator, both monitors, buy tasks, exchange | `EntryStrategyProofs` |
| `PositionLifecycle` | what the coordinator promises per symbol (abstract) | |
| `RedeemScheduler` | cycles, heap, worker, redeem batch, relayer, end of the run | `RedeemSchedulerProofs` |
| `RedeemQueue` | what the scheduler promises per job (abstract) | |
| `PaperLedger` | the paper exchange | `PaperLedgerProofs` |
| `WaveGate` | queues, writer, monitors, end of a cycle | `WaveGateProofs` |
| `UserChannel` | connection and list of trades of one epoch, their reading by the coordinator | `UserChannelProofs` |
| `BalanceCache` | the refresh of balances by monitors and buy tasks, cache, lock, back-off, readers | `BalanceCacheProofs` |
| `TradingWindow` | the weekly schedule | `TradingTimesProofs` |
| `TradingSession` | the command line loop with its windows, the engine's cycle and its market tasks; extends `TradingWindow` | `TradingSessionProofs`, `TradingTimesProofs` |
| `MC...` | values of the constants for TLC | |

### EntryStrategy

A step is the code between two awaits. `tick[m].at` says where the
`on_monitor_tick` of monitor *m* stands: asleep, waiting for the lock, inside
`_evaluate_risk_exits` of slot `tick[m].target` (before it, or in one of its
three awaits: the first refresh, the sell, the refresh after it), or before the
strategies are ticked. Where a stretch without awaits is split over several
actions (both slots are evaluated in a row), `running` names the monitor that
keeps the event loop, and no other coroutine moves. `task[b]` is the buy task of
strategy *b*; since a strategy buys one symbol only, strategies are named by
symbols (buy1 is btc, buy2 is eth).

`pos`, `strat`, `rem`, `blocked` and `lock` are the fields of the code.
Prices and times are reduced to what the guards tell apart: a `view` holds the
outcomes whose books pass the filters, the sign of each spot against its strike,
and the class of each best bid against the thresholds of risk1 and risk3.
Shares are whole lots above `balance_epsilon`. The hold timer of risk2 is *off*,
*running* or *expired*. A coordinator that is made within an epoch, because the
bot was started again, may find shares that an earlier one has bought: `Held` says
which, `before` keeps what it was. (Orders an earlier process left in the book are
not modelled.) A balance read (`Reads`) returns zero or what the wallet held at
some moment of the epoch (`HeldSince`): the client takes the largest of what the
chain, the CLOB and the data API say, a reader that fails counts as zero, and each
may lag. A refresh that is throttled or fails as a whole leaves the slot as it was.

The exchange is external. An accepted order may be answered or its answer lost
(which `_place_limit_buy` reports as an error), a resting buy fills lot by lot at
any time, also after its epoch's position was aborted; sells rest and fill as
long as the wallet holds shares.

`accepted`, `sells`, `before` and `blind` are history for the properties. The baseline
of a position is what its slot holds when the order has been answered
(`BuyPlaced`, `exit_strategy.py:800-801`). When every reader has failed, that is zero
though shares were held before, and a later read takes them for a fill nobody
made (`exit_strategy.py:321`): `blind` names the positions whose baseline missed
such shares (`Misses`). `NoPhantomFill` is stated for the others; without that
hypothesis TLC finds the phantom fill.

### RedeemScheduler

`heap`, `counted`, `seq`, `worker` and `current` are the fields of the scheduler
and where its worker stands: at the top of its loop, in a relayer call, in the
sleep before a busy wallet is tried again, or in the monitoring that follows a
success. `place` is the position in the two loops of `redeem_positions_batch`.
An error is the set of the classifiers it matches, as nothing else of its text
counts. `caller[j]` is the market cycle of job *j*, `main` the end of `cli.py`.
The relayer takes a transaction or refuses it; a transaction it has taken is
mined or fails, and the client sees that, or gives up polling, and then answers
with the hash the submission was answered with, if there was one.

Interrupting the run cancels the cycles and with them the futures they await.
The credentials a batch rotates through are `Pool`: those of `keys` the relayer
has authorized, or all of them if it has authorized none. `keys` is what the
environment holds, one of `KeySets`, maybe nothing: then a batch fails before its
first await (`RunWithoutCreds`, `redeem.py:362-367`) and the job is retried like any
other. A poll of a transaction that raises may carry any text, one that reads as
a busy wallet or a rate limit included, and then a further call is made with the
transaction still in flight (`RelayerAnswersNone`). The credentials were probed
before the worker was started (`cli.py:250-273`) and are kept for the run; a
probe that raises ends the start-up, not the worker (`cli.py:267`), and belongs
to `TradingSession`.

### PaperLedger

One ledger under all markets. Each of the two walks over the pending orders runs
under the lock; here it is one step per order, with `walk` keeping every other
step out. Times are relative: what an order has left, and `quiet`, what is left
of the gap in which further ticks are ignored. `Fee` is any function from
notionals to fees that do not exceed them.

### WaveGate

Symbols are numbered in the order of display. A row is the number of the poll it
was made of. `Forced` is the put-or-drop of `deactivate` and `shutdown`. The
timeout of the writer is a step that needs an empty queue, at any time. `sent` and
`shown` count the rows put into a queue and those displayed, whatever became of
the others: made room for, dropped with the wave a sentinel ends, or left behind
by a writer that is cancelled.

### UserChannel

One epoch of one market. A report is a number, in the order of arrival; `mine`
are the matched buys of the token that is bought, `counted` says how often each
went into the fill price. The exchange takes the order (`booked`) before `post_order`
has returned (`placed`); what is reported in between is in the list when the index
is set behind it (`exit_strategy.py:802`), and is not counted. `sock` is how the connection looks, with the closes
told apart by what the code makes of them: a clean one ends `async for` without
an exception, one with the codes of refused credentials may count as such, any
other one is only reconnected after. `listen` is where the listen loop stands:
receiving, sleeping before a reconnection, connecting, spinning on a socket that
was closed cleanly, or ended.

### BalanceCache

`reader[r]` is a call of `fetch_conditional_outcome_balances_shares`, by the
monitor of a market (under `asyncio.wait_for`, hence `TimesOut`) or by its buy
task or an exit (without a timeout): in the first read of the chain, waiting for
the lock, in one of the two reads under it, or in the last resort after a
failure, with an entry at hand (*fallback*) or without (*blind*). `cache`,
`lastAny`, `pause`, `backoff` and `lock` are the fields of the client, `lastPoll`,
`lastForce` and `requested` those of a monitor and of its user channel. Times
are kept as ages that stop growing where no test tells them apart. A balance is
*some shares* or *none*, and what a reader may find does not depend on what the
wallet holds: chain, CLOB and data API may each lag or fail, and `ClobSync` says
what is left of that when `_fetch_conditional_pair_via_clob_sync` has combined
them. A request of it that fails does not raise, as the CLOB reader swallows its
exceptions (`clob_balances.py:51-54`), so a rate limit never leads to the back-off
that is there for it; `ClobRaises` is for whatever else raises, and checks that
handler and the back-off (`clob_client.py:657-669`).

### TradingSession and TradingWindow

`loop` is where `_run_loop` stands: start-up, the probe of the credentials, the
wait for a window (or for the end of the last epoch), a cycle, or the clean-up
after it. `market[s].at` is where the task of symbol *s* stands: in its stagger
delay, resolving the event, looking for the strike, monitoring, leaving. Its
epoch is computed when the delay is over, while `until` is the end of the epoch
the cycle began in: the stagger may carry a market into the epoch after
(`carried`). `sidecar` is the btc monitor the engine runs when btc is no target; it
may end or raise at any time, and one that has raised ends the run with the cycle.
Waits end when they are due, a request takes up to `Slack`; `Late` says so. Where
nothing is awaited between two looks at the clock (the end of the wait for a
window and the begin of a cycle, `cli.py:314`), the model has one; a market task
looks again up to `Lag` after its delay. A monitor leaves at the end of its epoch
unless it stands in `submit_wave` behind a market that submits nothing (`HeldUp`:
one in front of it in the display that is delayed, still in its requests, or has
raised). Behind a market that has raised it may stay for good, and with it the
run. The schedule of `TradingWindow` is the code's with a week of any number of
days, so that TLC can walk through whole weeks; a window whose start is no hour
and minute makes `datetime.replace` raise, and the search with it
(`SearchRaises`, `schedule.py:40-47`).

What a monitor does inside its epoch is the subject of `EntryStrategy`,
`WaveGate` and `BalanceCache`, what becomes of a queued job that of
`RedeemScheduler`: its `caller` is the task that `TradingSession` sees from
outside. The modules are composed along these seams and not by a product of
their states, which no run could cover.

## 3. The runs

| Run | Properties | Shows |
|---|---|---|
| `entry_both` | `BuySellExclusive`, `NoPhantomFill`, `OutcomeLocked` | both strategies, both monitors, YES and NO competing, missing bids, windows that close, shares held before the start |
| `entry_leg` | `AtMostOneBuy`, `SellBudget`, `ImplementsLifecycle`, `EpochEnds`, `TimeStop` | one leg in full detail: partial fills, two sells, late fills, balances that lag or read as zero; with liveness |
| `redeem_queue` | `QueuedOnce`, `PaidOnce`, `CallBudget`, `DrainedClean` | two cycles, late jobs, retries over two of three credentials, or with none |
| `redeem_live` | `ImplementsQueue`, `JobSettles`, `DrainEnds` | a real and a simulated job, waiting callers, with and without credentials: refinement and liveness |
| `paper_ledger` | `Solvent`, `CashMatchesFills`, `SharesMatchFills`, `SellRests`, `QueueEmpties` | orders competing for cash and shares, settled by time and by ticks |
| `wave_rows` | `RowsInOrder`, `FewRowsLost`, `GatherReturns` | failing polls and monitors, timeouts, shutdown |
| `user_channel` | `CountedOnce`, `LeftOut`, `LossIsNotFatal`, `Recovers` | reports on a short list while connections are lost, refused and restored |
| `balance_cache` | `TypeOK`, `SharesAreYoung`, `ClobSpared`, `ReadsEnd`, `TradeIsRead` | a monitor and a buy task reading at once, with failures, cancelled reads, back-off and reported trades |
| `session_epochs` | `TypeOK`, `StrikeOfTheEpoch`, `OneCoordinatorPerEpoch`, `OneJobPerEpoch`, `TradedIsQueued`, `NoEpochLeftOut`, `NoWindowMissed`, `RunSurvives` | two days under six schedules and four lists of targets, with markets and btc monitors that are missing, slow, raise or are held up |

Three more runs show where the code does not do what a text of the repository
says; see section 6. `TypeOK` of the other five modules, `LockDiscipline` and
`SingleFlight` of `EntryStrategy` and `CountedIsQueued` of `RedeemScheduler` are
theorems (section 4) and not repeated as properties of a run.

Bounds and why they are enough:

* *Coordinator.* `Horizon` is 2 or 3 ticks per monitor, which is four or six ticks
  of the strategies: one to qualify, one to trigger, one to confirm, two to exit
  and retry. `entry_leg` has orders of two lots, so that partial fills, a baseline
  between two fills and a rest after an exit occur, and two sell attempts, so
  that an exit is retried and exhausted; its signal lasts, and the bid may break
  down at any tick. Two strategies and two positions are
  only open at once in `entry_both`; there the window of buy1 closes a tick
  before the epoch ends, which a locked side has to survive, and the wallet may hold
  a share of btc's YES at the start, as much as an order buys. Counters of cycles
  that are only compared with their threshold stop there (`Saturate`).
* *Scheduler.* Two jobs are enough for every race over the heap (a re-queued job
  against a scheduled one, equal times, the last job against drain); two
  credentials and two busy tries visit every branch of the nested loops (four
  busy tries in the code), no credential at all the branch before them; one retry
  makes a first and a last attempt, two retries (`redeem_live`) one in between.
  `Horizon` bounds the time that passes while nothing waits for it.
* *Ledger.* `MaxOrders` orders of up to two lots at two prices; the cash pays for
  two of them. With three orders two compete, and one settles between. Which
  market calls does not matter to the ledger, so one token stands for all.
* *Gate.* Four polls per monitor fill a queue of two, block, and leave two rows
  when the cycle ends. Capacity and number of queues are those of the code.
* *User channel.* A list of two rows and six reports: the list overflows before
  the order, between order and ingestion, and after it. Three failures as in the
  code, so that a counter is reset after one and after two.
* *Balances.* One market, two readers: one holds the lock while the other waits,
  is spared or is cancelled. The poll interval, the gap between forced reads and
  the ages are two and three ticks and a request takes up to two, so that an
  answer is stored later than the entry it replaces would have expired, and a
  back-off of 1, 2, 4 ticks reaches its maximum. With a second market the states
  are too many for a run; that the readers of several markets do not
  disturb each other is what the proofs add, which hold for any number of them.
* *Session.* A week of two days of nine units, epochs of four, and 18 units in
  all: epochs that are cut by a day and by a window, a whole week of windows, a
  cycle that begins in the middle of an epoch, and four cycles in a row. Windows
  of two and three units last one sleep of the loop and one and a half. A task
  begins up to one unit late (`Lag`).

No run uses symmetry: the symbols differ in order, jobs in their slots, readers
in what may cancel them.

Fairness:

* Coordinator: weak fairness of each monitor and of each buy task (the event loop
  runs what can run, and a monitor's loop ends with the epoch), and of
  `ExchangeRefuses`, the HTTP client giving up. Nothing is assumed about fills.
* Scheduler: weak fairness of the worker, of the answer of a call (every request
  has a timeout, `wait()` polls 30 times), of time, and of the end of `cli.py`.
  Not of `LeaveCycles`: a run need not end.
* Ledger: weak fairness of a walk; strong fairness of the two calls the monitors
  make with every poll and of time, which other callers only hold up.
* Gate: weak fairness of each monitor, of the writer and of the engine. Polls
  are assumed to end, as each has a timeout. Whether monitors raise is not
  assumed: `GatherReturns` says what a failure may cost.
* Balances: strong fairness of the reads of each reader (a request is answered or
  given up by the HTTP client, and a waiting reader gets the lock in its turn, as
  `asyncio.Lock` is first come, first served), weak fairness of the monitors'
  ticks and of time. Nothing is assumed about what a request returns.
* Session: none; its properties are about what a step may do.
* User channel: weak fairness of the listen task, and strong fairness of a
  successful reconnection: of ever more attempts one succeeds. The code retries
  without end, except for refusals, so no weaker network would do.

## 4. What is proved

For all values of the constants, from the named assumptions of the modules
(sizes and counters are numbers, at least one cycle and one attempt, fees do not
exceed notionals).

* `EntryStrategyProofs`: `TypeCorrect`, `LockHeldInside`, `BusyIffTask`,
  `NoSellDuringBuy`, `OneBuyPerEpoch`, `LockedForTheEpoch`, `SellsAreBudgeted`,
  `FillsAreReal`, `LifecycleIsKept`. `TypeOK` is inductive alone. The next four
  are proved together as `EntryInv`. `AtMostOneBuy` is not inductive: it
  says nothing about a task whose order is still in flight. `BuyAccounting` adds
  that a task that posts belongs to a strategy that is neither done nor has an
  order in the book, and that a strategy without such a task that is not done
  has none either. For this one needs that `busy` and the task agree
  (`SingleFlight`), as `Triggers` looks at `busy` only. `BuySellExclusive` needs
  `LockDiscipline`: a buy task starts under the lock, which the exit holds.
  `SellBudget` follows from `SellsOK` (the attempts of a slot are the sells that
  were posted, and an exit under way has a reason to compare them with),
  `NoPhantomFill` from `FillOK`: what any slot may have read is bounded by what was
  held before and what the exchange has filled since, and a baseline that has not
  missed anything is at least the former (`Based`), so that a balance above it
  shows a fill. The refinement of `PositionLifecycle` needs `AwaitOK`
  besides: the slot of an exit that awaits something is confirmed and not closed,
  though other monitors write to it meanwhile.
* `RedeemSchedulerProofs`: `TypeCorrect`, `CountIsRight`, `NoJobTwice`,
  `NoSecondRedeem`, `NothingLeftBehind`, `CallsAreBounded`, `QueueIsKept`. The
  strengthening has two parts:
  `HeapOK` (the heap is finite, the counter its size, no entry is newer than
  `seq`, hence a pushed entry is new) and `JobsOK` (there is a current job
  exactly while the lock is held; a job whose monitor still runs is neither
  queued, executed nor paid, hence scheduling does not double it; a call is made
  with a credential there is). Without credentials a job is popped and pushed in
  one step (`Requeue`), which `KeylessStep` and `RequeueHeap` deal with.
  `CallBudget` needs `CallsOK`, which gives every execution that is over its
  whole budget and the running one what `place` says it has spent. For the
  refinement of `RedeemQueue`, `AskedOK` tells a job that was dropped from one
  that was never asked for, and `QueueStep` shows that every step changes one job
  in one of the four ways of the abstract queue, or none. `GivenUpIsSpent` says
  what that refinement does not: `RedeemQueue` counts a dropped job as one with no
  tries left, whatever `retries` holds, and the theorem is that a job which is
  neither queued, executed nor paid has had them all. It follows from `QueueStep`
  and from `RetriesGrow`, and with `DrainedClean` it gives `NothingForgotten`: when
  the run has ended, each redeem a cycle has asked for was answered with a hash or
  tried `MaxRetries + 1` times.
* `PaperLedgerProofs`: `TypeCorrect`, `AlwaysSolvent`, `CashIsAccounted`,
  `SharesAreAccounted`, from `MoneyOK` (types, solvency and both equations) and
  `QueueOK` (what is in the queue are orders). `SellsRest` needs `RestOK`: the
  ticks an order has had are covered by the time it has rested and by what is
  left of the current gap. The sizes are products of two parameters; `Gap(n)` hides
  the product, and `GapFacts` says all that is used of it. `OrdersFillOnce` bounds
  fills and pending orders together by the accepted ones (`FilledOnce`).
* `UserChannelProofs`: `TypeCorrect`, `NoReportTwice`, `FewLeftOut`,
  `LossIsTolerated`. The list has no gap and
  ends with the latest report (`StoreOK`), hence the row behind the index is later
  than `Passed`, and nothing later than that has been counted (`FillOK`). That
  failures stay within their bound needs that a loop that runs has one left
  (`SessionOK`). `FewLeftOut` needs `LossOK`: of the reports since the answer that the
  index has passed, those not counted are no more than the rows dropped, for a row
  that drops takes at most one report past the index. The bound of `LeftOut` adds
  what came before the answer and what is still to be read; it is of use while few
  rows have dropped, and says nothing of trades that were never reported.
* `WaveGateProofs`: `TypeCorrect`, `RowsStayInOrder`, `FewAreLost`, for any number
  of symbols and any capacity. `RowOK` orders what is displayed, in the hands of
  the writer and in the queue, drops from the head included, and `RoomOK` bounds the
  queues. `LackOK` follows the rows that are not on the display: while a monitor
  runs they are in its queue or in the writer's hands, and afterwards nothing is
  added, whether the rest is shown, dropped or abandoned. `MonitorsAreServed` is the
  safety behind `GatherReturns`: while a monitor may submit, its symbol is active
  and the writer runs, since the gate is closed after the last monitor only
  (`ServedOK`). `SentinelIsFound` justifies an abstraction: the writer's test of a
  closed gate with empty queues is never what ends it, as every queue of a closed
  gate ends with a sentinel until the writer takes one.
* `BalanceCacheProofs`: `TypeCorrect`, `SharesStayYoung`, `ClobIsSpared`, for any
  number of markets and readers. `LockOK`: the lock is held by the one reader
  that stands under it, cancelled ones included. `CacheOK`: an entry was read at
  most one request before it was stored. `AskedOK` and `SpareOK` carry the tests
  made under the lock to the request that follows them. `LockIsOfAReader` is the
  mutual exclusion that follows; `ThirdTestPasses` justifies that the model has two
  tests of the back-off where the code has a third (`clob_client.py:794`), which
  finds no back-off either.
* `TradingSessionProofs`: `TypeCorrect`, `StrikeIsOfTheEpoch`, `TradesAreQueued`,
  `OneJob`, `OneCoordinator`, `RunGoesOn`, for any interval, stagger, slack,
  schedule and list of targets. `TimesOK` relates each task to the clock, `CycleOK`
  all tasks to the epoch of their cycle as long as none is carried over, `LoopOK`
  the wait of the loop to both. `RunGoesOn` rests on `WindowAhead`: a day of the
  week recurs among the next `Days`, today's a week later.

* `TradingTimesProofs`, on top of `TradingSessionProofs`: when the bot trades.
  `WindowSeen` needs `WaitOK`: an inactive moment in every `LogInterval` up to the
  next look, and the clock not beyond that look. `EveryEpoch` needs `PaceOK`, a
  bound on the clock in each phase of the loop and of each task, as long as every
  task is about the epoch of its cycle and none has raised: a strike is found by
  `Settled`, which is also how long a monitor may be held up, a task has ended by
  `Latest`, the loop looks again less than an epoch after `until`.
  `NoWindowBeforeNext` and `NextStartIsActive` say of `next_window_start` what its
  name promises: nothing active before it, and it lies ahead and is active. That
  there is a least candidate comes from the well-foundedness of the naturals, as a
  set of candidates is not known to be finite.

Hypotheses beyond the assumptions of the modules, each on the theorem that needs it:

* `Brief` (`EveryEpoch`): four requests in a row fit in an epoch, and the two seconds
  between cycles are less than one. An epoch has 300 seconds
  and the page of the strike a timeout of 25 (`data/polymarket_strike.py:69`), but the
  fetch of the event has no timeout of its own (`engine.py:305-308`; the default of
  aiohttp is 300 seconds). So this is an assumption about the network, which the code
  does not enforce: with a longer answer a cycle may end after the next epoch is
  over, and that one is left out.
* `StartsInDay` (`NoWindowBeforeNext`, `NextStartIsActive`; `RunSurvives` says it of the
  schedule): every window starts at an hour and a minute; `datetime.replace` in
  `next_window_start` raises for any other, and `config.py:17-21` does not refuse it.
  That every window ends after it starts (`NextStartIsActive`) is not ensured by the
  code either: a window across midnight is accepted and never active (section 5).

Nothing is claimed for runs without a stagger. `config/default.yaml:34` sets
`stagger_delay_seconds` to 0, but under a section `monitor` that `Settings` does not
have (`config.py:319-336`), so the value in effect is the 5 of `config.py:267`, and the
properties with `carried` are all that holds.

Only model-checked: the liveness properties, which (with `ENABLED`) are out of
reach of the proof system: `EpochEnds`, `TimeStop`, `JobSettles`, `DrainEnds`,
`QueueEmpties`, `GatherReturns`, `Recovers`, `ReadsEnd`, `TradeIsRead`. Every other
property of a passing run is a theorem. No recursive definition and no induction
over data occurs in the modules.

## 5. Hazards without a property

`PROJECT.json` lists 40 hazards with their lines. These have no property, or only a
partial one, and why:

* After one monitor has left the epoch, the other position is no longer
  evaluated (`exit_strategy.py:697`). `TimeStop` is stated for the time before.
* Sells are never cancelled (`exit_strategy.py:559`). The model has them resting
  and filling late; `SellBudget` bounds their number.
* After a clean close the listen loop calls `_listen` on the closed socket for
  ever (`data/clob_user_ws.py:253`): `SeeCleanClose` models it and `Recovers`
  excepts it, as no text promises a reconnection.
* A trade that is matched, mined and confirmed is averaged three times
  (`exit_strategy.py:306-317`): `CountedOnce` is about reports.
* A baseline that has missed shares held before (`exit_strategy.py:800-801`) is
  excepted from `NoPhantomFill`; a fill that was read before the baseline was taken is
  never noticed, and no property says that it should be.
* The redeem job of a market whose own monitor raised is lost; `TradedIsQueued` is
  stated for the others, and `NoEpochLeftOut` for cycles in which none raised.
* `TradeIsRead` says that a read begins. It supposes polls that succeed and an epoch
  that goes on: a request that comes in the last poll is not followed.

Smaller ones, which no text of the repository is about:

* Every tick of either market counts as a monitoring cycle of both strategies
  (`exit_strategy.py:714`).
* When all symbols are deactivated, the writer sleeps in a loop that does not see
  the sentinels, and shutdown takes its five seconds (`executor.py:144`).
* A configured 0 is read as the default (`redeem_scheduler.py:111`, `:219`).
* No failed request leads to the back-off of the balance cache (see `BalanceCache`).
* The first balance read of a monitor, before its loop, has no timeout
  (`executor.py:648-650`).
* Misspelled weekdays and hours of a schedule are not refused (`config.py:17-56`),
  and a window across midnight is never active.

## 6. Where the code differs from what is said

Each of these is a run that ends with the counterexample:

| Run | Property | Code | Said in |
|---|---|---|---|
| `entry_outage` | `NoUnsoldClose` | readers that fail count as zero shares, `clob_balances.py:54`, and a position read as flat is closed for good, `exit_strategy.py:537` | `README.md:107` |
| `redeem_failed` | `FailedIsNotRedeemed` | a failed transaction with a hash counts as success, `redeem.py:278` | `redeem_scheduler.py:68` |
| `wave_stuck` | `RowsMoveOn` | a wave is given up at a silent symbol, so one failed monitor blocks the other in `submit_wave` for good, `executor.py:211` | `config.py:278` |

A monitor does raise: the fetch of the event in `engine.py:310` lets a connection
error through, and so does anything its loop does not catch. An epoch it had
begun to trade then gets no redeem job either, which is why `TradedIsQueued` is
stated for monitors that end.

Smaller differences that the models show, without a run of their own:

* The baseline of a fill is taken after the order was answered and not before it
  (`exit_strategy.py:800`; `README.md:90`): a fill that came at once is not seen as
  one. `NoPhantomFill` holds all the same, except for a baseline that was read as zero
  while shares were held before (`blind`).
* "At most once per epoch" (`README.md:68`) is kept by the coordinator, which lives
  for one cycle. If the stagger carries a market into the next epoch, the next
  cycle trades that epoch again; `OneCoordinatorPerEpoch` excepts it (`carried`).
* A btc monitor beside the markets that has failed ends the whole run, and the
  gate is not shut down: its exception is raised again in the `finally` of
  `run_all_markets` (`engine.py:571-577`; `SidecarRaises`, `RunSurvives`).
* A strike that cannot be fetched becomes the spot of the moment
  (`data/strike_price.py:69`; `README.md:46` says strike at epoch start). It is of
  the epoch all the same (`StrikeOfTheEpoch`).
* `--dry-run` (`cli.py:33`) still probes the credentials with a request to the
  relayer (`cli.py:250-273`, `relayer_creds.py:112-128`).
* A position found flat before an exit is closed without blocking the symbol
  (`RiskFlat`, `exit_strategy.py:538`; `README.md:70` says an exit blocks it). The
  strategy of a closed position is done anyway, so there is no second buy
  (`OneBuyPerEpoch` is proved).
* A report of the user channel does not confirm a fill by itself, the balance has
  to rise above the baseline as well (`Ingest`, `exit_strategy.py:321`;
  `README.md:89` says "and/or").
* All exits share one counter of attempts (`TriesLeft`, `exit_strategy.py:580`;
  `README.md:107-108` grants risk2 its own tries).
* `schedule(wait=True)` returns after the first attempt even if the job is queued
  again (`JobEnds`, `redeem_scheduler.py:164`; docstring at `:116`).
* With asynchronous redeems a cycle ends before its job has run (`Schedule`,
  `engine.py:470`; `config.py:260` says they are awaited).
* An accepted paper buy is dropped if the cash is gone when it settles
  (`SettleBuy`, `paper_exchange.py:219`; docstring at `:57-58`).

## 7. Not modelled

* Signing, address derivation, call data, HTTP, file formats and the parsing of
  reports and pages: encodings without state. Where one may pick the wrong value
  (the regular expression over a page may find the price of another market,
  `polymarket_strike.py:44-59`) the model takes the value for the right one.
* The volume-weighted fill price, the epoch averages and extrema of the spot and
  the cost basis of paper positions: sums nothing branches on, or whose outcome a
  `view` already leaves open.
* `trading_process_log.py`, `paper_report.py`, `config.py`: rows, formatting, values.
* `backtest/`: a sequential program over a finished history; its hooks
  `execute_sell_limit` and `execute_buy_limit` are called nowhere.
* `opposite_bid_history.py`, `buy_cross_market_slot.py`, `data/clob_ws.py`: imported
  by nothing that runs.
* The `sync` branch of the balance read (`clob_client.py:701-747`): no caller.
* The rotation of the credentials itself (`redeem.py:105-131`): a pure function;
  `RedeemScheduler` has its result, one try of each.
* The ages of a spot once its feed has stopped: `price_store` keeps none.

## 8. What is left

The core of the bot is modelled. What would add to it, in this order:

1. Coordinator and gate under one monitor loop, with a coarser coordinator
   (`PositionLifecycle`) so that the product stays small: the ticks a blocked
   `submit_wave` costs a time stop.
2. An accumulating model of the epoch average and extrema of the spot, against
   their definition over the whole epoch.
3. With a stagger of at most `d`: that a market is only carried over by a cycle that
   begins in the last `d` of its epoch, which the wait for a window and the start of
   the bot allow and the end of a cycle does not.
