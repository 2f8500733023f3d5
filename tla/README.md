# TLA+ specifications of ibkralgoTrade

The program is a trading bot for US equities on an Interactive Brokers paper
account: one Python process, one asyncio task, a cycle every 450 seconds
(`main.POLL_INTERVAL_SECONDS`). What it has to get right is not the arithmetic
of a signal but the bookkeeping around it: a position exists at the broker, in
memory, in `logs/positions.json` and, once closed, in a CSV journal; its
stop-loss and take-profit are orders that live at the broker whether or not the
bot runs; and every one of these can change while the bot waits for another.

These modules model that bookkeeping. TLC checks them on small instances, and
TLAPS proves their safety properties for every value of the constants.

    tlc -workers 2 -config BracketOrders_calm.cfg MCBracketOrders
    tlc -workers 2 -config Components.cfg MCComponents
    tlapm TradingDay_proofs.tla

## 1. Inventory

| Part | State | Operations | Hard behaviour |
|---|---|---|---|
| Bracket orders, `execution/order_manager.py` | orders and positions at IBKR, what `ib.trades()` shows | bracket entry, wait for fill, reprice or replace the children, confirm them or flatten, cancel, market exit, restore | fills, rejections and cancellations at every await; a Cancelled that still fills; timeouts |
| `PositionManager`, `execution/position_manager.py` | positions, cooldowns, entry counter; `positions.json` | open, close, count an entry, adopt from the broker, load, save | crash between order and record, failed save, unreadable file |
| Entry and exit, `main.py` 935-1662 | none of its own | judge limits, send, record, journal | the order of these steps; an exception ends one symbol's turn |
| `TradeJournal`, `execution/trade_journal.py` | CSV rows | append, daily profit and loss | the row comes after an await |
| Main loop, `main.py` 2322-2498 | connection, failure count, screening state | connect, check the account, screen, cycle, sleep | outages, another account after a reconnection, exceptions, restarts |
| `IBKRConnection`, `core/connection.py` | the socket | bounded retries with backoff | gateway restarts |
| Scripts and systemd units | the process | start on trading days, stop after the close, restart on failure | stop at any await |
| Watchlist, attention list, rank history | lists, `turnover_ranks.json` | screen, fall back, truncate, remember | failed or empty scans, repeated scans of a day |
| Pacing and caches, `core/pacing.py`, `data/` | request times, bars, contracts | acquire, prune, fetch once a day | bursts, unfinished bars, stale prices |
| Signals, sizing, `strategy/`, `execution/position_sizing.py` | none | pure functions | boundaries, rounding |
| Backtests, `backtest/` | cash, open trades | replay of bars, walk-forward windows | order of exits within a bar, look-ahead |
| Records, `execution/fill_log.py`, `scripts/` | `fills.jsonl`, journal, dated snapshots | append, copy and prune, report | lines cut off, failed copies, days without a start |
| Logging, tax export, report rendering, web site | none that trading depends on | write, render | none |

The main loop runs the cycle (`run_watchlist_cycle_async`): synchronise with the
broker, put missing protection back, then one turn per symbol, which is an exit
turn if the symbol has a record and an entry turn if not. Nothing in the process
runs concurrently, so the only interleaving is with the broker, the gateway, the
operating system and the calendar, and it happens at awaits. What the parts hand
to each other is files (`positions.json`, `turnover_ranks.json`, the journal and
the log, which the jobs after the close read) and values passed by the cycle:
the list of symbols, the daily bars, a price with a staleness flag, a quantity.
The backtests share the rules with the cycle and no state. `PROJECT.json` lists the hazards that follow, each at the line where it bites.

What makes each part correct: an account that is never short and never holds a
lot nobody knows of or nothing protects; limits that hold although the process
may die between any two steps; sessions in which nothing is traded unless the
account was found to be a paper account; a loop that goes on; decisions made
from finished bars and prices of the day; a list of symbols that stays within
the request budget and recovers from failures; backtests that neither look
ahead nor spend money twice; records that survive what happens to them.

## 2. Modules

| Module | Models | Actions are |
|---|---|---|
| `BracketOrders` | one symbol: all its orders, its record, every step of the cycle | the code from one await to the next, plus one per answer of the broker |
| `TradingDay` | several symbols, days and restarts: limits, memory, file, journal | one per step that changes memory, a file or an order |
| `MainLoop` | `main()` around the cycle | the code from one await to the next, plus gateway, market, process |
| `PositionLedger` | the promise of `BracketOrders`, without the orders | what happens to a position |
| `BracketLedger` | the mapping of `BracketOrders` to `PositionLedger` | |
| `RequestPacer` | `core/pacing.py` | one round of `acquire`, and the clock |
| `MarketData` | bars, caches, targets and prices of a symbol's turn; extends `RequestPacer` | the code from one await to the next, plus ticks and nights |
| `Watchlist` | refresh, attention list, `turnover_ranks.json` | the same, plus `rank_turnover.py` and restarts |
| `TradeRules`, `PriceBand` | signals, exits, costs, sizes, price band | none: operators |
| `BacktestEngine`, `Portfolio` | `backtest/engine.py`, `backtest/portfolio.py` | one bar; exits, one candidate, the end of a day |
| `BacktestParity` | the engine beside a portfolio of one symbol | |
| `WalkForward` | `walk_forward.py`, `multi_symbol.py` | one window, one symbol |
| `Records` | fill log, journal, snapshots, ranking, report | the jobs of a day in the order of the scripts |
| `MCBracketOrders`, `MCTradingDay`, `MCComponents` | constants for TLC; the last one runs the parts of the second half | |
| `BracketOrders_proofs`, `TradingDay_proofs`, `MainLoop_proofs`, `Records_proofs` | theorems about the module of that name | |
| `BracketLedger_proofs` | theorems about `BracketOrders` without the races, and the refinement | |
| `MarketData_proofs`, `Watchlist_proofs` | theorems about `RequestPacer` and `MarketData`; about `Watchlist` and `PriceBand` | |
| `Backtest_proofs` | theorems about `WalkForward`, `BacktestEngine`, `Portfolio`, `BacktestParity` | |

The first three models look at the same cycle from three distances. `BracketOrders`
has one symbol and every order; `TradingDay` has several symbols and treats an
order as answered or not; in `MainLoop` the whole cycle is one step. What one
leaves out, another keeps.

### BracketOrders

`pc` is the await at which the task is suspended. `idle` is the sleep between
cycles, `query` the read of the book by the restore loop, `restore` what
follows it, `contract` the lookup of the contract, `process` the symbol's turn,
`cancel` and `cancelWait` are `cancel_bracket_orders_async`, `parentWait` and
`parentGrace` the wait for the BUY and the three seconds in which a Cancelled
may still turn into a fill, `reprice` the modification of the children,
`ensure` `_ensure_children_are_live_async`, `marketWait` and `marketGrace` the
market SELL. Cancellation, confirmation and market order are shared by three
callers, which `caller` remembers.

A pair is an STP and an LMT order in one OCA group. `resting[k][l]` is the
status of a leg: `sent` (PendingSubmit), `live` (PreSubmitted or Submitted),
`pcancel` (PendingCancel), `filled`, `cancelled`. A market order may be a
`ghost`: reported Cancelled with Error 10349 and alive, as DECISIONS.md and
`_await_late_fill_async` describe. `seenFill` says whether
`find_filled_resting_exit` finds something, and deliberately does not say whose
fill it is, because the code does not ask. Prices are two values, derived from
the reference price or from the real fill: that is all the record and the book
can differ in.

Abstractions: an order fills as a whole; of the prices of a pair both are
modified or neither; one symbol; `ENABLE_REAL_ORDERS` is set (the dry run sends
nothing). `Settled` is an assumption: by the next cycle or the next start the
broker has answered what it was sent, since it answers in seconds and these are
450 and 60 seconds apart. The race `SlowCancel` lifts it for cancellations.

What the broker may do to overtake the bot is a constant, `Races`, so that a run
or a theorem can say which race a property survives and which race breaks it.

An exception ends the code it is raised in: a turn (`LoseConnection`) or the
restore loop (`RestoreLoopFails`, for this symbol or for one in front of it),
after which the cycle goes on to the turns and a later cycle restores.

### TradingDay

`mem` and `file` are what `PositionManager` holds and what `positions.json`
holds, as far as the limits depend on it; `_save` copies one to the other or
fails (`SaveFails`, an OSError that the code logs), `_load` copies back what is
of today, or starts empty (`FileLost`). `lossRows` are the losing rows in the
journal, `losses` the losing trades that were really closed; the difference is
what a crash or an exception between `close_position` and `record_trade` costs.
The loss limit is a percentage in the code and a number of losing trades here.

A turn takes the steps of the code in the code's order: the three limits judged
before data is fetched (`BeginEntry`), the loss limit (`CountAttempt`), the
counter saved, then the order, then the record; and for an exit the order, the
record, then the journal. A turn may end after any of them.

### MainLoop

`Connects` is the line that binds `ib` together with `ensure_account_is_paper`,
which comes after it and may raise; `FailedRound` is `except ConnectionError`,
`Raised` is `except Exception`. The gateway may come back logged in to another
account, as IBC's TradingMode is one line of a configuration file
(DECISIONS.md 76). The two counters saturate above the threshold, where the code
no longer tells numbers apart. `left` is what a refused session leaves of the code's count: the
reset comes after the account check, which raises, so that the rounds of the
next outage are counted on top of it.

### PositionLedger and the refinement

`PositionLedger` has five variables: lots held, whether a BUY may still fill,
whether the bot carries an entry through, whether the position is recorded,
whether one was closed today. A lot may be bought only when none is held, none
is on its way, none is recorded and none was closed today; a lot that is held
and neither recorded nor being entered is adopted in the end. `BracketLedger`
maps the orders to it: a BUY is on its way while the parent is in flight, an
entry is carried through while the task waits inside `place_bracket_order_async`
and has not begun to flatten. TLC checks that `BracketOrders` implements it, the
fairness of `Adopt` included, which is what makes a crash between the order and
the record harmless (`sync_with_broker_async`).

### MarketData and RequestPacer

The pacer's time is kept as the ages of its timestamps, saturated at the length
of the window, so that its state is finite. `issued` is a history variable: the
requests of the last window by the clock, whatever the deque says. A sleep may
return early, as a float deadline may; the code then prunes and judges again.

A process that starts after a night has an empty deque (`NewProcess`).

`stage` is the await a turn is suspended at. A price is known by the day it came
in, because the Ticker that ib_async hands out again still holds what an earlier
call left in it. Every update sets the Ticker's time, which is all that the code
compares; it may bring a market price (`WithPrice`), a close (`WithClose`) or
neither, like a bid or a size (`Stamped`). `purpose` tells the
turns apart: an entry needs bars and a signal, the entry of a momentum target
goes straight to the price, an exit takes stale prices too.

### Watchlist

One turn of the main loop is `Refresh` or `KeepList`, then `Carry`, `Scan` and
`AddSurges`, which are the code between the awaits of
`_apply_attention_watchlist_async`, any of which may raise (`ApplyFails`). What
the bars say of a symbol is one of six values drawn anew at every refresh.
Either write of `turnover_ranks.json` may fail, and so may each reading of its two
halves (`AsRead`): what cannot be read is taken for empty, and what is taken for
empty is written back. `judged` remembers the last judgement and whether a ranking
was written since then while the symbols could not be read. The feature flags are set so
that all paths are walked, although `ENABLE_ATTENTION_WATCHLIST` is switched off
at this commit in the code's configuration.

### TradeRules, PriceBand and the backtests

Prices and money are integer cents and percentages stay percentages, so that
comparisons such as `deviation <= -threshold` become exact ones between
products. A fill and a commission are rounded down to a cent, which the floats of the source
are not. The commission is the fee per share or the minimum of an order, whichever is
more, under its cap; the instance sets the fee so high that the larger orders pay it. A value that may be missing (an open, an index reading) is a set with at most one
element. `BacktestEngine` judges one bar per step and never exits and enters on
the same one; `Portfolio` takes the exits of a day in one step, as nothing is
decided between them, and one step per candidate after that. `PriceBand` sets
the bounds of the watchlist beside the size of an entry; the two are computed
apart from each other in the code and have to agree.

A run of the engine ends with its data; the sizing function raises for an
equity of zero or less, which the instances do not reach; `minHistory` is at
least the window of the average, as the configuration has it.

### Records

`fills` are the lines of the fill log with whether they can be read, and whether
the last one was ended. `saved` maps a date to the snapshot directory as far as
the journal is concerned. `verified` follows one copy that was read back as equal,
any one of them, with its rows, and notes when the tool writes over it. A copy
ends well, cut off, or without having written anything (`Outcomes`). The ranking of
the day is a step here; what it writes is in `Watchlist`. The
journal may be deleted or cut off at any step, the backup may be run again by
hand, a copy may fail half-way, the bot may not have been started.

## 3. Runs

| Run | Asks | Bounds |
|---|---|---|
| `bracket_races` | `TypeOK`, `ExitSellsAlone`, `EntryOnlyWhenFlat` under all races | 2 pairs, 1 crash or lost connection, 1 lot short; 2.3 million states |
| `bracket_calm` | `NoShort`, `AtMostOnePair`, `EntryOnCleanBoard`, that unrecorded and bare lots are repaired, and the refinement `KeepsLedger` | the same, races `ForgottenFill` and `Overnight`; 0.7 million states |
| `components` | 20 invariants and `TurnsEnd` on the second half of the modules, see below | see below; 1.4 million states |
| `trading_day` | the four limits | 3 symbols, 2 positions, 2 entries and 1 loss a day, 2 days, 1 fault of any of 6 kinds; 4.2 million states |
| `main_loop` | `RefusedFirst`, `OneAlertPerOutage`, `CyclesGoOn`, `ScreeningIsRetried` | 2 retries, alert after 3 rounds, 2 outages, 1 exception, 2 days; 0.2 million states |
| seven `violation` runs | one statement of the documentation each, see section 5 | as small as shows it |

Why the bounds suffice. Two pairs are the smallest number at which one can work
beside another, and identities are reused when a pair is dead, so histories are
not bounded by them. One fault puts a crash at every step; the histories around
it are unbounded. One lot short lets a second sale be seen. Three symbols
against a limit of two let a third entry be tried while two positions are held
or one is being closed; two days let a cooldown and a counter expire. Runs with
two faults on two symbols and with three entries a day were made once and
showed nothing else. Two outages after each other let a count be carried over.

`bracket_calm` leaves `FillInCycle`, `FillAfterCancel`, `FillAfterTimeout` and
`LateFill` out because `NoShort` does not hold with them: the bot decides from
what it read seconds ago, and the last line of defence is that IBKR refuses the
surplus (Error 201). The code's comments know this exposure and reduce it. It
leaves `SlowCancel` out because a pair whose cancellation is pending then stands
beside a new one, which `AtMostOnePair` and `EntryOnCleanBoard` exclude;
`NoShort` and the ledger hold with it, as section 4 shows. `ExitSellsAlone` and
`EntryOnlyWhenFlat` hold with all of them.

`EntriesWithinLimit` and `HeldWithinLimit` say what the faults may cost: the
limit itself as long as the file was written and read (no entry was aborted with
its BUY at the broker), and no more per fault than one fault can hide, a day's
worth of entries or one symbol.

`components` runs parts that share no state: `subject` chooses one and the
others stand still, so the states add up and do not multiply. What it asks:

| Part | Properties | Bounds |
|---|---|---|
| market | `PacingHolds`, `CachedBarsAreFinished`, `OneDailyFetch`, `NoEntryOnAClose`, `SilentStreamIsNotRead`, `TurnsEnd` | 2 requests in 3 slices of time, sleeps that return 1 slice early, 2 polls, 2 days |
| watchlist | `ListWithinBudget`, `FallbackRecovers`, `DroppedStayDropped`, `SurvivorsStayOnRecord`, `OneRowPerDay` | 4 symbols for 3 slots, 2 rankings, 3 states of the market, 3 days, 2 rows of history |
| engine | `FlatOvernight`, `FillsInsideTheBar` | 4 bars out of 5 kinds (near the average, gap up, gap down, wide, close alone), 12 settings |
| portfolio | `CashCoversPositions`, `NoEntryAfterBreaker`, `NoReentryOnTheDay`, `EngineAgrees` | 2 symbols, 3 days of 4 kinds of bar, 3 plans |
| walk-forward | `TestedOnceAndUnseen` | 3 symbols of 2 to 7 bars, 3 window lengths, 2 settings |
| records | `RecentDaysRecoverable`, `MissedDayIsReported` | 3 days, 2 snapshots kept, 2 rows, 1 fill |

Two requests fill the pacer's window while a third waits, and a wait spans the
window. Four symbols overflow the slots by one from each side: the fixed list,
the growth list, the scan and the carried symbols. A row of history falls out
on the third day. Three days of the portfolio hold an entry, a loss that trips
the breaker on the day of another symbol's entry, and a re-entry the day after;
the third plan lets the clamps cut the sizes. Three days with two
snapshots prune once, and let two newer dates with failed copies prune a good one. This run does not check for deadlock: data, days and bars end.

Some of these properties have an exception, which is what the code does and what the
models do, see section 5. `NoEntryOnAClose` and `SilentStreamIsNotRead` do not say
that the price is of today or new. `CachedBarsAreFinished` excepts bars with
dates that cannot be read, `SurvivorsStayOnRecord` symbols that could not be
read, and `RecentDaysRecoverable` copies that the tool wrote over or counted out.

`bracket_races`, `bracket_calm`, `trading_day` and `main_loop` check for
deadlock: the bot can always go on.

Each property of a passing run has a mutant, the handler as a plausible slip
would have written it (the mutants stand in the modules under that heading).
`RestoreUnchecked` is a slip that really happened: it is the incident of
2026-08-18 told in `_restore_missing_resting_orders_async`.

### Fairness

`BracketOrders`: the event loop resumes a suspended task (weak fairness of the
bot's steps); every trading day has cycles (strong fairness of `Sync`, which
days that end may disable again and again); systemd restarts the process
(`Restart=on-failure`; its limit of five starts an hour is not reached with
the bounded faults); the broker accepts or drops what it was sent and fills or
ends market orders. Nothing is assumed of prices, resting orders need never
fill, and no signal need ever come.

`MCComponents`: the event loop resumes the task that waits for an answer or for
the end of its sleep (weak fairness of the steps `Turn` of a symbol's turn), and
time goes on (weak fairness of `TimePasses`). IBKR need not tick: the polls of a
stream are bounded, and each source after it answers or gives up by its timeout.

`PositionLedger`: weak fairness of `Adopt`, as promised, which `BracketOrders`
provides under its own fairness.

`MainLoop`: the loop's own steps, the passing of the retry interval and the
timer that starts the process. The gateway need not come back: `CyclesGoOn` has
the reachable gateway as its premise.

## 4. Proofs

| Theorem | Says |
|---|---|
| `BracketOrders_proofs!TypeCorrect`, `ExitsSellAlone`, `EntriesOnlyWhenFlat` | the properties of `bracket_races`, for any pairs, races and faults |
| `BracketOrders_proofs!RestoresOnClearBoard` | `RestoreOnClearBoard`, which `bracket_slowcancel` violates, for any races but `SlowCancel` |
| `BracketOrders_proofs!NeverTwoLots` | the account never holds two lots of a symbol, for any pairs, races and faults |
| `BracketOrders_proofs!SalesCloseFlat` | a record that an exit's market sale closes is closed on a flat account, for any pairs, races and faults |
| `BracketLedger_proofs!NeverShort` | `NoShort`, for any pairs and faults, if `Calm` |
| `BracketLedger_proofs!OnePairAtMost`, `EntriesOnCleanBoard` | the other safety properties of `bracket_calm`, for any pairs and faults, if `Calm` and `Prompt` |
| `BracketLedger_proofs!FillsCloseFlat` | `ClosedMeansFlat`, which `bracket_stalefill` violates, until the first fault of a process that ends with its day, if `Calm` |
| `BracketLedger_proofs!LedgerIsKept` | the safety half of `KeepsLedger`: every step of the orders is a step of `PositionLedger` or leaves the position alone, if `Calm` |
| `TradingDay_proofs!TypeCorrect`, `EntryLimitHolds`, `CooldownHolds`, `LossLimitHolds`, `HeldLimitHolds` | the four limits, for any symbols, limits, faults and days |
| `MainLoop_proofs!TypeCorrect`, `AccountsAreJudged`, `AlertsAreSingle` | the safety properties of `main_loop`, for any thresholds and accounts |
| `MarketData_proofs!PacerInvariant`, `PacingIsKept` | the request limit, for any limit, window and timer |
| `MarketData_proofs!MarketPaces` | a symbol's turn uses the pacer as its specification allows, so the limit holds there too |
| `MarketData_proofs!MarketTypeCorrect`, `CacheHoldsFinishedBars`, `FetchedOnceADay`, `EntriesAvoidCloses`, `SilentStreamsAreNotRead` | the types and the safety properties of the market part, for any number of polls and days |
| `Watchlist_proofs!BudgetHolds`, `FallbackNeverWearsDown`, `DroppedAreGone`, `SurvivorsAreKept`, `DaysHaveOneRow`, `ListTypeCorrect` | the properties and the types of the watchlist part, for any lists, slots, rankings and days |
| `Watchlist_proofs!EntryKeepsLimits`, `AboveBandMeansNothingToBuy`, `InBandSizeIsWhole` | what an entry may cost and risk, and that the price band agrees with it, for any amounts and limits |
| `Backtest_proofs!WindowsAreHonest`, `WalkTypeCorrect` | no look-ahead and no double counting, for any data and window lengths |
| `Backtest_proofs!NothingHeldOvernight`, `FillsAreReal`, `EngineTypeCorrect` | the properties of the engine, for any bars, options and rules |
| `Backtest_proofs!BreakerStopsEntries`, `SoldStaysSoldToday`, `PlansAreKept` | the limits of the portfolio, for any symbols, plans and bars |
| `Backtest_proofs!CashIsEnough` | the positions are paid for, for any plans, if `NoWipeOut` |
| `Backtest_proofs!EngineAndPortfolioAgree` | the two backtests agree day by day, if `LimitsLeaveRoom` and as long as `SizesUncut` |
| `Records_proofs!CopiesSurvive`, `MissedDaysAreReported`, `RecordsTypeCorrect` | the properties and the types of the records part, for any `--keep`, days, fills and rows |

Every safety property that a passing run checks is the conclusion of one of
these, but for `TypeOK` of `components` (see the end of this section).

Assumptions: the named ASSUMEs of the modules, which TLC evaluates in every
run, and hypotheses that stand in the theorems themselves:

* `Calm`, in the theorems of `BracketLedger_proofs`: no races but
  `ForgottenFill`, `Overnight` and `SlowCancel`. With each of the other four
  `NoShort` is false, as section 3 says.
* `Prompt`, in `OnePairAtMost` and `EntriesOnCleanBoard`: without `SlowCancel`
  either, which makes both false. With `Calm` this is what `bracket_calm` runs
  with. `RestoresOnClearBoard` has the same hypothesis and needs no other.
* No `Overnight` and no fault so far, in `FillsCloseFlat`. Each of the two alone
  leads to the counterexample of `bracket_stalefill`.
* `NoWipeOut`, in `CashIsEnough`: no bar falls to about a hundredth of a price
  that was paid (the commissions are capped at one per cent of a trade, and a
  sale that brings less than they cost would leave a debt to the other
  positions). The other theorems about the portfolio do not need it.
* `LimitsLeaveRoom`, in `EngineAndPortfolioAgree`: the two begin with the same
  money, the daily loss limit is above zero, and a plan has a slot and an entry.
* `SizesUncut`, in the same theorem: for a comparable plan, no clamp of the
  portfolio cuts the size that the engine would take. The engine has no such
  clamps, so that the two differ by design where it fails.

That states satisfy them is checked: `MCComponents` assumes `NoWipeOut` and
`LimitsLeaveRoom` of its own constants, and has `SizesUncut` as a part of its
`TypeOK`.

*BracketOrders.* The inductive invariant is `TypeOK`, `ExitSellsAlone` and
three parts that make it inductive. `PairIsKnown`: while a pair is watched
(`ensure`, `reprice`, the parent's wait) `pair` is a pair. `RestoringRecorded`:
the restore steps run only for a recorded position, so that they cannot lead to
a turn that enters. `EnteringFlat`: when an entry turn begins with no record,
the account holds nothing; this is what `Sync` establishes, and only fills of
the parent, which is not in flight then, could break it. `ExitSellsAlone` is
inductive because the step that sells is guarded by an empty board and no step
places an order while the sale is waited for.

Two more invariants lie on top of it. `BookIsRead` is about the restoration,
which reads the book once and acts on it several awaits later: until then orders
only leave the book, and all that reading overlooked is a leg with a pending
cancellation (`Leftover`), which needs `SlowCancel`. `HoldsOneLot` is about
quantity: a BUY that can still fill is waited for, or left behind until the next
synchronisation, and in either case nothing is held (`BuyIsWatched`); once the
market sell that is waited for has filled, nothing is left (`SaleFlattens`).

*BracketLedger.* On top of that, `CalmInv` relates all orders to the one lot
there can be. `SellersHaveLot`: whatever may sell, the legs of one pair or the
market order, has the lot for it and is alone (`OneActivePair`; a pair whose
cancellation is pending is not active and may stand beside it); legs that wait for their
parent will get it. `TurnIsQuiet`: what `Sync` found is still so when the turn
acts on it. `EntryHoldsLot` and `MarketHasLot`: from the fill of the BUY until the record,
and from the market order until its fill, the lot is there. The proof splits
into the broker's steps (`FillSellsTheLot` is the one that sells), the bot's
steps and the faults. The refinement uses the same invariant: a step that sells
maps to `Sold` because `SellersHaveLot` gives it a lot, and the sending of a
bracket to `Enter` because nothing is held, on its way or recorded. `PromptInv`
adds what needs answered cancellations: a pair that is not active has left the
book, and none is left when a symbol without a record is processed.

`FillInv` holds until the first fault and leads to `FillsCloseFlat`: a lot that a
resting order may sell is recorded or its entry is carried through, and after
the fill of such an order nothing is held or on its way, and nothing is bought
for the rest of the day. The session of a day therefore shows no fill of an
earlier position of the symbol, which is what `find_filled_resting_exit` relies
on without asking.

*TradingDay.* `LossesAccounted`: closed losses are at most journal rows plus
faults, plus one while a row is due. `AttemptsCounted`: memory (when the process
runs) and file both count at least the orders placed today, and one more between
the count and the order (`Covers`), but for what was hidden: nothing while the
file is intact, and at most a day's limit per fault after that. It is inductive
because the fault that makes the file lose a count adds a whole limit to what
may be hidden, and the counts themselves never pass the limit. `ExitsRemembered`:
while the file is intact, whatever was closed today is in cooldown in memory and
file, and the symbol of an entry turn is not among them. `ExposureBounded`: what
is held or being bought is within the limit, but for one symbol per fault once
an entry was aborted with its BUY at the broker (`Slack`). In a turn the memory
covers what is held or being bought except for as many symbols (`Unseen`), none
of which has a turn to come; while a BUY is waited for, its symbol is new. The
four are separate, and each needs only the types besides.

*MainLoop.* `SessionsJudged`: a bound session with an account that is not a
paper account was refused. `RoundsCounted`: the code's count equals the true
number of failed rounds plus what a refused session left standing (`left`), up
to the value above the threshold at which both saturate. The request for a
manual login is therefore brought forward by a count that was left behind, and
not made at all if that count had passed the threshold before.

*RequestPacer.* The deque is only pruned when somebody acquires, so it may hold
timestamps that have expired. `PacerInv` says that the requests of the last
window are the newest part of the deque (`NewestOf`) and that the deque is never
longer than the limit. Issuing a request appends to both; pruning removes
timestamps of full age only, and the oldest request of the window is younger
(`PruneKeepsNewest`); the clock moves both alike and what leaves the window was
the first of the newest part (`TimeKeepsNewest`). The bound follows. No fact
about when a sleep returns is used, so the limit does not depend on it.

*MarketData.* `CacheInv`: the cache is looked up before a request goes out, so
that a request is under way only for a day without an entry. `TickerInv`: a Ticker
without a time holds nothing, so that the first poll that reads a value comes
after an update, whether the code compares times or not. `QuoteInv`: a price that
is called current is of today or is the last market price the Ticker received
(`CurrentPrice`), and a streamed one was read after an update of this call.

*Watchlist.* `ListShape` has the lists be sequences and the kept symbols fit the
slots. `ListBudget`: only the fixed list of a fresh start may be too long, and
the next step screens it or falls back. `FallbackInv`: until a screening has
succeeded, the fallback list is the fixed one. `JudgementInv` is about the steps
between the judgement and the end of the function, any of which may be the last:
a symbol that was dropped cannot return as a surge, since it is either among the
kept symbols, which the surges leave out, or these leave no room. A ranking that is
recorded leaves the symbols, or leaves none and sets `judged.unread`
(`RankedJudgement`).
`DaysHaveOneRow` needs the rows of other days to stay in order when today's are
taken out, and that an empty reading of them is in order too. What a filter by places (`Picked`) returns is proved with the least
counterexample of the well-founded order on the naturals, as induction is not
at hand. `ListTypes` needs that sorting leaves no place empty: members of a
finite set that is ordered totally and without circles have different numbers of
others ahead of them, so that by the pigeonhole principle every number up to the
size of the set is one of these (`RankedMembers`).

*PriceBand.* No state: the theorems are about the operators, over the naturals
in cents, with a cash balance that was read or was not. `DivisionFits` says what
floor division does, n shares fit exactly if n is at most the quotient, and the
rest composes the clamps in the order of `_process_entry_async`.
`AboveBandMeansNothingToBuy` is an equivalence: below
`MAX_ORDER_NOTIONAL_USD` and with cash above zero, a price is kept out exactly
if its size would be zero.

*Backtests.* `WalkInv`: with the default step every bar tested so far lies
before those that the next window tests. `EngineInv`: the orders of a position
have prices, which bounds what they bring, and no position outlives the last bar
of its day. `PortfolioInv`: what the account is worth is what the day began
with plus what it realized, and while the exits of a day are due, every position
is older than the day; entries come last, so that neither the breaker nor the
re-entry rule can be overtaken. `PlanInv` adds that a slot and an entry are
asked for before they are taken. `CashInv` is about sums over finite sets of
positions: an exit never loses more than its position cost (`NoWipeOut`), an entry is
clamped to what is not deployed. The sums are folds, whose value is taken apart
one element at a time; that the order does not matter is again shown with a
least counterexample, a subset with the fewest elements.

*BacktestParity.* At night the two are alike (`SameAtNight`); during a day the
portfolio is ahead, as it takes the exits before the entries and the engine
judges the bar at the day's end. `ParityInv` says how far: nothing was held and
the portfolio bought what the engine is going to buy (`NothingHeld`), both still
hold, with a highest price that the engine has yet to raise (`StillHeld`), or
the portfolio has sold what the engine is going to sell (`JustSold`).

*Records.* `SnapshotInv`: snapshots and verified copies are of dates on which
the tool ran, and none of them lies ahead, so that today's is the newest and the
pruning counts only dates that the property counts. A copy that was not written over
is the one it was (`CopiesKnown`). `ReportInv`: the log of
earlier days never reaches a day that closed without a line. `LogInv` and
`DaysInv` are the types; that no more than `--keep` snapshots are left follows
from the first date the pruning leaves (`PruningLeavesFew`).

Only model-checked:

* liveness under fairness, which is beyond TLAPS: `HoldingIsRecorded`,
  `BareIsProtectedAgain`, `CyclesGoOn`, `ScreeningIsRetried`, `TurnsEnd`, and the
  fairness half of `KeepsLedger`;
* `TypeOK` of `components` as a whole. The types of its six parts are theorems
  (`PlansAreKept` for the portfolio); `SizesUncut`, its last conjunct, is a fact
  about the plans and prices of the instance.

## 5. Where documentation and code differ

Each of these runs has a counterexample of a few steps.

* `bracket_flatten`: `_ensure_children_are_live_async` (1162-1164) sells at
  market beside children whose cancellation it has only just requested;
  DECISIONS.md 2375 forbids that. `_market_exit_async` waits.
* `bracket_stalefill`: `find_filled_resting_exit` matches by symbol, so a fill
  of an earlier position of the session closes the record of the next one. The
  cooldown hides this on the same day; a process that runs on overnight, or a
  position adopted from the broker on the same day, does not have it.
  Without a night or a fault it cannot happen under the calm races
  (`FillsCloseFlat`). The
  position is adopted again in the next cycle and, being seen as filled again,
  is dropped again, and its protection is not put back.
* `bracket_unread`: a price that cannot be read back counts as landed.
* `bracket_slowcancel`: resting orders in PendingCancel look missing. No other
  race puts a pair beside another this way (`RestoresOnClearBoard`).
* `trading_day_filelost`: the entry limit that is to hold when the state file is
  lost is counted in that file.
* `main_loop_liveaccount`: `main()` binds `ib` before the account is checked;
  after the refusal the next turn finds a connected session and does not check.
* `fill_log_cutline`: `FillLog._append` (263-274) does not look at how the file
  ends. A line cut off before its line end takes the next record with it, which
  had been returned as recorded; `load` (290-291) says that only the last line
  can break.

Noticed while modelling and kept in the models as the code has it, without a
run of their own:

* `_get_streaming_price_async` (`data/market_data.py` 206-216) takes any update of
  the reused Ticker for a new price: it compares `Ticker.time`, which a bid, size
  or close update advances as well (119-128), and then returns whatever
  `marketPrice()` still yields. The comment (195-200) speaks of a new tick and
  of not returning an earlier cycle's price; the test of the new tick
  (`tests/test_market_data.py` 266-284) advances the time only and expects the
  price that was there before. In a process that ran on overnight this price may
  be of the day before, and an entry is then built on it as a current one.
  `SilentStreamIsNotRead` is what remains: with no update at all nothing is read.
* `_get_snapshot_price_async` (`data/market_data.py` 249-264) reads a Ticker
  that may still hold an earlier call's price, with no comparison of times; the
  comment of the streaming function (195-200) warns of just that. The constant
  `Snapshots` has it as `reused`.
* `drop_unconfirmed_today_bars` keeps the cache clean, but the targets of a
  momentum ranking whose requests failed stay empty for the day (`main.py` 611).
* `screen_value_stocks_async` (`strategy/screener.py` 223-237) returns what was
  selected before PE requests failed in a row, and the caller takes it for a
  complete screening, which is not repeated that day.
* A ranking that is scanned again on the same day is compared with a history
  that already has that day's row (`main.py` 2069-2073), and a docstring calls
  the scan a daily one although the retry interval is 900 seconds.
* A carried symbol without bars is dropped, one whose request raised is kept
  (`main.py` 1953 and 1939-1942).
* After a successful screening the fallback list contains the growth symbols,
  and a later fallback appends them again; the slots still bound the list.
* The price band knows nothing of `MAX_ORDER_NOTIONAL_USD` (`main.py`
  1664-1709): a dearer symbol inside the band gets a size of zero. The theorem
  has the limit as a premise for that reason.
* Highest prices that a trailing stop is measured from may come from stale
  quotes, as exits accept them.
* A market sell that fills in part and then times out is cancelled as not filled
  (`execution/order_manager.py` 477), and `_market_exit_async` puts the resting
  orders back with the quantity recorded before that fill. The next
  synchronisation lowers the recorded quantity, but `is_complete` compares the
  types of the resting orders and not their quantities, so the larger orders
  stay. `BracketOrders` has one lot per position and cannot show this; a model
  with quantities is item 4 of section 7.
* A position of the portfolio backtest whose symbol has no bar on the last day
  is never closed and its result is in no figure.
* A second backup on the same day overwrites the copy of the first, which may
  have been good, with one that may fail or hold less (`scripts/backup_records.py`
  138-149). The pruning counts directories (60-95), so that as many newer dates
  as `--keep` take the last good copy away although their own copies failed.
  `RecentDaysRecoverable` promises neither.
* A journal that cannot be read ends the daily report before its warning is
  printed.
* A history that cannot be read is taken for empty and written back by the next
  `append` (`data/rank_history.py` 66 and 72): rows and carried symbols are gone
  for good, where the comment of `load` (48) has the judgement of that
  day go without a history.
* Bars whose dates cannot be read keep today's unfinished bar, and the cache
  returns it for the rest of the day (`data/market_data.py` 165-174).
* `ListWithinBudget` is about the watchlist. The cycle also processes the symbols
  that are held and the momentum targets (`main.py` 1650), which the slots do
  not count.

## 6. Not modelled

* In the live models: the dry run; partial fills; entry price, highest price and
  quantities (the backtests have them); the columns of the journal;
  `CONCENTRATED_SYMBOL`; intraday and USD/JPY requests; the maximum holding
  time; the tick rounding of prices.
* A restart within ten minutes of the last historical request: the new process
  begins with an empty deque while IBKR still counts the requests of the old one.
  `NewProcess` comes after a night only, when the window is empty, and
  `PacingHolds` is a property of one process.
* The calendar of `core/market_hours.py` (dates) and the parsing of fundamentals
  (XML).
* The ranking statistic of `strategy/momentum.py`, and `metrics`, `benchmark`,
  `robustness`, `survivorship`, `signal_study` and `market_reference`:
  floating-point statistics over pandas frames, with no state and nothing for a
  model checker to interleave.
* Logging, tax export, rendering of reports, command lines, CSV parsing, the web
  site: they format finished data.
* `check_positions.py`, `check_deployment.py`, `repair_resting_prices.py`: tools
  an operator runs by hand with the bot stopped.

## 7. Plan

Done, in this order: `BracketOrders`, `TradingDay`, `MainLoop` with their proofs;
`RequestPacer` and `PriceBand` with theirs; `MarketData`, `Watchlist`,
`TradeRules`, the backtests, `WalkForward`, `Records`; the refinement of
`PositionLedger`.

The safety half of the refinement and every safety property of the passing runs
are proved.

Left, in this order:

1. Quantities in the live models, so that partial fills can be told apart, with
   `NoShort` restated for shares and its invariant extended.
2. The hazards that no property covers yet (`PROJECT.json`), most of which are
   accepted exposures of the code with no rule to check.
3. What `SizesUncut` leaves open in `BacktestParity`: by how much the two
   backtests may differ on a day on which a clamp cuts.
