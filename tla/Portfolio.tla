------------------------------ MODULE Portfolio ------------------------------
(***************************************************************************)
(* backtest/portfolio.py: several symbols on one account, day by day.      *)
(* Every day the exits of the open positions come first, then the symbols  *)
(* are asked for an entry in their listed order while a slot, an entry and *)
(* money are left.                                                         *)
(***************************************************************************)
EXTENDS TradeRules, FiniteSetsExt

CONSTANTS Plans,           \* the configurations a run is started with
          Orders,          \* the listed orders of symbols
          Rows,            \* the rows a day may bring for a symbol
          Seeds,           \* per symbol, its closes before the first day
          Days, StartEquity, DailyLossPct

\* The listed symbols have data, and a loss limit is a part of the account.
ASSUME PortfolioAssumption ==
    /\ \A p \in Plans : {p.slots, p.dailyEntries, p.minHistory, p.maxSize,
                         p.maxNotional, p.watchlistSize} \subseteq Nat
    /\ \A listed \in Orders : listed \in Seq(DOMAIN Seeds)
    /\ \A row \in Rows : IsRow(row)
    /\ {Days, StartEquity} \subseteq Nat /\ DailyLossPct \in 0..100

VARIABLES plan, order, phase, day, rows, closes, equity, dayStart, realized,
          entries, open, lastExit, at

portfolioVars == <<plan, order, phase, day, rows, closes, equity, dayStart,
                   realized, entries, open, lastExit, at>>

Symbols == ToSet(order)
LastDay == day = Days

\* Only the closes that a window or the required history can still reach.
Extend(history, close) ==
    LET all == Append(history, close)
        n   == Max({MAWindow, LongWindow, plan.minHistory})
    IN  IF Len(all) > n THEN LatestBars(all, n) ELSE all

PortfolioInit ==
    /\ plan \in Plans
    /\ \E listed \in Orders :
           order = SubSeq(listed, 1, Min({Len(listed), plan.watchlistSize}))
    /\ phase = "closed"
    /\ day = 0
    /\ rows = <<>>
    /\ closes = [s \in Symbols |-> Seeds[s]]
    /\ equity = StartEquity
    /\ dayStart = StartEquity
    /\ realized = 0
    /\ entries = 0
    /\ open = <<>>
    /\ lastExit = [s \in Symbols |-> 0]
    /\ at = 1

\* A day of the common calendar: at least one symbol has a bar.
OpenDay ==
    /\ phase = "closed" /\ day < Days
    /\ \E traded \in (SUBSET Symbols) \ {{}} : rows' \in [traded -> Rows]
    /\ phase' = "exits"
    /\ day' = day + 1
    /\ closes' = [s \in Symbols |-> IF s \in DOMAIN rows'
                                    THEN Extend(closes[s], rows'[s].close) ELSE closes[s]]
    /\ dayStart' = equity
    /\ realized' = 0
    /\ entries' = 0
    /\ UNCHANGED <<plan, order, equity, open, lastExit, at>>

-----------------------------------------------------------------------------
\* Exits

\* Mutant: the day's high does not count for the trailing stop of that day.
HighestBeforeToday(s) == open[s].highest

Highest(s) == Max({open[s].highest, BarAt(rows[s]).high})

\* The sale of an open symbol that has a bar today: the resting orders, then
\* the bot's own exit, then the end of the data.
Sale(s) ==
    LET p       == open[s]
        bar     == BarAt(rows[s])
        resting == RestingExit(p.stop, p.target, bar)
        reasons == BotExit(p.entry, bar.close, Highest(s))
                       \cup IF LastDay THEN {"END_OF_DATA"} ELSE {}
    IN  IF resting # {}
        THEN {IF r.reason = "STOP_LOSS" THEN [r EXCEPT !.fill = SellFill(@)] ELSE r :
                  r \in resting}
        ELSE {[reason |-> reason, fill |-> SellFill(bar.close)] : reason \in reasons}

Sold == {s \in DOMAIN open \cap DOMAIN rows : Sale(s) # {}}

Earned(s) == Pnl(open[s], (CHOOSE sale \in Sale(s) : TRUE).fill)

CloseOut ==
    LET earned == MapThenSumSet(Earned, Sold)
    IN  /\ phase = "exits"
        /\ phase' = "entries"
        /\ at' = 1
        /\ equity' = equity + earned
        /\ realized' = realized + earned
        /\ open' = [s \in DOMAIN open \ Sold |->
                       IF s \in DOMAIN rows
                       THEN [open[s] EXCEPT !.highest = Highest(s)]
                       ELSE open[s]]
        /\ lastExit' = [s \in Symbols |-> IF s \in Sold THEN day ELSE lastExit[s]]
        /\ UNCHANGED <<plan, order, day, rows, closes, dayStart, entries>>

-----------------------------------------------------------------------------
\* Entries

\* Mutant: the limit is taken as a fraction, not as a percentage.
BreakerInFractions == dayStart > 0 /\ realized <= -dayStart * DailyLossPct

\* Judged on what the day has realized, commissions included.
BreakerTripped == dayStart > 0 /\ realized * 100 <= -dayStart * DailyLossPct

EntriesGoOn ==
    /\ phase = "entries" /\ at <= Len(order)
    /\ ~BreakerTripped /\ ~LastDay
    /\ Cardinality(DOMAIN open) < plan.slots
    /\ entries < plan.dailyEntries

\* Mutant: a symbol sold today may be bought again today.
NeverBlocked(s) == FALSE

SoldToday(s) == plan.block /\ lastExit[s] = day

Wanted(s) ==
    /\ s \in DOMAIN rows \ DOMAIN open
    /\ ~SoldToday(s)
    /\ Len(closes[s]) >= plan.minHistory
    /\ ShouldBuy(closes[s], rows[s].market, NoFilter)
    /\ plan.uptrend => InLongTermUptrend(closes[s])

Clamped(quantity, price) ==
    LET some == Min({quantity, plan.maxSize})
    IN  IF some * price > plan.maxNotional THEN plan.maxNotional \div price ELSE some

Cost(s) == open[s].entry * open[s].quantity

Deployed == MapThenSumSet(Cost, DOMAIN open)

\* Mutant: the size is not cut to the cash that the open positions leave.
QuantityOnEquity(s) ==
    LET fill == BuyFill(rows[s].close) IN Clamped(PositionSize(equity, fill), fill)

Quantity(s) ==
    LET fill == BuyFill(rows[s].close)
    IN  Min({Clamped(PositionSize(equity, fill), fill), (equity - Deployed) \div fill})

Consider ==
    LET s     == order[at]
        fill  == BuyFill(rows[s].close)
        bought == Wanted(s) /\ Quantity(s) > 0
    IN  /\ EntriesGoOn
        /\ at' = at + 1
        /\ entries' = IF bought THEN entries + 1 ELSE entries
        /\ open' = IF bought
                   THEN [t \in DOMAIN open \cup {s} |->
                            IF t = s THEN NewPosition(Quantity(s), fill, day) ELSE open[t]]
                   ELSE open
        /\ UNCHANGED <<plan, order, phase, day, rows, closes, equity, dayStart,
                       realized, lastExit>>

CloseDay ==
    /\ phase = "entries" /\ ~EntriesGoOn
    /\ phase' = "closed"
    /\ at' = 1
    /\ rows' = <<>>
    /\ UNCHANGED <<plan, order, day, closes, equity, dayStart, realized, entries,
                   open, lastExit>>

PortfolioNext == OpenDay \/ CloseOut \/ Consider \/ CloseDay

PortfolioSpec == PortfolioInit /\ [][PortfolioNext]_portfolioVars

PortfolioTypeOK ==
    /\ plan \in Plans
    /\ phase \in {"closed", "exits", "entries"}
    /\ day \in 0..Days /\ at \in 1..(Len(order) + 1)
    /\ {equity, dayStart, realized} \subseteq Int
    /\ entries \in 0..plan.dailyEntries
    /\ DOMAIN rows \subseteq Symbols /\ DOMAIN open \subseteq Symbols
    /\ Cardinality(DOMAIN open) <= plan.slots
    /\ \A s \in DOMAIN open : open[s].quantity > 0 /\ open[s].day \in 1..day

-----------------------------------------------------------------------------
\* A sale brings at least the two commissions of its position: no bar falls to
\* about a hundredth of a price that was paid (max_commission_pct is 1).
NoWipeOut ==
    /\ CommissionCapPct \in 1..50
    /\ \A paid, row \in Rows :
          CommissionCapPct * BuyFill(paid.close)
              <= (100 - CommissionCapPct) * SellFill(BarAt(row).low)

\* The open positions never cost more than the account is worth, through
\* entries sized one after the other on the same day and losses taken in
\* between (the cash clamp of run_portfolio_backtest).
CashCoversPositions == Deployed <= equity

\* On a day whose realized loss reached the limit no position was opened,
\* whichever symbols the loss came from (the circuit breaker, which is judged
\* between the exits and the entries).
NoEntryAfterBreaker ==
    day > 0 /\ 100 * realized <= -DailyLossPct * dayStart =>
        \A s \in DOMAIN open : open[s].day < day

\* No symbol is open on the day it was sold (block_same_day_reentry).
NoReentryOnTheDay ==
    plan.block => \A s \in DOMAIN open : ~(lastExit[s] = day /\ open[s].day = day)
=============================================================================
