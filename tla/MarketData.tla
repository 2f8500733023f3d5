------------------------------ MODULE MarketData ------------------------------
(***************************************************************************)
(* What one symbol's turn knows of the market: the daily bars, fetched     *)
(* once a trading day (data/cache.py), the momentum targets made of them   *)
(* and the price an order is built on (data/market_data.py), which is      *)
(* looked for in a stream of ticks, a snapshot and the last daily bar.     *)
(* Every historical request passes the pacer.                              *)
(*                                                                         *)
(* ib_async keeps one Ticker per contract and hands it out again with what *)
(* it held, so a price in it may be of an earlier call or day.  Its time   *)
(* advances with every update, of which most bring no price.  A price is   *)
(* known here by the day it came in.  A cycle runs in trading hours, so    *)
(* the day ends only in between.                                           *)
(***************************************************************************)
EXTENDS RequestPacer, FiniteSets

CONSTANTS
    Polls,          \* polls of the ticker before streaming is given up
    Snapshots,      \* what a snapshot may do, see AllSnapshots
    LastTradingDay  \* bound: trading days

\* IBKR delivers a price, or reqTickersAsync raises or returns nothing, or it
\* returns the ticker without a new price: as it stands because the request
\* ended in an error, or after an update of something else.
AllSnapshots == {"price", "nothing", "reused"}

ASSUME MarketDataAssumption ==
    /\ Polls \in Nat \ {0} /\ LastTradingDay \in Nat \ {0}
    /\ Snapshots \subseteq AllSnapshots /\ Snapshots # {}

VARIABLES
    tradingDay,
    stage,          \* the await get_current_price_quote_async & co. are at
    purpose,        \* whose turn: "entry", "exit", "momentum" (the ranking) or
                    \*   "target" (the entry of a symbol that was ranked)
    contract,       \* ContractCache holds the contract
    daily,          \* DailyBarCache: date of the entry, days of its bars and
                    \*   whether the dates of the bars can be read
    targets,        \* _momentum_targets_for_day: its day
    ticker,         \* the Ticker ib_async keeps for the contract
    previous,       \* previous_update is not None: an update came in before
    polls,          \* polls left
    quote,          \* the PriceQuote of this turn
    fetches         \* history: answered requests for daily bars today

dataVars == <<tradingDay, stage, purpose, contract, daily, targets, ticker,
              previous, polls, quote, fetches>>
marketVars == <<pacerVars, dataVars>>

KnownDays == 0..LastTradingDay
Steps == {"idle", "wantBars", "bars", "signal", "stream", "snapshot",
          "wantClose", "close", "quoted"}

\* A price: the trading day it is of, whether the code takes it for stale, and
\* its source.  NoQuote is None.
Quotes == [of : KnownDays, stale : BOOLEAN,
           source : {"none", "stream", "snapshot", "close"}]
NoQuote == [of |-> 0, stale |-> TRUE, source |-> "none"]

\* last, close: the days on which the market price and the close of the day
\* before came in, 0 for none; timed: the ticker has a time; updated: it is
\* later than the one noted when the stream was begun.
Tickers == [last : KnownDays, close : KnownDays, timed : BOOLEAN, updated : BOOLEAN]
NewTicker == [last |-> 0, close |-> 0, timed |-> FALSE, updated |-> FALSE]

NoBars == [date |-> 0, bars |-> {}, readable |-> TRUE]

MarketTypeOK ==
    /\ PacerTypeOK
    /\ tradingDay \in 1..LastTradingDay /\ stage \in Steps
    /\ purpose \in {"entry", "exit", "momentum", "target"}
    /\ contract \in BOOLEAN /\ previous \in BOOLEAN /\ polls \in 0..Polls
    /\ daily \in [date : KnownDays, bars : SUBSET KnownDays, readable : BOOLEAN]
    /\ targets \in KnownDays
    /\ ticker \in Tickers /\ quote \in Quotes /\ fetches \in 0..2

MarketInit ==
    /\ PacerInit
    /\ tradingDay = 1 /\ stage = "idle" /\ purpose = "entry"
    /\ contract = FALSE /\ daily = NoBars /\ targets = 0
    /\ ticker = NewTicker /\ previous = FALSE /\ polls = 0
    /\ quote = NoQuote /\ fetches = 0

-----------------------------------------------------------------------------
(* Mutants: the code as a plausible slip would have it, used by no action. *)

KeepUnconfirmedTodayBars(bars, readable) == bars

ExtractCloseAsCurrent(t) ==
    IF t.last # 0 THEN [of |-> t.last, stale |-> FALSE, source |-> stage]
    ELSE IF t.close # 0 THEN [of |-> t.close - 1, stale |-> FALSE, source |-> stage]
    ELSE NoQuote

\* The cache entry of the day is not looked up.
CachedNever == FALSE

-----------------------------------------------------------------------------
(* Helpers *)

Cached == daily.date = tradingDay

\* Bars of days before the trading day; today's is unfinished.  A row whose
\* date cannot be read is kept.
DropUnconfirmedTodayBars(bars, readable) ==
    IF readable THEN bars \ {tradingDay} ELSE bars

\* marketPrice() if there is one, else the close, which is of the day before.
ExtractTickerPrice(t) ==
    IF t.last # 0 THEN [of |-> t.last, stale |-> FALSE, source |-> stage]
    ELSE IF t.close # 0 THEN [of |-> t.close - 1, stale |-> TRUE, source |-> stage]
    ELSE NoQuote

\* The last bar is today's, is older, or carries a date nobody can read.
LastClosePrice(of, readable) ==
    [of |-> of, stale |-> ~readable \/ of # tradingDay, source |-> stage]

\* What ib_async writes into a ticker: every update sets its time; one may
\* bring a market price, a close or neither, like a size or one side only.
Stamped(t)   == [t EXCEPT !.timed = TRUE, !.updated = TRUE]
WithPrice(t) == [Stamped(t) EXCEPT !.last = tradingDay]
WithClose(t) == [Stamped(t) EXCEPT !.close = tradingDay]

\* The quote is found, or the next source is asked.
Found(q, next) ==
    /\ quote' = q
    /\ stage' = IF q = NoQuote THEN next ELSE "quoted"

TurnEnds == stage' = "idle" /\ quote' = NoQuote

-----------------------------------------------------------------------------
(* The turn of a symbol *)

\* The contract is looked up once; IBKR may not know it (ValueError).  A
\* symbol among the targets of the day is bought without a look at its bars.
BeginTurn ==
    /\ stage = "idle" /\ polls' = 0
    /\ purpose' \in {"entry", "exit", "target"} /\ contract' = TRUE
    /\ purpose' = "target" => targets = tradingDay
    /\ stage' = IF purpose' = "entry" /\ ~Cached THEN "wantBars" ELSE "signal"
    /\ UNCHANGED <<pacerVars, tradingDay, daily, targets, ticker, previous,
                   quote, fetches>>

\* Targets are ranked once a day, from the bars of the whole universe.
BeginMomentum ==
    /\ stage = "idle" /\ targets # tradingDay
    /\ purpose' = "momentum" /\ contract' = TRUE
    /\ stage' = IF Cached THEN "idle" ELSE "wantBars"
    /\ targets' = IF Cached THEN tradingDay ELSE targets
    /\ UNCHANGED <<pacerVars, tradingDay, daily, ticker, previous, polls,
                   quote, fetches>>

\* No contract: the symbol's turn ends; the targets go without the symbol.
ContractUnknown ==
    /\ stage = "idle" /\ ~contract
    /\ purpose' \in {"entry", "exit", "momentum", "target"}
    /\ targets' = IF purpose' = "momentum" THEN tradingDay ELSE targets
    /\ UNCHANGED <<pacerVars, tradingDay, stage, contract, daily, ticker,
                   previous, polls, quote, fetches>>

\* get_historical_bars_async: the request goes out with the pacer's slot.
AskIBKR ==
    /\ stage \in {"wantBars", "wantClose"}
    /\ Request \/ Resume
    /\ stage' = IF asleep' THEN stage
               ELSE IF stage = "wantBars" THEN "bars" ELSE "close"
    /\ UNCHANGED <<tradingDay, purpose, contract, daily, targets, ticker,
                   previous, polls, quote, fetches>>

\* The bars up to yesterday or up to now arrive, or none; none is not cached.
BarsArrive ==
    /\ stage = "bars"
    /\ \E bars \in {{}, 0..(tradingDay - 1), 0..tradingDay, {tradingDay}},
          readable \in BOOLEAN :
        LET kept == DropUnconfirmedTodayBars(bars, readable)
        IN  /\ daily' = IF kept = {} THEN daily
                        ELSE [date |-> tradingDay, bars |-> kept, readable |-> readable]
            /\ fetches' = IF kept = {} THEN fetches ELSE 1 + fetches
            /\ stage' = IF purpose = "entry" /\ kept # {} THEN "signal" ELSE "idle"
    /\ targets' = IF purpose = "momentum" THEN tradingDay ELSE targets
    /\ UNCHANGED <<pacerVars, tradingDay, purpose, contract, ticker, previous,
                   polls, quote>>

\* No pullback, an overbought index, a downtrend or too short a history.
NoSignal ==
    /\ stage = "signal" /\ purpose = "entry"
    /\ TurnEnds
    /\ UNCHANGED <<pacerVars, tradingDay, purpose, contract, daily, targets,
                   ticker, previous, polls, fetches>>

\* reqMktData, which hands out the ticker of earlier calls, or raises.
Subscribe ==
    /\ stage = "signal"
    /\ ticker' = [ticker EXCEPT !.updated = FALSE]
    /\ previous' = ticker.timed
    /\ polls' = Polls /\ stage' \in {"stream", "snapshot"}
    /\ UNCHANGED <<pacerVars, tradingDay, purpose, contract, daily, targets,
                   quote, fetches>>

TickArrives ==
    /\ stage = "stream"
    /\ ticker' \in {WithPrice(ticker), WithClose(ticker), Stamped(ticker)}
    /\ UNCHANGED <<pacerVars, tradingDay, stage, purpose, contract, daily,
                   targets, previous, polls, quote, fetches>>

\* Mutant of Poll: the time noted when the stream was begun is not compared.
PollAtOnce ==
    /\ stage = "stream" /\ polls > 0
    /\ polls' = polls - 1
    /\ Found(ExtractTickerPrice(ticker), IF polls = 1 THEN "snapshot" ELSE "stream")
    /\ UNCHANGED <<pacerVars, tradingDay, purpose, contract, daily, targets,
                   ticker, previous, fetches>>

\* _get_streaming_price_async: nothing is read before an update, if there
\* was one before.
Poll ==
    /\ stage = "stream" /\ polls > 0
    /\ polls' = polls - 1
    /\ Found(IF previous /\ ~ticker.updated THEN NoQuote
             ELSE ExtractTickerPrice(ticker),
             IF polls = 1 THEN "snapshot" ELSE "stream")
    /\ UNCHANGED <<pacerVars, tradingDay, purpose, contract, daily, targets,
                   ticker, previous, fetches>>

\* _get_snapshot_price_async, with no comparison of times.
Snapshot ==
    /\ stage = "snapshot"
    /\ \E s \in Snapshots :
        \/ s = "nothing" /\ Found(NoQuote, "wantClose") /\ UNCHANGED ticker
        \/ /\ \/ s = "reused" /\ ticker' \in {ticker, WithClose(ticker), Stamped(ticker)}
              \/ s = "price" /\ ticker' = WithPrice(ticker)
           /\ Found(ExtractTickerPrice(ticker'), "wantClose")
    /\ UNCHANGED <<pacerVars, tradingDay, purpose, contract, daily, targets,
                   previous, polls, fetches>>

\* _get_last_close_price_async; with no bar there is no price and no turn.
CloseArrives ==
    /\ stage = "close"
    /\ \/ TurnEnds
       \/ \E of \in {tradingDay - 1, tradingDay}, readable \in BOOLEAN :
            quote' = LastClosePrice(of, readable) /\ stage' = "quoted"
    /\ UNCHANGED <<pacerVars, tradingDay, purpose, contract, daily, targets,
                   ticker, previous, polls, fetches>>

\* REJECT_STALE_ENTRY_PRICE; an exit is judged by whatever price there is.
Accepted == stage = "quoted" /\ (purpose # "exit" => ~quote.stale)

UseQuote ==
    /\ stage = "quoted"
    /\ TurnEnds
    /\ UNCHANGED <<pacerVars, tradingDay, purpose, contract, daily, targets,
                   ticker, previous, polls, fetches>>

\* The night, with or without a restart: the module state goes with it, the
\* pacer's deque as well.
NewTradingDay ==
    /\ stage = "idle" /\ tradingDay < LastTradingDay
    /\ tradingDay' = tradingDay + 1 /\ fetches' = 0
    /\ \/ UNCHANGED <<pacerVars, contract, daily, targets, ticker, previous>>
       \/ /\ NewProcess
          /\ contract' = FALSE /\ daily' = NoBars
          /\ targets' = 0 /\ ticker' = NewTicker /\ previous' = FALSE
    /\ UNCHANGED <<stage, purpose, polls, quote>>

TimePasses == Tick /\ UNCHANGED dataVars

-----------------------------------------------------------------------------

Turn ==
    \/ AskIBKR \/ BarsArrive \/ NoSignal \/ Subscribe \/ Poll \/ Snapshot
    \/ CloseArrives \/ UseQuote

MarketNext ==
    \/ BeginTurn \/ BeginMomentum \/ ContractUnknown \/ Turn
    \/ TickArrives \/ NewTradingDay \/ TimePasses

MarketSpec == MarketInit /\ [][MarketNext]_marketVars

-----------------------------------------------------------------------------
(* Properties *)

\* Bars that are taken from the cache on a trading day never hold that day's
\* unfinished bar: a signal made of it would freeze the first price of the
\* day (DailyBarCache.get_async, drop_unconfirmed_today_bars).  Bars whose
\* dates cannot be read are the exception the code makes on purpose.
CachedBarsAreFinished == Cached /\ daily.readable => tradingDay \notin daily.bars

\* The bars of a symbol are fetched with success once a trading day, whoever
\* asks: entries, the price band, the momentum targets (DailyBarCache).
OneDailyFetch == fetches <= 1

\* No entry is built on a close, whichever of the three sources gives it and
\* whatever earlier calls and days left in the Ticker: its price is of today,
\* or it is the last market price this process received for the symbol, and
\* then only after a snapshot or after an update in this call, which need not
\* have brought a price (PriceQuote, REJECT_STALE_ENTRY_PRICE).
NoEntryOnAClose ==
    Accepted /\ purpose # "exit" /\ quote.of # tradingDay =>
        /\ ticker.last # 0 /\ quote.of = ticker.last
        /\ quote.source = "snapshot" \/ (quote.source = "stream" /\ ticker.updated)

\* A streamed value is only used once the Ticker was updated during the call,
\* also when the code compares no times because there was none before: with a
\* feed that went silent an exit is not judged by the price of an earlier
\* cycle (_get_streaming_price_async, where that had happened).  What the
\* update brought is not looked at.
SilentStreamIsNotRead ==
    stage = "quoted" /\ quote.source = "stream" => ticker.updated

\* A turn ends, although it may have to wait for the pacer.
TurnsEnd == stage # "idle" ~> stage = "idle"
===============================================================================
