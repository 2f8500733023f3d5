--------------------------- MODULE BacktestEngine ---------------------------
(***************************************************************************)
(* backtest/engine.py: one symbol with its own money, bar by bar.  A bar   *)
(* is a row of the data with or without open, high and low and a reading   *)
(* of the index; several bars may belong to one trading day.               *)
(***************************************************************************)
EXTENDS TradeRules

CONSTANTS EngineSetups,    \* [flatten, block, filter]: the options of a run
          EngineRows,      \* the rows a bar is taken from
          EngineBars,      \* how many bars the data has after the seed
          EngineSeed,      \* the closes before the first bar judged
          InitialEquity

\* The seed is as long as the history that is kept, or shorter.
ASSUME EngineRowsAssumption ==
    /\ \A row \in EngineRows : IsRow(row)
    /\ EngineSeed \in Seq(Nat) /\ Len(EngineSeed) <= Max({MAWindow, LongWindow})
    /\ InitialEquity \in Nat

VARIABLES setup, history, barNo, today, position, balance, soldOn, trade

engineVars == <<setup, history, barNo, today, position, balance, soldOn, trade>>

\* Only the closes that a window can still reach are kept.
Remember(closes, close) ==
    LET all == Append(closes, close)
        n   == Max({MAWindow, LongWindow})
    IN  IF Len(all) > n THEN LatestBars(all, n) ELSE all

StartEngine(options, seed) ==
    /\ setup = options
    /\ history = seed
    /\ barNo = 0
    /\ today = 1
    /\ position = {}
    /\ balance = InitialEquity
    /\ soldOn = 0
    /\ trade = {}

EngineInit == \E options \in EngineSetups : StartEngine(options, EngineSeed)

\* The resting orders go first; the bot's own exit, the session's end and the
\* end of the data sell at the close.
EngineExit(p, bar, last, sessionEnd) ==
    LET resting == RestingExit(p.stop, p.target, bar)
        bot     == BotExit(p.entry, bar.close, Max({p.highest, bar.high}))
        market(reason) == {[reason |-> reason, fill |-> SellFill(bar.close)]}
    IN  IF resting # {}
        THEN {IF r.reason = "STOP_LOSS" THEN [r EXCEPT !.fill = SellFill(@)] ELSE r :
                  r \in resting}
        ELSE IF bot # {} THEN UNION {market(reason) : reason \in bot}
        ELSE IF sessionEnd /\ ~last THEN market("SESSION_END")
        ELSE IF last THEN market("END_OF_DATA")
        ELSE {}

\* Mutant: the session's end sells but does not keep an entry out.
EntryAtAnyBar(sessionEnd) == TRUE

\* A position opened on a bar that flattens would only pay the costs.
EntryBar(sessionEnd) == ~sessionEnd

MayEnter(closes, reading, sessionEnd) ==
    /\ ~(setup.block /\ soldOn = today)
    /\ EntryBar(sessionEnd)
    /\ Len(closes) >= MAWindow
    /\ ShouldBuy(closes, reading, setup.filter)

EngineEntry(closes, row, sessionEnd) ==
    LET fill     == BuyFill(row.close)
        quantity == PositionSize(balance, fill)
    IN  IF MayEnter(closes, row.market, sessionEnd) /\ quantity > 0
        THEN {NewPosition(quantity, fill, today)} ELSE {}

\* One bar: a flat engine may enter, an invested one exits or holds; it never
\* does both.
JudgeBar(row, endsDay, last) ==
    LET bar        == BarAt(row)
        closes     == Remember(history, row.close)
        sessionEnd == setup.flatten /\ (last \/ endsDay)
        sales      == UNION {EngineExit(p, bar, last, sessionEnd) : p \in position}
    IN  /\ history' = closes
        /\ barNo' = barNo + 1
        /\ today' = IF endsDay THEN today + 1 ELSE today
        /\ position' = CASE position = {} -> EngineEntry(closes, row, sessionEnd)
                         [] sales # {}    -> {}
                         [] OTHER -> {[p EXCEPT !.highest = Max({@, bar.high})] :
                                          p \in position}
        /\ balance' = IF sales = {} THEN balance
                      ELSE balance + Pnl(CHOOSE p \in position : TRUE,
                                         (CHOOSE s \in sales : TRUE).fill)
        /\ soldOn' = IF sales = {} THEN soldOn ELSE today
        /\ trade' = {[reason |-> s.reason, exit |-> s.fill, bar |-> bar] : s \in sales}
        /\ UNCHANGED setup

EngineNext ==
    /\ barNo < EngineBars
    /\ \E row \in EngineRows, endsDay \in BOOLEAN :
           JudgeBar(row, endsDay, barNo + 1 = EngineBars)

EngineSpec == EngineInit /\ [][EngineNext]_engineVars

EngineTypeOK ==
    /\ setup \in EngineSetups
    /\ history \in Seq(Nat) /\ Len(history) <= Max({MAWindow, LongWindow})
    /\ barNo \in Nat /\ today \in Nat \ {0} /\ soldOn \in Nat
    /\ balance \in Int
    /\ \A p \in position : p.quantity > 0 /\ p.day \in 1..today
    /\ \A p, q \in position : p = q

-----------------------------------------------------------------------------
\* With the flattening on, a position never sees a second trading day: the
\* last bar of its day sells it, and no position is opened on that bar
\* (engine.py: is_session_end in the entry and in the exit).
FlatOvernight == setup.flatten => \A p \in position : p.day = today

\* A recorded exit is a price the bar really traded at, or worse: it is never
\* above the bar's high, and when the open is known it is not below the low
\* less the slippage.  A stop that a gap jumped over, a limit the bar opened
\* above and a bar without open, high and low all go through it
\* (detect_resting_order_exit and the sales of run_backtest).
FillsInsideTheBar ==
    \A t \in trade :
        /\ t.exit <= t.bar.high
        /\ t.bar.open # {} => t.exit >= SellFill(t.bar.low)
=============================================================================
