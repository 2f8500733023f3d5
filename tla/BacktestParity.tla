--------------------------- MODULE BacktestParity ---------------------------
(***************************************************************************)
(* The portfolio backtest of one symbol next to the engine on the same     *)
(* bars: portfolio.py is there to judge the same strategy as engine.py.    *)
(* The engine sees the day's bar of the first symbol when the portfolio    *)
(* has finished the day.                                                   *)
(***************************************************************************)
EXTENDS Portfolio, BacktestEngine

PlainSetup == [flatten |-> FALSE, block |-> TRUE, filter |-> NoFilter]

ParityInit == PortfolioInit /\ StartEngine(PlainSetup, Seeds[order[1]])

EngineFollows ==
    IF order[1] \in DOMAIN rows
    THEN JudgeBar(rows[order[1]], TRUE, LastDay)
    ELSE UNCHANGED engineVars

ParityNext ==
    \/ (OpenDay \/ CloseOut \/ Consider) /\ UNCHANGED engineVars
    \/ CloseDay /\ EngineFollows

parityVars == <<portfolioVars, engineVars>>

ParitySpec == ParityInit /\ [][ParityNext]_parityVars

\* Both begin with the same money, and the portfolio may hold and buy at all.
LimitsLeaveRoom ==
    /\ StartEquity = InitialEquity /\ DailyLossPct > 0
    /\ \A p \in Plans : p.slots > 0 /\ p.dailyEntries > 0

\* One symbol, and none of the portfolio's own limits in the way.
Comparable ==
    /\ Len(order) = 1 /\ plan.block /\ ~plan.uptrend
    /\ plan.minHistory = MAWindow
    /\ plan.maxSize * 100 >= StartEquity

\* No limit on an order cuts the size that the engine would take, and the
\* account can pay for it.
SizesUncut ==
    Comparable /\ phase = "entries" => \A s \in DOMAIN rows :
        LET fill == BuyFill(rows[s].close)
            size == PositionSize(equity, fill)
        IN  size > 0 => Clamped(size, fill) = size /\ size * fill <= equity

\* With one symbol and none of the portfolio's own limits in the way, the two
\* have the same position, with the same highest price behind its trailing
\* stop, and the same money at the end of every day; only on the last day the
\* engine may open a position that the portfolio does not
\* (run_backtest and run_portfolio_backtest, which repeat the judgement).
EngineAgrees ==
    Comparable /\ phase = "closed" =>
        /\ balance = equity
        /\ day < Days => position = {open[s] : s \in DOMAIN open}
=============================================================================
