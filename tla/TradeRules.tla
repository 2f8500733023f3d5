----------------------------- MODULE TradeRules -----------------------------
(***************************************************************************)
(* The rules that the two backtests share with the live loop: the pullback *)
(* signal, the exits that rest at the broker and the one the bot decides,  *)
(* the costs of a fill and the size of an entry.  Prices and money are     *)
(* integers (cents); percentages of the source stay percentages.  A        *)
(* fraction of a cent is rounded down, which the source's floats do not.   *)
(* A value that may be missing is a set of at most one value.              *)
(***************************************************************************)
EXTENDS Integers, Sequences, SequencesExt

CONSTANTS MAWindow,        \* bars of the moving average of the signal
          LongWindow,      \* bars of the moving average of the long trend
          ThresholdPct,    \* how far below its average a symbol is bought
          TakeProfitPct, StopLossPct, TrailingPct, RiskPct,
          SlippageBp,      \* slippage of a market order, in 1/10000
          CommissionPerShare, \* in 1/100 of a cent
          MinCommission, CommissionCapPct

ASSUME RulesAssumption ==
    /\ {MAWindow, LongWindow} \subseteq Nat \ {0}
    /\ {ThresholdPct, TakeProfitPct, StopLossPct, TrailingPct, RiskPct} \subseteq 1..99
    /\ SlippageBp \in 0..10000
    /\ {CommissionPerShare, MinCommission, CommissionCapPct} \subseteq Nat

-----------------------------------------------------------------------------
\* Signals

LatestBars(closes, n) == SubSeq(closes, Len(closes) - n + 1, Len(closes))

Total(prices) == FoldLeft(LAMBDA a, b : a + b, 0, prices)

\* 100 times the distance of the last close from its moving average, times
\* the sum of the window: compared with a percentage of that sum.
Deviation(closes) ==
    LET sum == Total(LatestBars(closes, MAWindow))
    IN  100 * (MAWindow * Last(closes) - sum)

\* A reading of the index that is missing never passes an enabled filter.
PassesMarketFilter(closes, reading, filter) ==
    LET sum == Total(LatestBars(closes, MAWindow))
    IN  filter.atLeast \cup filter.atMost \cup filter.relative # {} =>
            \E market \in reading :
                /\ \A low \in filter.atLeast : market >= low
                /\ \A high \in filter.atMost : market <= high
                /\ \A gap \in filter.relative :
                       Deviation(closes) - market * sum <= -gap * sum

NoFilter == [atLeast |-> {}, atMost |-> {}, relative |-> {}]

ShouldBuy(closes, reading, filter) ==
    /\ Deviation(closes) <= -ThresholdPct * Total(LatestBars(closes, MAWindow))
    /\ PassesMarketFilter(closes, reading, filter)

InLongTermUptrend(closes) ==
    /\ Len(closes) >= LongWindow
    /\ Last(closes) * LongWindow > Total(LatestBars(closes, LongWindow))

-----------------------------------------------------------------------------
\* Bars and exits

\* What the data of a bar looks like: the low lies below, the high above every
\* price of the bar, and a row that carries an open carries both as well.
IsRow(row) ==
    /\ row.close \in Nat \ {0}
    /\ \A prices \in {row.open, row.high, row.low} :
          prices = {} \/ \E x \in prices : x \in Nat \ {0} /\ prices = {x}
    /\ row.open # {} => row.high # {} /\ row.low # {}
    /\ \A price \in row.open \cup {row.close} :
          /\ \A l \in row.low : l <= price
          /\ \A h \in row.high : price <= h

\* A high or low that the data does not carry is replaced by the close.
BarAt(row) ==
    [open  |-> row.open,
     high  |-> IF row.high = {} THEN row.close ELSE Max(row.high),
     low   |-> IF row.low = {} THEN row.close ELSE Min(row.low),
     close |-> row.close]

StopPrice(entry) == (entry * (100 - StopLossPct)) \div 100
TakeProfitPrice(entry) == (entry * (100 + TakeProfitPct)) \div 100

\* Mutant: a gap below the stop is filled at the stop itself.
RestingExitAtOrderPrice(stop, target, bar) ==
    CASE bar.low <= stop    -> {[reason |-> "STOP_LOSS", fill |-> stop]}
      [] bar.low > stop /\ bar.high >= target
                            -> {[reason |-> "TAKE_PROFIT", fill |-> target]}
      [] OTHER              -> {}

\* The resting orders are judged inside the bar, the stop before the target.
\* A stop becomes a market order: after a gap it fills at the open, and
\* without an open at the worst price seen.  A limit never fills worse than
\* its price, and better only when the bar opens above it.
RestingExit(stop, target, bar) ==
    LET stopFill   == IF bar.open = {} THEN Min({stop, bar.low})
                      ELSE Min({stop} \cup bar.open)
        targetFill == Max({target} \cup bar.open)
    IN  CASE bar.low <= stop -> {[reason |-> "STOP_LOSS", fill |-> stopFill]}
          [] bar.low > stop /\ bar.high >= target
                             -> {[reason |-> "TAKE_PROFIT", fill |-> targetFill]}
          [] OTHER           -> {}

\* The exit the bot decides from the last price, as the set of its reasons.
BotExit(entry, price, highest) ==
    LET top  == Max({highest, entry, price})
        gain == 100 * (price - entry)
    IN  CASE gain >= TakeProfitPct * entry -> {"TAKE_PROFIT"}
          [] gain <= -StopLossPct * entry  -> {"STOP_LOSS"}
          [] /\ gain > 0 /\ gain < TakeProfitPct * entry
             /\ 100 * (price - top) <= -TrailingPct * top -> {"TRAILING_STOP"}
          [] OTHER -> {}

-----------------------------------------------------------------------------
\* Costs and sizes

BuyFill(price) == (price * (10000 + SlippageBp)) \div 10000
SellFill(price) == (price * (10000 - SlippageBp)) \div 10000

\* The fee of an order; a cap of 0 percent is no cap.
Commission(quantity, price) ==
    LET fee == Max({(quantity * CommissionPerShare) \div 100, MinCommission})
    IN  IF quantity <= 0 \/ price <= 0 THEN 0
        ELSE IF CommissionCapPct = 0 THEN fee
        ELSE Min({fee, (quantity * price * CommissionCapPct) \div 100})

PositionSize(equity, entry) == Max({0, (equity * RiskPct) \div (entry * StopLossPct)})

NewPosition(quantity, fill, day) ==
    [quantity |-> quantity, entry |-> fill, day |-> day,
     commission |-> Commission(quantity, fill),
     stop |-> StopPrice(fill), target |-> TakeProfitPrice(fill), highest |-> fill]

\* What a closed position earned, its two commissions taken off.
Pnl(position, fill) ==
    (fill - position.entry) * position.quantity
        - position.commission - Commission(position.quantity, fill)
=============================================================================
