------------------------------ MODULE PriceBand ------------------------------
(***************************************************************************)
(* How many shares an entry buys, and the band of prices that decides      *)
(* which symbols are worth a place in the watchlist.  The two are written  *)
(* down apart from each other (main.py, position_sizing.py and             *)
(* order_manager.py) and have to agree.  A value that could not be read is *)
(* the empty set.                                                          *)
(***************************************************************************)
EXTENDS TradeRules

CONSTANTS MaxPositionSize,     \* MAX_POSITION_SIZE, shares of one order
          MaxOrderNotional     \* MAX_ORDER_NOTIONAL_USD, in cents

ASSUME BandAssumption == {MaxPositionSize, MaxOrderNotional} \subseteq Nat \ {0}

Smaller(m, n) == IF m <= n THEN m ELSE n

-----------------------------------------------------------------------------
\* The band

\* resolve_max_affordable_price: without equity nothing is held back, and cash
\* that could not be read, or is none, does not lower the bound.
NotAboveBand(equity, cash, price) ==
    equity > 0 =>
        /\ price * StopLossPct <= equity * RiskPct
        /\ \A c \in cash : c > 0 => price <= c

\* resolve_min_tradeable_price: the bound on shares does not cut the size.
NotBelowBand(equity, price) ==
    equity > 0 => price * StopLossPct * MaxPositionSize >= equity * RiskPct

-----------------------------------------------------------------------------
\* The size of an entry

\* _clamp_quantity_to_settled_cash_async
Funded(quantity, cash, price) ==
    LET c == CHOOSE x \in cash : TRUE
    IN  IF cash = {} THEN quantity
        ELSE IF c < price THEN 0 ELSE Smaller(quantity, c \div price)

\* clamp_buy_quantity
ClampedToOrder(quantity, price) ==
    Smaller(Smaller(quantity, MaxPositionSize), MaxOrderNotional \div price)

\* _process_entry_async, with the clamp that the order itself passes.
EntryQuantity(equity, cash, price) ==
    LET sized  == PositionSize(equity, price)
        funded == Funded(sized, cash, price)
    IN  IF sized <= 0 \/ funded <= 0 THEN 0 ELSE ClampedToOrder(funded, price)
=============================================================================
