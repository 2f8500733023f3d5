----------------------------- MODULE MCTradingDay -----------------------------
(***************************************************************************)
(* Model checking of TradingDay.  Symbols are interchangeable.             *)
(***************************************************************************)
EXTENDS TradingDay, TLC

SymbolSymmetry == Permutations(Symbols)
=============================================================================
