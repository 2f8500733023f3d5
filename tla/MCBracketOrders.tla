--------------------------- MODULE MCBracketOrders ---------------------------
(***************************************************************************)
(* Model checking of BracketOrders.  The identities of the pairs are       *)
(* interchangeable, which the safety runs use as a symmetry.               *)
(***************************************************************************)
EXTENDS BracketLedger, TLC

PairSymmetry == Permutations(Pairs)
=============================================================================
