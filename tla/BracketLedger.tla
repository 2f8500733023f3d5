---------------------------- MODULE BracketLedger ----------------------------
(***************************************************************************)
(* The bracket orders, the resting orders and the polling cycle implement  *)
(* the ledger of one position.                                             *)
(***************************************************************************)
EXTENDS BracketOrders

\* place_bracket_order_async has not returned, and has not begun to flatten.
CarryingEntry ==
    \/ pc \in {"parentWait", "parentGrace", "reprice"}
    \/ caller = "entry" /\ pc \in {"cancel", "cancelWait", "ensure"}

Ledger == INSTANCE PositionLedger WITH
    lots <- shares, buying <- parent \in InFlight, entering <- CarryingEntry,
    recorded <- local # "absent", closed <- cooldown

\* As long as no order fills behind the bot's back (see Races), every step of
\* the broker, the bot, a crash or the night is a step of the ledger or none:
\* one lot at a time, sold once, entered once a day, and recorded in the end.
KeepsLedger == Ledger!LedgerSpec
==============================================================================
