---------------------------- MODULE PositionLedger ----------------------------
(***************************************************************************)
(* What the bracket orders of one symbol promise, without the orders: a    *)
(* lot is bought while nothing of the symbol is held, recorded, on its way *)
(* or closed today; it is sold once; and while it is held the bot comes to *)
(* have a record of it, whatever became of the entry that bought it.       *)
(*                                                                         *)
(* Nothing here ties the end of a record to the sale: positions.json is    *)
(* closed on what the session shows, which may be the fill of an earlier   *)
(* position (ClosedMeansFlat in BracketOrders).                            *)
(***************************************************************************)
EXTENDS Integers

VARIABLES
    lots,       \* lots held at the broker
    buying,     \* a BUY is on its way and may fill
    entering,   \* the bot carries the entry through
    recorded,   \* positions.json has the symbol
    closed      \* closed today

ledgerVars == <<lots, buying, entering, recorded, closed>>

LedgerInit ==
    /\ lots = 0 /\ ~buying /\ ~entering /\ ~recorded /\ ~closed

Enter ==
    /\ lots = 0 /\ ~buying /\ ~recorded /\ ~closed
    /\ buying' = TRUE /\ entering' = TRUE
    /\ UNCHANGED <<lots, recorded, closed>>

Bought ==
    /\ buying /\ buying' = FALSE /\ lots' = lots + 1
    /\ UNCHANGED <<entering, recorded, closed>>

NotBought ==
    /\ buying /\ buying' = FALSE
    /\ UNCHANGED <<lots, entering, recorded, closed>>

\* The entry is given up, its lot flattened, or the process is lost.
EntryEnds ==
    /\ entering /\ entering' = FALSE
    /\ UNCHANGED <<lots, buying, recorded, closed>>

Record ==
    /\ entering /\ ~recorded /\ entering' = FALSE /\ recorded' = TRUE
    /\ UNCHANGED <<lots, buying, closed>>

\* A lot is held that the bot does not know.
Adopt ==
    /\ lots > 0 /\ ~entering /\ ~recorded /\ recorded' = TRUE
    /\ UNCHANGED <<lots, buying, entering, closed>>

Sold ==
    /\ lots > 0 /\ lots' = lots - 1
    /\ UNCHANGED <<buying, entering, recorded, closed>>

Close ==
    /\ recorded /\ recorded' = FALSE /\ closed' = TRUE
    /\ UNCHANGED <<lots, buying, entering>>

NewDay ==
    /\ closed /\ closed' = FALSE
    /\ UNCHANGED <<lots, buying, entering, recorded>>

LedgerNext ==
    \/ Enter \/ Bought \/ NotBought \/ EntryEnds \/ Record \/ Adopt
    \/ Sold \/ Close \/ NewDay

LedgerSafety == LedgerInit /\ [][LedgerNext]_ledgerVars

LedgerSpec == LedgerSafety /\ WF_ledgerVars(Adopt)
===============================================================================
