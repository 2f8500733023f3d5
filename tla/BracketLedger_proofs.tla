------------------------- MODULE BracketLedger_proofs -------------------------
(***************************************************************************)
(* The bracket orders when no order fills behind the bot's back: the       *)
(* account is never short and every step is one of PositionLedger; when    *)
(* moreover no cancellation outlasts a cycle, one pair of resting orders   *)
(* is on the book at most.  For every set of pairs and every value of the  *)
(* bounds.                                                                 *)
(***************************************************************************)
EXTENDS BracketLedger, BracketOrders_proofs

\* The races that leave an order's fate to what the bot saw of it: a session
\* may forget a fill, a process may survive the night, and a cancellation may
\* be pending for longer than a cycle.  Each of the other four makes NoShort
\* fail by itself (see the README).
Calm == Races \subseteq {"ForgottenFill", "Overnight", "SlowCancel"}

\* Every cancellation is answered before the next cycle.
Prompt == "SlowCancel" \notin Races

-----------------------------------------------------------------------------
(***************************************************************************)
(* The inductive invariant, on top of the one of BracketOrders_proofs.     *)
(***************************************************************************)

\* A pair with a leg that is on its way to the book or stands on it.
Active(k) == \E l \in Legs : resting[k][l] \in {"sent", "live"}

\* A market sell that can still fill.
CanSell == {"working", "ghost"}

OneLot == shares \in {0, 1}

\* A pair whose cancellation is pending may still be on the book, but with no
\* other pair that can fill beside it.
OneActivePair == \A j, k \in Pairs : Active(j) /\ Active(k) => j = k

\* Whatever may sell has the lot for it, and it is the only one that may: the
\* legs of one pair or the market order.  Legs that the broker holds until
\* their parent fills will have it.
SellersHaveLot ==
    /\ \A k \in Pairs : Active(k) => shares = 1 \/ (parent \in InFlight /\ attached = k)
    /\ parent \in InFlight => shares = 0 /\ market \notin InFlight
    /\ market \in CanSell => shares = 1 /\ \A k \in Pairs : ~Active(k)

\* The steps of a turn between the synchronisation and an order.
InTurn ==
    \/ pc \in {"query", "restore", "contract", "process"}
    \/ caller \in {"restore", "exit"} /\ pc \in {"cancel", "cancelWait"}
    \/ caller = "restore" /\ pc = "ensure"

\* What the synchronisation found is still so when the turn acts on it.
TurnIsQuiet ==
    /\ InTurn => parent \notin InFlight /\ market \notin InFlight /\ (confirmed => shares = 1)
    /\ pc = "contract" \/ (pc \in {"cancel", "cancelWait"} /\ caller \in {"restore", "exit"})
          => confirmed

\* An entry under way has no record yet; its orders are the only ones that can
\* fill, and once its BUY has, the lot is there until the flattening sells it.
EntryHoldsLot ==
    /\ CarryingEntry =>
          /\ local = "absent" /\ market \notin InFlight
          /\ \A k \in Pairs : Active(k) => k = pair
    /\ CarryingEntry /\ pc \notin {"parentWait", "parentGrace"}
          => shares = 1 /\ parent \notin InFlight
    /\ pc \in {"parentWait", "parentGrace"} /\ parent = "filled" => shares = 1

\* A market sell is waited for as long as there is a lot to sell, and an exit
\* sells and protects a recorded position.
MarketHasLot ==
    /\ pc \in {"marketWait", "marketGrace"} =>
          parent \notin InFlight /\ (market # "filled" => shares = 1)
    /\ caller = "exit" /\ pc \in {"cancel", "cancelWait", "ensure", "marketWait", "marketGrace"}
          => local # "absent"
    /\ caller = "exit" /\ pc = "ensure"
          => parent \notin InFlight /\ market \notin CanSell /\ shares = 1

CalmInv ==
    /\ OneLot /\ OneActivePair /\ SellersHaveLot
    /\ TurnIsQuiet /\ EntryHoldsLot /\ MarketHasLot

-----------------------------------------------------------------------------
(* Steps of the broker *)

\* The broker sends nothing: a pair that works or is active was so before.
LEMMA BrokerAddsNoOrder ==
  ASSUME TypeOK, Broker
  PROVE  /\ \A k \in Pairs : IsWorking(k)' => IsWorking(k)
         /\ \A k \in Pairs : Active(k)' => Active(k)
         /\ parent' \in InFlight => parent \in InFlight
         /\ market' \in InFlight => market \in InFlight
         /\ market' \in CanSell => market \in CanSell
         /\ UNCHANGED <<attached, storeVars, botVars, faults>>
<1>. USE DEF TypeOK, IsWorking, Active, Working, InFlight, CanSell, brokerVars
<1>1. ASSUME NEW k \in Pairs, NEW l \in Legs, AcceptLeg(k, l)
      PROVE  /\ \A j \in Pairs : IsWorking(j)' => IsWorking(j)
             /\ \A j \in Pairs : Active(j)' => Active(j)
  BY <1>1 DEF AcceptLeg
<1>2. ASSUME NEW k \in Pairs, NEW l \in Legs, DropLeg(k, l)
      PROVE  /\ \A j \in Pairs : IsWorking(j)' => IsWorking(j)
             /\ \A j \in Pairs : Active(j)' => Active(j)
  BY <1>2 DEF DropLeg
<1>3. ASSUME NEW k \in Pairs, NEW l \in Legs, FillLeg(k, l)
      PROVE  /\ \A j \in Pairs : IsWorking(j)' => IsWorking(j)
             /\ \A j \in Pairs : Active(j)' => Active(j)
  BY <1>3 DEF FillLeg
<1>4. CASE ParentDies
  BY <1>4 DEF ParentDies
<1>5. CASE ParentFills \/ ParentGhosts \/ MarketFills \/ MarketDies \/ MarketGhosts
  BY <1>5 DEF ParentFills, ParentGhosts, MarketFills, MarketDies, MarketGhosts, MayFill
<1>6. ASSUME NEW k \in Pairs, NEW l \in Legs, AcceptLeg(k, l) \/ DropLeg(k, l) \/ FillLeg(k, l)
      PROVE  UNCHANGED <<parent, market, attached, storeVars, botVars, faults>>
  BY <1>6 DEF AcceptLeg, DropLeg, FillLeg
<1>. QED BY <1>1, <1>2, <1>3, <1>4, <1>5, <1>6 DEF Broker

\* A resting order fills between two turns only, and only when it has a lot to
\* sell, which nothing else then sells.
LEMMA FillSellsTheLot ==
  ASSUME Calm, Inductive, CalmInv, NEW k \in Pairs, NEW l \in Legs, FillLeg(k, l)
  PROVE  /\ shares = 1 /\ shares' = 0 /\ pc \in {"idle", "down"}
         /\ parent \notin InFlight /\ market \notin CanSell
         /\ \A j \in Pairs : ~Active(j)'
<1>1. resting[k][l] = "live" /\ ~Held(k) /\ pc \in {"idle", "down"}
  BY DEF FillLeg, Calm
<1>2. Active(k)
  BY <1>1 DEF Active
<1>3. shares = 1 /\ parent \notin InFlight
  BY <1>1, <1>2 DEF CalmInv, SellersHaveLot, Held
<1>4. market \notin CanSell
  BY <1>2 DEF CalmInv, SellersHaveLot
<1>5. ASSUME NEW j \in Pairs  PROVE ~Active(j)'
  <2>1. CASE j = k
    BY <2>1 DEF FillLeg, Active, Inductive, TypeOK, Legs, Other, Working
  <2>2. CASE j # k
    <3>1. ~Active(j)
      BY <1>2, <2>2 DEF CalmInv, OneActivePair
    <3>2. resting'[j] = resting[j]
      BY <2>2 DEF FillLeg, Inductive, TypeOK
    <3>. QED BY <3>1, <3>2 DEF Active
  <2>. QED BY <2>1, <2>2
<1>6. shares' = 0
  BY <1>3 DEF FillLeg
<1>. QED BY <1>1, <1>3, <1>4, <1>5, <1>6

\* How the lot changes hands: a BUY that can still fill brings it, a market
\* sell or a resting order takes it.
LEMMA BrokerMovesTheLot ==
  ASSUME Calm, Inductive, CalmInv, Broker
  PROVE  \/ shares' = shares /\ (parent \in InFlight /\ parent' \notin InFlight
                => parent' # "filled" /\ \A k \in Pairs : ~(Active(k)' /\ attached = k))
         \/ /\ shares' = 1 /\ parent \in InFlight /\ parent' = "filled"
         \/ /\ shares = 1 /\ shares' = 0 /\ parent \notin InFlight
            /\ market \in CanSell /\ market' = "filled"
         \/ /\ shares = 1 /\ shares' = 0 /\ pc \in {"idle", "down"}
            /\ parent \notin InFlight /\ market \notin CanSell
            /\ \A k \in Pairs : ~Active(k)'
<1>. USE DEF Inductive, TypeOK, CalmInv
<1>1. ASSUME NEW k \in Pairs, NEW l \in Legs, FillLeg(k, l)
      PROVE  /\ shares = 1 /\ shares' = 0 /\ pc \in {"idle", "down"}
             /\ parent \notin InFlight /\ market \notin CanSell
             /\ \A j \in Pairs : ~Active(j)'
  BY <1>1, FillSellsTheLot
<1>2. ASSUME NEW k \in Pairs, NEW l \in Legs, AcceptLeg(k, l) \/ DropLeg(k, l)
      PROVE  shares' = shares /\ parent' = parent
  BY <1>2 DEF AcceptLeg, DropLeg
<1>3. CASE ParentFills
  BY <1>3 DEF ParentFills, MayFill, InFlight, Calm, OneLot, SellersHaveLot
<1>4. CASE ParentDies
  BY <1>4 DEF ParentDies, Active, Working
<1>5. CASE ParentGhosts \/ MarketDies \/ MarketGhosts
  BY <1>5 DEF ParentGhosts, MarketDies, MarketGhosts, InFlight
<1>6. CASE MarketFills
  BY <1>6 DEF MarketFills, MayFill, CanSell, Calm, SellersHaveLot
<1>. QED BY <1>1, <1>2, <1>3, <1>4, <1>5, <1>6 DEF Broker

\* Fills and cancellations that the broker works off keep the calm invariant.
LEMMA BrokerKeepsCalm == Calm /\ Inductive /\ CalmInv /\ Broker => CalmInv'
<1>. SUFFICES ASSUME Calm, Inductive, CalmInv, Broker  PROVE CalmInv'
  OBVIOUS
<1>1. /\ \A k \in Pairs : IsWorking(k)' => IsWorking(k)
      /\ \A k \in Pairs : Active(k)' => Active(k)
      /\ parent' \in InFlight => parent \in InFlight
      /\ market' \in InFlight => market \in InFlight
      /\ market' \in CanSell => market \in CanSell
      /\ attached' = attached /\ local' = local /\ pc' = pc /\ caller' = caller
      /\ pair' = pair /\ confirmed' = confirmed /\ snap' = snap
  BY BrokerAddsNoOrder DEF Inductive, storeVars, botVars
<1>2. OneLot'
  BY BrokerMovesTheLot DEF CalmInv, OneLot
<1>3. OneActivePair'
  BY <1>1 DEF CalmInv, OneActivePair
<1>4. SellersHaveLot'
  BY <1>1, BrokerMovesTheLot DEF CalmInv, SellersHaveLot, InFlight, CanSell
<1>5. TurnIsQuiet'
  <2>1. InTurn' <=> InTurn
    BY <1>1 DEF InTurn
  <2>2. InTurn => parent \notin InFlight /\ market \notin InFlight /\ pc \notin {"idle", "down"}
    BY DEF CalmInv, TurnIsQuiet, InTurn
  <2>3. InTurn => shares' = shares
    BY <2>2, BrokerMovesTheLot DEF CanSell, InFlight
  <2>. QED BY <1>1, <2>1, <2>3 DEF CalmInv, TurnIsQuiet, InTurn
<1>6. EntryHoldsLot'
  <2>1. CarryingEntry' <=> CarryingEntry
    BY <1>1 DEF CarryingEntry
  <2>2. CarryingEntry => market \notin CanSell /\ pc \notin {"idle", "down"}
    BY DEF CalmInv, EntryHoldsLot, CarryingEntry, CanSell, InFlight
  <2>3. CarryingEntry /\ parent \notin InFlight => shares' = shares /\ parent' = parent
    <3>1. ASSUME CarryingEntry, parent \notin InFlight  PROVE parent' = parent
      BY <3>1 DEF Broker, AcceptLeg, DropLeg, FillLeg, ParentFills, ParentDies, ParentGhosts,
         MarketFills, MarketDies, MarketGhosts, MayFill, InFlight
    <3>. QED BY <2>2, <3>1, BrokerMovesTheLot
  <2>4. parent \in InFlight /\ parent' = "filled" => shares' = 1
    BY BrokerMovesTheLot DEF InFlight
  <2>5. pc \in {"parentWait", "parentGrace"} => CarryingEntry
    BY DEF CarryingEntry
  <2>. QED BY <1>1, <2>1, <2>3, <2>4, <2>5 DEF CalmInv, EntryHoldsLot
<1>7. MarketHasLot'
  <2>1. pc \in {"marketWait", "marketGrace"} /\ market' # "filled"
          => market # "filled" /\ shares' = shares
    <3>. SUFFICES ASSUME pc \in {"marketWait", "marketGrace"}, market' # "filled"
                  PROVE  market # "filled" /\ shares' = shares
      OBVIOUS
    <3>1. market # "filled"
      BY DEF Broker, AcceptLeg, DropLeg, FillLeg, ParentFills, ParentDies, ParentGhosts,
         MarketFills, MarketDies, MarketGhosts, MayFill, InFlight
    <3>2. parent \notin InFlight
      BY DEF CalmInv, MarketHasLot
    <3>. QED BY <3>1, <3>2, BrokerMovesTheLot
  <2>2. caller = "exit" /\ pc = "ensure" => shares' = shares
    BY BrokerMovesTheLot DEF CalmInv, MarketHasLot
  <2>. QED BY <1>1, <2>1, <2>2 DEF CalmInv, MarketHasLot
<1>. QED BY <1>2, <1>3, <1>4, <1>5, <1>6, <1>7 DEF CalmInv

-----------------------------------------------------------------------------
(* Steps of the process and of the bot *)

\* A step that leaves the board alone leaves what is read off it.
LEMMA SameBoard ==
  ASSUME resting' = resting
  PROVE  /\ \A k \in Pairs : IsWorking(k)' = IsWorking(k)
         /\ \A k \in Pairs : Active(k)' = Active(k)
         /\ BoardClear' = BoardClear
         /\ AtMostOnePair' = AtMostOnePair
         /\ OneActivePair' = OneActivePair
  BY DEF IsWorking, Active, BoardClear, AtMostOnePair, OneActivePair

\* A pair that is sent when no other is active is the only active one.
LEMMA PlacedPairIsActiveAlone ==
  ASSUME TypeOK, \A k \in Pairs : ~Active(k), NEW p, PlacePair(p)
  PROVE  /\ \A k \in Pairs : Active(k)' => k = pair'
         /\ OneActivePair'
         /\ pc' = "ensure"
<1>. PICK k \in Pairs :
        /\ resting' = [resting EXCEPT ![k] = [l \in Legs |-> "sent"]]
        /\ pair' = k /\ pc' = "ensure"
  BY DEF PlacePair
<1>1. ASSUME NEW j \in Pairs, j # k  PROVE ~Active(j)'
  <2>1. resting'[j] = resting[j]
    BY <1>1 DEF TypeOK
  <2>. QED BY <2>1 DEF Active
<1>. QED BY <1>1 DEF OneActivePair

\* A pair that is sent to a clear board is the only one on it.
LEMMA PlacedPairIsAlone ==
  ASSUME TypeOK, BoardClear, NEW p, PlacePair(p)
  PROVE  AtMostOnePair'
<1>. PICK k \in Pairs :
        /\ resting' = [resting EXCEPT ![k] = [l \in Legs |-> "sent"]]
        /\ pair' = k /\ pc' = "ensure"
  BY DEF PlacePair
<1>1. ASSUME NEW j \in Pairs, j # k  PROVE ~IsWorking(j)'
  <2>1. resting'[j] = resting[j]
    BY <1>1 DEF TypeOK
  <2>. QED BY <2>1 DEF BoardClear, IsWorking
<1>. QED BY <1>1 DEF AtMostOnePair

\* A cancellation takes the legs off the board without ending their work.
LEMMA CancelledIsInactive ==
  ASSUME TypeOK, NEW k \in Pairs,
         resting' = [resting EXCEPT ![k] = CancelRequested(k)]
  PROVE  /\ \A j \in Pairs : IsWorking(j)' = IsWorking(j)
         /\ ~Active(k)'
         /\ \A j \in Pairs \ {k} : Active(j)' = Active(j)
<1>1. resting'[k] = CancelRequested(k) /\ \A j \in Pairs \ {k} : resting'[j] = resting[j]
  BY DEF TypeOK
<1>2. IsWorking(k)' = IsWorking(k) /\ ~Active(k)'
  BY <1>1 DEF CancelRequested, IsWorking, Active, Working
<1>. QED BY <1>1, <1>2 DEF IsWorking, Active

\* Nothing is active on a clear board.
LEMMA ClearBoardIsInactive ==
  ASSUME BoardClear  PROVE \A k \in Pairs : ~Active(k)
  BY DEF BoardClear, IsWorking, Active, Working

\* So do crashes, restarts, lost connections and nights.
LEMMA EnvironmentKeepsCalm == Calm /\ Inductive /\ CalmInv /\ Environment => CalmInv'
<1>. SUFFICES ASSUME Calm, Inductive, CalmInv, Environment  PROVE CalmInv'
  OBVIOUS
<1>1. UNCHANGED <<shares, parent, attached, resting, market>>
  BY DEF Environment, Crash, Restart, LoseConnection, RestoreLoopFails, NextDay, brokerVars
<1>2. \/ pc' \in {"down", "idle"}
      \/ pc' = "process" /\ UNCHANGED confirmed /\ InTurn
  BY DEF Environment, Crash, Restart, LoseConnection, RestoreLoopFails, NextDay, botVars,
     InTurn, Inductive, RestoringRecorded
<1>. QED
  BY <1>1, <1>2, SameBoard DEF CalmInv, OneLot, SellersHaveLot, TurnIsQuiet, InTurn,
     EntryHoldsLot, CarryingEntry, MarketHasLot

\* So does a turn from the synchronisation to what it restores.
LEMMA CycleKeepsCalm == Calm /\ Inductive /\ BookIsRead /\ CalmInv /\ Cycle => CalmInv'
<1>. SUFFICES ASSUME Calm, Inductive, BookIsRead, CalmInv, Cycle  PROVE CalmInv'
  OBVIOUS
<1>. USE DEF CalmInv, TurnIsQuiet, InTurn, EntryHoldsLot, CarryingEntry, MarketHasLot
<1>. USE DEF brokerVars, storeVars
<1>1. CASE Sync
  <2>1. UNCHANGED <<shares, parent, attached, resting, market, pair, caller, snap>>
    BY <1>1 DEF Sync
  <2>2. parent \notin InFlight /\ market \notin InFlight
    BY <1>1 DEF Sync, Settled
  <2>3. confirmed' => shares = 1
    <3>1. shares > 0 => shares = 1
      BY DEF OneLot
    <3>2. confirmed' = (shares > 0)
      BY <1>1 DEF Sync
    <3>. QED BY <3>1, <3>2, Zenon
  <2>4. pc' \in {"process", "query"}
    BY <1>1 DEF Sync
  <2>. QED BY <2>1, <2>2, <2>3, <2>4, SameBoard DEF OneLot, SellersHaveLot
<1>2. CASE QueryProtection
  <2>1. UNCHANGED <<shares, parent, attached, resting, market, pair, confirmed, local>>
        /\ pc = "query" /\ pc' = "restore" /\ caller' = "restore"
    BY <1>2 DEF QueryProtection
  <2>. QED BY <2>1, SameBoard DEF OneLot, SellersHaveLot
<1>3. CASE AdoptBookPrices
  <2>1. /\ pc = "restore" /\ pc' = "process" /\ local' # "absent"
        /\ UNCHANGED <<shares, parent, attached, resting, market, pair, caller, confirmed, snap>>
    BY <1>3 DEF AdoptBookPrices, Price
  <2>2. caller = "restore" /\ local # "absent"
    BY <2>1 DEF Inductive, RestoringRecorded
  <2>. QED BY <2>1, <2>2, SameBoard DEF OneLot, SellersHaveLot
<1>4. CASE SkipRestore
  BY <1>4, SameBoard DEF SkipRestore, OneLot, SellersHaveLot, Inductive, RestoringRecorded
<1>5. CASE RestorePartial \/ RestoreMissing
  BY <1>5, SameBoard DEF RestorePartial, RestoreMissing, OneLot, SellersHaveLot, Inductive,
     RestoringRecorded
<1>6. CASE RestoreProtection
  <2>0. \A k \in Pairs : ~Active(k)
    BY <1>6 DEF RestoreProtection, BookIsRead, BookIsEmpty, Leftover, Active, Working
  <2>1. /\ caller = "restore" /\ local # "absent"
        /\ shares = 1 /\ parent \notin InFlight /\ market \notin InFlight
    BY <1>6 DEF RestoreProtection, Inductive, RestoringRecorded
  <2>2. UNCHANGED <<shares, parent, market, local, caller, confirmed, snap>>
    BY <1>6 DEF RestoreProtection
  <2>3. CASE local \in Price /\ PlacePair(local)
    BY <2>0, <2>1, <2>2, <2>3, PlacedPairIsActiveAlone
       DEF Inductive, OneLot, SellersHaveLot, CanSell, InFlight
  <2>4. CASE pc' = TurnOver(caller) /\ UNCHANGED <<resting, px, pair, attached>>
    BY <2>1, <2>2, <2>4, SameBoard DEF TurnOver, OneLot, SellersHaveLot
  <2>. QED BY <1>6, <2>3, <2>4 DEF RestoreProtection, PlaceRecorded
<1>. QED BY <1>1, <1>2, <1>3, <1>4, <1>5, <1>6 DEF Cycle

\* A cancellation that is waited for leaves the board clear.
LEMMA CancelKeepsCalm == Calm /\ Inductive /\ CalmInv /\ CancelSteps => CalmInv'
<1>. SUFFICES ASSUME Calm, Inductive, CalmInv, CancelSteps  PROVE CalmInv'
  OBVIOUS
<1>. USE DEF CalmInv, TurnIsQuiet, InTurn, EntryHoldsLot, CarryingEntry, MarketHasLot
<1>. USE DEF brokerVars, storeVars
<1>0. caller \in {"restore", "exit", "entry"}
  BY DEF Inductive, TypeOK, Caller
<1>1. CASE RequestCancel
  <2>1. /\ pc = "cancel" /\ pc' = "cancelWait"
        /\ UNCHANGED <<shares, parent, attached, market, pair, caller, confirmed, snap, local>>
    BY <1>1 DEF RequestCancel
  <2>2. \A k \in Pairs : ~Active(k)'
    BY <1>1 DEF RequestCancel, CancelRequested, Active, Working
  <2>3. OneActivePair'
    BY <2>2 DEF OneActivePair
  <2>. QED BY <2>1, <2>2, <2>3 DEF OneLot, SellersHaveLot
<1>2. CASE CancelTimesOut
  <2>1. /\ pc = "cancelWait"
        /\ pc' = IF caller = "entry" THEN "ensure" ELSE TurnOver(caller)
        /\ UNCHANGED <<shares, parent, attached, resting, market, pair, caller, confirmed,
                       snap, local>>
    BY <1>2 DEF CancelTimesOut
  <2>2. caller = "restore" => local # "absent"
    BY <2>1 DEF Inductive, RestoringRecorded
  <2>. QED BY <1>0, <2>1, <2>2, SameBoard DEF TurnOver, OneLot, SellersHaveLot
<1>3. CASE RestoreAfterCancel
  BY <1>3, SameBoard DEF RestoreAfterCancel, CancelReturns, OneLot, SellersHaveLot
<1>4. CASE SellAfterCancel
  <2>1. /\ pc \in {"cancel", "cancelWait"} /\ caller = "exit" /\ pc' = "marketWait"
        /\ market' = "working" /\ BoardClear
        /\ UNCHANGED <<shares, parent, attached, resting, pair, caller, confirmed, snap, local>>
    BY <1>4 DEF SellAfterCancel, CancelReturns
  <2>2. shares = 1 /\ parent \notin InFlight /\ local # "absent"
    BY <2>1
  <2>. QED
    BY <2>1, <2>2, SameBoard, ClearBoardIsInactive DEF OneLot, SellersHaveLot
<1>5. CASE ReplaceAfterCancel
  <2>1. /\ pc \in {"cancel", "cancelWait"} /\ caller = "entry" /\ BoardClear
        /\ PlacePair("fill")
        /\ UNCHANGED <<shares, parent, market, caller, confirmed, snap, local>>
    BY <1>5 DEF ReplaceAfterCancel, CancelReturns
  <2>2. /\ shares = 1 /\ parent \notin InFlight /\ market \notin InFlight /\ local = "absent"
    BY <2>1
  <2>3. /\ \A k \in Pairs : Active(k)' => k = pair'
        /\ OneActivePair' /\ pc' = "ensure"
    BY <2>1, ClearBoardIsInactive, PlacedPairIsActiveAlone DEF Inductive
  <2>. QED BY <2>1, <2>2, <2>3 DEF OneLot, SellersHaveLot, CanSell, InFlight
<1>. QED BY <1>1, <1>2, <1>3, <1>4, <1>5 DEF CancelSteps

\* A bracket goes out when nothing on the book can fill any more.
LEMMA EntryKeepsCalm == Calm /\ Inductive /\ CalmInv /\ Entry => CalmInv'
<1>. SUFFICES ASSUME Calm, Inductive, CalmInv, Entry  PROVE CalmInv'
  OBVIOUS
<1>. USE DEF CalmInv, TurnIsQuiet, InTurn, EntryHoldsLot, CarryingEntry, MarketHasLot
<1>. USE DEF brokerVars, storeVars
<1>1. CASE SkipEntry
  BY <1>1, SameBoard DEF SkipEntry, OneLot, SellersHaveLot
<1>2. CASE PlaceBracket
  <2>1. /\ pc = "process" /\ local = "absent" /\ parent' = "working" /\ caller' = "entry"
        /\ pc' = "parentWait"
        /\ UNCHANGED <<shares, market, confirmed, snap, local>>
    BY <1>2 DEF PlaceBracket
  <2>2. shares = 0 /\ market \notin InFlight /\ parent \notin InFlight
    BY <2>1 DEF OneLot, Inductive, EnteringFlat
  <2>3. PICK k \in Pairs :
          /\ attached' = k /\ pair' = k
          /\ resting' = [resting EXCEPT ![k] = [l \in Legs |-> "sent"]]
    BY <1>2 DEF PlaceBracket
  <2>4. \A j \in Pairs \ {k} : resting'[j] = resting[j]
    BY <2>3 DEF Inductive, TypeOK
  <2>5. \A j \in Pairs \ {k} : ~Active(j)'
    BY <2>2, <2>4 DEF SellersHaveLot, Active
  <2>6. OneActivePair' /\ \A j \in Pairs : Active(j)' => j = pair'
    BY <2>3, <2>5 DEF OneActivePair
  <2>. QED BY <2>1, <2>2, <2>3, <2>5, <2>6 DEF OneLot, SellersHaveLot, InFlight, CanSell
<1>3. CASE SeeParentFilled
  <2>1. caller = "entry"
    BY <1>3 DEF SeeParentFilled, Inductive, PairIsKnown
  <2>. QED BY <1>3, <2>1, SameBoard DEF SeeParentFilled, OneLot, SellersHaveLot, InFlight
<1>4. CASE SeeParentCancelled
  BY <1>4, SameBoard DEF SeeParentCancelled, OneLot, SellersHaveLot
<1>5. CASE GiveUpOnParent
  <2>0. /\ pc \in {"parentWait", "parentGrace"} /\ pc' = "idle"
        /\ parent' = parent \/ (parent = "working" /\ parent' = "pcancel")
        /\ resting' = [resting EXCEPT ![pair] = CancelRequested(pair)]
        /\ UNCHANGED <<shares, attached, market, pair, caller>>
    BY <1>5 DEF GiveUpOnParent
  <2>1. pair \in Pairs
    BY <2>0 DEF Inductive, PairIsKnown
  <2>2. ~Active(pair)' /\ \A k \in Pairs \ {pair} : Active(k)' = Active(k)
    BY <2>0, <2>1, CancelledIsInactive DEF Inductive
  <2>3. OneActivePair'
    BY <2>0, <2>2 DEF OneActivePair
  <2>. QED BY <2>0, <2>1, <2>2, <2>3 DEF OneLot, SellersHaveLot, InFlight
<1>6. CASE KeepChildren
  <2>1. caller = "entry"
    BY <1>6 DEF KeepChildren, Inductive, PairIsKnown
  <2>. QED BY <1>6, <2>1, SameBoard DEF KeepChildren, OneLot, SellersHaveLot
<1>7. ASSUME NEW accepted \in BOOLEAN, NEW read \in BOOLEAN, RepriceChildren(accepted, read)
      PROVE  CalmInv'
  <2>1. /\ pc = "reprice" /\ pc' \in {"ensure", "cancel"}
        /\ UNCHANGED <<shares, parent, attached, resting, market, local, caller, pair, confirmed, snap>>
    BY <1>7 DEF RepriceChildren
  <2>2. caller = "entry"
    BY <2>1 DEF Inductive, PairIsKnown
  <2>. QED BY <2>1, <2>2, SameBoard DEF OneLot, SellersHaveLot
<1>. QED BY <1>1, <1>2, <1>3, <1>4, <1>5, <1>6, <1>7 DEF Entry

\* A pair is restored only for a lot without one.
LEMMA ProtectionKeepsCalm ==
  Calm /\ Inductive /\ CalmInv /\ (ConfirmChildren \/ LeaveBare \/ Flatten) => CalmInv'
<1>. SUFFICES ASSUME Calm, Inductive, CalmInv, ConfirmChildren \/ LeaveBare \/ Flatten
              PROVE  CalmInv'
  OBVIOUS
<1>. USE DEF CalmInv, TurnIsQuiet, InTurn, EntryHoldsLot, CarryingEntry, MarketHasLot
<1>. USE DEF brokerVars, storeVars
<1>1. CASE ConfirmChildren
  <2>1. /\ pc = "ensure" /\ pc' = TurnOver(caller)
        /\ local' = IF caller = "entry" THEN rec ELSE local
        /\ UNCHANGED <<shares, parent, attached, resting, market, caller, pair, confirmed, snap>>
    BY <1>1 DEF ConfirmChildren
  <2>2. caller = "restore" => local' # "absent"
    BY <2>1 DEF Inductive, RestoringRecorded
  <2>. QED BY <2>1, <2>2, SameBoard DEF TurnOver, OneLot, SellersHaveLot
<1>2. CASE LeaveBare
  <2>1. /\ pc = "ensure" /\ pc' = TurnOver(caller)
        /\ UNCHANGED <<shares, parent, attached, resting, market, local, caller, pair,
                       confirmed, snap>>
    BY <1>2 DEF LeaveBare
  <2>2. caller = "restore" => local # "absent"
    BY <2>1 DEF Inductive, RestoringRecorded
  <2>. QED BY <2>1, <2>2, SameBoard DEF TurnOver, OneLot, SellersHaveLot
<1>3. CASE Flatten
  <2>1. /\ pc = "ensure" /\ caller = "entry" /\ pc' = "marketWait" /\ pair \in Pairs
        /\ market' = "working"
        /\ resting' = [resting EXCEPT ![pair] = CancelRequested(pair)]
        /\ UNCHANGED <<shares, parent, attached, local, caller, pair, confirmed, snap>>
    BY <1>3 DEF Flatten, Inductive, PairIsKnown
  <2>2. ~Active(pair)' /\ \A k \in Pairs \ {pair} : Active(k)' = Active(k)
    BY <2>1, CancelledIsInactive DEF Inductive
  <2>3. OneActivePair'
    BY <2>1, <2>2 DEF OneActivePair
  <2>4. \A k \in Pairs \ {pair} : ~Active(k)
    BY <2>1
  <2>. QED BY <2>1, <2>2, <2>3, <2>4 DEF OneLot, SellersHaveLot
<1>. QED BY <1>1, <1>2, <1>3

\* A market sell goes out after the pair is gone.
LEMMA ExitKeepsCalm == Calm /\ Inductive /\ CalmInv /\ Exit => CalmInv'
<1>. SUFFICES ASSUME Calm, Inductive, CalmInv, Exit  PROVE CalmInv'
  OBVIOUS
<1>. USE DEF CalmInv, TurnIsQuiet, InTurn, EntryHoldsLot, CarryingEntry, MarketHasLot
<1>. USE DEF brokerVars, storeVars
<1>1. CASE RecordRestingFill \/ KeepPosition
  BY <1>1, SameBoard DEF RecordRestingFill, KeepPosition, OneLot, SellersHaveLot
<1>2. CASE BeginExit
  BY <1>2, SameBoard DEF BeginExit, OneLot, SellersHaveLot
<1>3. CASE SeeMarketFilled
  <2>1. pc' = "idle" /\ UNCHANGED <<shares, parent, attached, resting, market>>
    BY <1>3 DEF SeeMarketFilled
  <2>. QED BY <2>1, SameBoard DEF OneLot, SellersHaveLot
<1>4. CASE SeeMarketCancelled
  BY <1>4, SameBoard DEF SeeMarketCancelled, OneLot, SellersHaveLot
<1>5. CASE MarketFails
  <2>1. /\ pc \in {"marketWait", "marketGrace"} /\ market # "filled"
        /\ market' \notin CanSell
        /\ UNCHANGED <<shares, parent, local, caller, confirmed, snap>>
    BY <1>5 DEF MarketFails, Calm, CanSell
  <2>2. shares = 1 /\ parent \notin InFlight
    BY <2>1
  <2>3. CASE caller = "exit" /\ local \in Price /\ PlacePair(local)
    <3>1. BoardClear /\ local # "absent"
      BY <2>1, <2>3 DEF Inductive, ExitSellsAlone, SellsAlone
    <3>2. OneActivePair' /\ pc' = "ensure"
      BY <2>3, <3>1, ClearBoardIsInactive, PlacedPairIsActiveAlone DEF Inductive
    <3>. QED BY <2>1, <2>2, <2>3, <3>1, <3>2 DEF OneLot, SellersHaveLot
  <2>4. CASE pc' = "idle" /\ UNCHANGED <<resting, attached>>
    BY <2>1, <2>2, <2>4, SameBoard DEF OneLot, SellersHaveLot
  <2>. QED BY <1>5, <2>3, <2>4 DEF MarketFails, PlaceRecorded, TurnOver
<1>. QED BY <1>1, <1>2, <1>3, <1>4, <1>5 DEF Exit

\* Every step keeps the calm invariant.
LEMMA StepKeepsCalm == Calm /\ Inductive /\ BookIsRead /\ CalmInv /\ [Next]_vars => CalmInv'
<1>1. CalmInv /\ UNCHANGED vars => CalmInv'
  <2>. SUFFICES ASSUME CalmInv, UNCHANGED vars  PROVE CalmInv'
    OBVIOUS
  <2>. QED
    BY SameBoard DEF vars, brokerVars, storeVars, botVars, CalmInv, OneLot, SellersHaveLot,
       TurnIsQuiet, InTurn, EntryHoldsLot, CarryingEntry, MarketHasLot
<1>. QED
  BY <1>1, BrokerKeepsCalm, EnvironmentKeepsCalm, CycleKeepsCalm, CancelKeepsCalm,
     EntryKeepsCalm, ProtectionKeepsCalm, ExitKeepsCalm DEF Next, Bot

\* At first nothing is held and nothing works.
LEMMA InitIsCalm == Init => CalmInv
<1>. SUFFICES ASSUME Init  PROVE CalmInv
  OBVIOUS
<1>1. \A k \in Pairs : ~Active(k)
  BY DEF Init, Active
<1>2. shares = 0 /\ parent = "none" /\ market = "none" /\ pc = "idle"
  BY DEF Init
<1>. QED
  BY <1>1, <1>2 DEF CalmInv, OneLot, OneActivePair, SellersHaveLot, TurnIsQuiet, InTurn,
     EntryHoldsLot, CarryingEntry, MarketHasLot, InFlight, CanSell

\* The calm invariant holds throughout.
LEMMA AlwaysCalm == Calm => (Spec => [](Inductive /\ CalmInv))
<1>. SUFFICES ASSUME Calm  PROVE Spec => [](Inductive /\ CalmInv)
  OBVIOUS
<1>1. Inductive /\ BookIsRead /\ CalmInv /\ [Next]_vars => CalmInv'
  BY StepKeepsCalm
<1>. QED BY <1>1, InitIsCalm, AlwaysRead, PTL DEF Spec

-----------------------------------------------------------------------------
(***************************************************************************)
(* When every cancellation is answered within the cycle, a pair that is    *)
(* not active has left the book.                                           *)
(***************************************************************************)

\* A symbol without a record that is about to be processed has no order left.
EntryBoardIsClear == pc = "process" /\ local = "absent" => BoardClear

PromptInv == AtMostOnePair /\ EntryBoardIsClear

\* A step that sends no order keeps at most one pair.
LEMMA NothingSent ==
  ASSUME AtMostOnePair, \A k \in Pairs : IsWorking(k)' => IsWorking(k)
  PROVE  AtMostOnePair' /\ (BoardClear => BoardClear')
  BY DEF AtMostOnePair, BoardClear

\* Only the synchronisation and an end of the restoration lead to a turn, and
\* the restoration leads there with a record.
LEMMA OnlySyncBeginsBareTurns ==
  ASSUME Inductive, Next, ~Broker, pc' = "process", local' = "absent"
  PROVE  Sync
<1>. USE DEF Inductive, RestoringRecorded, TurnOver, storeVars
<1>1. ~Environment
  BY DEF Environment, Crash, Restart, LoseConnection, RestoreLoopFails, NextDay
<1>2. CASE Cycle
  BY <1>2 DEF Cycle, QueryProtection, AdoptBookPrices, Price, SkipRestore, RestorePartial,
     RestoreMissing, RestoreProtection, PlaceRecorded, PlacePair
<1>3. CASE CancelSteps
  BY <1>3 DEF CancelSteps, RequestCancel, CancelTimesOut, RestoreAfterCancel,
     SellAfterCancel, ReplaceAfterCancel, CancelReturns, PlacePair, TypeOK, Caller
<1>4. CASE Entry
  BY <1>4 DEF Entry, SkipEntry, PlaceBracket, SeeParentFilled, SeeParentCancelled,
     GiveUpOnParent, KeepChildren, RepriceChildren
<1>5. CASE Exit
  BY <1>5 DEF Exit, RecordRestingFill, KeepPosition, BeginExit, SeeMarketFilled,
     SeeMarketCancelled, MarketFails, PlaceRecorded, PlacePair
<1>6. CASE ConfirmChildren \/ LeaveBare \/ Flatten
  BY <1>6 DEF ConfirmChildren, LeaveBare, Flatten, TypeOK, Caller
<1>. QED BY <1>1, <1>2, <1>3, <1>4, <1>5, <1>6 DEF Next, Bot

\* A pair goes out on a clear board; every other step sends nothing.
LEMMA SentOnClearBoard ==
  ASSUME Prompt, Inductive, BookIsRead, PromptInv, Bot
  PROVE  AtMostOnePair'
<1>. USE DEF Inductive, PromptInv
<1>1. CASE RestoreProtection
  <2>1. BoardClear
    BY <1>1 DEF RestoreProtection, BookIsRead, BookIsEmpty, Leftover, Prompt, BoardClear,
       IsWorking
  <2>. QED BY <1>1, <2>1, PlacedPairIsAlone, SameBoard DEF RestoreProtection, PlaceRecorded
<1>2. CASE ReplaceAfterCancel
  BY <1>2, PlacedPairIsAlone DEF ReplaceAfterCancel, CancelReturns
<1>3. CASE MarketFails
  <2>1. caller = "exit" => BoardClear
    BY <1>3 DEF MarketFails, ExitSellsAlone, SellsAlone
  <2>. QED BY <1>3, <2>1, PlacedPairIsAlone, SameBoard DEF MarketFails, PlaceRecorded
<1>4. CASE PlaceBracket
  <2>1. BoardClear
    BY <1>4 DEF PlaceBracket, EntryBoardIsClear
  <2>2. PICK k \in Pairs : resting' = [resting EXCEPT ![k] = [l \in Legs |-> "sent"]]
    BY <1>4 DEF PlaceBracket
  <2>3. \A j \in Pairs \ {k} : resting'[j] = resting[j]
    BY <2>2 DEF TypeOK
  <2>. QED BY <2>1, <2>3 DEF BoardClear, IsWorking, AtMostOnePair
<1>5. CASE RequestCancel
  <2>1. \A k \in Pairs : IsWorking(k)' = IsWorking(k)
    BY <1>5 DEF RequestCancel, CancelRequested, IsWorking, Working
  <2>. QED BY <2>1, NothingSent
<1>6. CASE GiveUpOnParent \/ Flatten
  <2>1. pair \in Pairs /\ resting' = [resting EXCEPT ![pair] = CancelRequested(pair)]
    BY <1>6 DEF GiveUpOnParent, Flatten, PairIsKnown
  <2>. QED BY <2>1, CancelledIsInactive, NothingSent
<1>7. CASE UNCHANGED resting
  BY <1>7, SameBoard
<1>8. \/ RestoreProtection \/ ReplaceAfterCancel \/ MarketFails \/ PlaceBracket
      \/ RequestCancel \/ GiveUpOnParent \/ Flatten \/ UNCHANGED resting
  BY DEF Bot, Cycle, Sync, QueryProtection, AdoptBookPrices, SkipRestore, RestorePartial,
     RestoreMissing, CancelSteps, CancelTimesOut, RestoreAfterCancel, SellAfterCancel, Entry,
     SkipEntry, SeeParentFilled, SeeParentCancelled, KeepChildren, RepriceChildren, Exit,
     RecordRestingFill, KeepPosition, BeginExit, SeeMarketFilled, SeeMarketCancelled,
     ConfirmChildren, LeaveBare, brokerVars
<1>. QED BY <1>1, <1>2, <1>3, <1>4, <1>5, <1>6, <1>7, <1>8

\* The synchronisation finds a clear book where it finds no lot.
LEMMA SyncFindsClearBoard ==
  ASSUME Prompt, Inductive, CalmInv, Sync, local' = "absent"
  PROVE  BoardClear'
<1>1. shares = 0 /\ parent \notin InFlight /\ resting' = resting
  BY DEF Sync, Settled, CalmInv, OneLot, brokerVars
<1>2. \A k \in Pairs, l \in Legs : resting[k][l] \notin {"sent", "pcancel"}
  BY DEF Sync, Settled, Prompt
<1>3. \A k \in Pairs : ~Active(k)
  BY <1>1 DEF CalmInv, SellersHaveLot
<1>4. BoardClear
  BY <1>2, <1>3 DEF BoardClear, IsWorking, Working, Active
<1>. QED BY <1>1, <1>4, SameBoard

\* Every step keeps the board in order.
LEMMA StepKeepsPrompt ==
  Prompt /\ Inductive /\ BookIsRead /\ CalmInv /\ PromptInv /\ [Next]_vars => PromptInv'
<1>. SUFFICES ASSUME Prompt, Inductive, BookIsRead, CalmInv, PromptInv, [Next]_vars
              PROVE  PromptInv'
  OBVIOUS
<1>1. CASE UNCHANGED vars
  BY <1>1, SameBoard DEF PromptInv, EntryBoardIsClear, vars, brokerVars, storeVars, botVars
<1>2. CASE Broker
  BY <1>2, BrokerAddsNoOrder, NothingSent
     DEF Inductive, PromptInv, EntryBoardIsClear, storeVars, botVars
<1>3. CASE Next /\ ~Broker
  <2>1. AtMostOnePair'
    <3>1. CASE Environment
      <4>1. resting' = resting
        BY <3>1 DEF Environment, Crash, Restart, LoseConnection, RestoreLoopFails, NextDay,
           brokerVars
      <4>. QED BY <4>1, SameBoard DEF PromptInv
    <3>. QED BY <1>3, <3>1, SentOnClearBoard DEF Next
  <2>2. EntryBoardIsClear'
    BY <1>3, OnlySyncBeginsBareTurns, SyncFindsClearBoard DEF EntryBoardIsClear
  <2>. QED BY <2>1, <2>2 DEF PromptInv
<1>. QED BY <1>1, <1>2, <1>3

\* And it is in order throughout.
LEMMA AlwaysPrompt == Calm /\ Prompt => (Spec => []PromptInv)
<1>. SUFFICES ASSUME Calm, Prompt  PROVE Spec => []PromptInv
  OBVIOUS
<1>1. Init => PromptInv
  BY DEF Init, PromptInv, AtMostOnePair, EntryBoardIsClear, IsWorking, Working
<1>2. Inductive /\ BookIsRead /\ CalmInv /\ PromptInv /\ [Next]_vars => PromptInv'
  BY StepKeepsPrompt
<1>. QED BY <1>1, <1>2, AlwaysRead, AlwaysCalm, PTL DEF Spec

-----------------------------------------------------------------------------
(* The theorems *)

\* NoShort: under the calm races nothing sells a lot that is not held, through
\* crashes, restarts, rejected legs, cancellations that time out and nights.
THEOREM NeverShort == Calm => (Spec => []NoShort)
<1>. SUFFICES ASSUME Calm  PROVE Spec => []NoShort
  OBVIOUS
<1>1. CalmInv => NoShort
  BY DEF CalmInv, OneLot, NoShort
<1>. QED BY <1>1, AlwaysCalm, PTL

\* AtMostOnePair: a pair is sent only after the earlier one has left the book
\* (cancel_bracket_orders_async, _restore_missing_resting_orders_async).
THEOREM OnePairAtMost == Calm /\ Prompt => (Spec => []AtMostOnePair)
<1>. SUFFICES ASSUME Calm, Prompt  PROVE Spec => []AtMostOnePair
  OBVIOUS
<1>1. PromptInv => AtMostOnePair
  BY DEF PromptInv
<1>. QED BY <1>1, AlwaysPrompt, PTL

\* EntryOnCleanBoard: whatever an earlier position left on the book is gone
\* when the next bracket of the symbol goes out.
THEOREM EntriesOnCleanBoard == Calm /\ Prompt => (Spec => EntryOnCleanBoard)
<1>. SUFFICES ASSUME Calm, Prompt  PROVE Spec => EntryOnCleanBoard
  OBVIOUS
<1>1. PromptInv /\ [Next]_vars
        => [pc = "process" /\ pc' = "parentWait" => BoardClear]_vars
  <2>. SUFFICES ASSUME PromptInv, Next, pc = "process", pc' = "parentWait"
                PROVE  BoardClear
    OBVIOUS
  <2>1. PlaceBracket
    BY OnlyBracketsBeginEntries
  <2>. QED BY <2>1 DEF PlaceBracket, PromptInv, EntryBoardIsClear
<1>. QED BY <1>1, AlwaysPrompt, PTL DEF Spec, EntryOnCleanBoard

-----------------------------------------------------------------------------
(***************************************************************************)
(* What a fill says about the position.  The session shows a fill without  *)
(* the position it closed; as long as no turn was cut off and no session   *)
(* outlives its day, it is the fill of the recorded position.              *)
(***************************************************************************)

\* A lot that a resting order may sell is recorded, or its entry under way.
SellersAreKnown ==
    \A k \in Pairs : Active(k) /\ shares = 1 => local # "absent" \/ CarryingEntry

\* A BUY that may fill is waited for.
BuyersAreKnown == parent \in {"working", "ghost"} => CarryingEntry

\* After a fill nothing is held, and nothing is bought on the same day.
FillIsNews ==
    seenFill => shares = 0 /\ parent \notin InFlight /\ (local # "absent" \/ cooldown)

FillsAreKnown == SellersAreKnown /\ BuyersAreKnown /\ FillIsNews

FillInv == faults = 0 => FillsAreKnown

\* The broker: a fill is of a lot that is recorded.
LEMMA BrokerKeepsFills ==
  Calm /\ Inductive /\ CalmInv /\ FillsAreKnown /\ Broker => FillsAreKnown'
<1>. SUFFICES ASSUME Calm, Inductive, CalmInv, FillsAreKnown, Broker  PROVE FillsAreKnown'
  OBVIOUS
<1>1. /\ \A k \in Pairs : Active(k)' => Active(k)
      /\ parent' \in InFlight => parent \in InFlight
      /\ UNCHANGED <<local, cooldown, pc, caller>>
  BY BrokerAddsNoOrder DEF Inductive, storeVars, botVars
<1>2. CarryingEntry' <=> CarryingEntry
  BY <1>1 DEF CarryingEntry
<1>3. BuyersAreKnown'
  <2>1. parent' \in {"working", "ghost"} => parent \in {"working", "ghost"}
    BY DEF Broker, AcceptLeg, DropLeg, FillLeg, ParentFills, ParentDies, ParentGhosts,
       MarketFills, MarketDies, MarketGhosts
  <2>. QED BY <1>2, <2>1 DEF FillsAreKnown, BuyersAreKnown
<1>4. ASSUME NEW k \in Pairs, NEW l \in Legs, FillLeg(k, l)
      PROVE  SellersAreKnown' /\ FillIsNews'
  <2>1. shares = 1 /\ shares' = 0 /\ pc \in {"idle", "down"} /\ parent \notin InFlight
    BY <1>4, FillSellsTheLot
  <2>2. Active(k)
    BY <1>4 DEF FillLeg, Calm, Active
  <2>3. ~CarryingEntry
    BY <2>1 DEF CarryingEntry
  <2>4. local # "absent"
    BY <2>1, <2>2, <2>3 DEF FillsAreKnown, SellersAreKnown
  <2>. QED BY <1>1, <2>1, <2>4 DEF SellersAreKnown, FillIsNews
<1>5. CASE ParentFills
  <2>1. parent \in {"working", "ghost"} /\ parent \in InFlight /\ seenFill' = seenFill
    BY <1>5 DEF ParentFills, MayFill, InFlight, Calm
  <2>2. CarryingEntry' /\ ~seenFill'
    BY <1>2, <2>1 DEF FillsAreKnown, BuyersAreKnown, FillIsNews
  <2>. QED BY <1>3, <2>2 DEF FillsAreKnown, SellersAreKnown, FillIsNews
<1>6. ASSUME shares' = shares \/ shares' = 0, seenFill' = seenFill
      PROVE  SellersAreKnown' /\ FillIsNews'
  BY <1>1, <1>2, <1>6 DEF FillsAreKnown, SellersAreKnown, FillIsNews
<1>7. CASE MarketFills
  <2>1. shares' = 0 /\ seenFill' = seenFill
    BY <1>7 DEF MarketFills, MayFill, Calm, CanSell, CalmInv, SellersHaveLot
  <2>. QED BY <1>3, <1>6, <2>1 DEF FillsAreKnown
<1>8. ASSUME NEW k \in Pairs, NEW l \in Legs, AcceptLeg(k, l) \/ DropLeg(k, l)
      PROVE  shares' = shares /\ seenFill' = seenFill
  BY <1>8 DEF AcceptLeg, DropLeg
<1>9. CASE ParentDies \/ ParentGhosts \/ MarketDies \/ MarketGhosts
  <2>1. shares' = shares /\ seenFill' = seenFill
    BY <1>9 DEF ParentDies, ParentGhosts, MarketDies, MarketGhosts
  <2>. QED BY <1>3, <1>6, <2>1 DEF FillsAreKnown
<1>. QED BY <1>3, <1>4, <1>5, <1>6, <1>7, <1>8, <1>9 DEF Broker, FillsAreKnown

\* A restart and a night without a fault leave no entry behind.
LEMMA EnvironmentKeepsFills ==
  ASSUME "Overnight" \notin Races, TypeOK, FillsAreKnown, Environment, faults = 0, faults' = 0
  PROVE  FillsAreKnown'
<1>1. Restart \/ NextDay
  BY DEF Environment, Crash, LoseConnection, RestoreLoopFails
<1>2. /\ UNCHANGED <<shares, parent, resting, local, caller>>
      /\ ~CarryingEntry
      /\ seenFill' => seenFill /\ cooldown' = cooldown
  BY <1>1 DEF Restart, NextDay, CarryingEntry, storeVars, TypeOK
<1>. QED
  BY <1>2, SameBoard DEF FillsAreKnown, SellersAreKnown, BuyersAreKnown, FillIsNews

\* The bot: a pair it sends is of a recorded position or of the entry under
\* way, an entry that ends has recorded its lot or taken its orders back, and
\* a symbol that is closed is not entered again.
LEMMA BotKeepsFills ==
  ASSUME Calm, Inductive, HoldsOneLot, CalmInv, FillsAreKnown, Bot
  PROVE  FillsAreKnown'
<1>. USE DEF Inductive, CalmInv, CarryingEntry, brokerVars, storeVars
<1>1. shares' = shares /\ seenFill' = seenFill
  BY DEF Bot, Cycle, Sync, QueryProtection, AdoptBookPrices, SkipRestore, RestorePartial,
     RestoreMissing, RestoreProtection, CancelSteps, RequestCancel, CancelTimesOut,
     RestoreAfterCancel, SellAfterCancel, ReplaceAfterCancel, Entry, SkipEntry, PlaceBracket,
     SeeParentFilled, SeeParentCancelled, GiveUpOnParent, KeepChildren, RepriceChildren, Exit,
     RecordRestingFill, KeepPosition, BeginExit, SeeMarketFilled, SeeMarketCancelled,
     MarketFails, ConfirmChildren, LeaveBare, Flatten
<1>2. ASSUME resting' = resting, parent' = parent, cooldown' = cooldown,
             local # "absent" => local' # "absent", CarryingEntry => CarryingEntry'
      PROVE  FillsAreKnown'
  <2>1. SellersAreKnown'
    BY <1>1, <1>2, SameBoard DEF FillsAreKnown, SellersAreKnown
  <2>2. BuyersAreKnown' /\ FillIsNews'
    BY <1>1, <1>2 DEF FillsAreKnown, BuyersAreKnown, FillIsNews
  <2>. QED BY <2>1, <2>2 DEF FillsAreKnown
<1>3. ASSUME local' # "absent", parent' = parent, cooldown' = cooldown, ~CarryingEntry
      PROVE  FillsAreKnown'
  BY <1>1, <1>3 DEF FillsAreKnown, SellersAreKnown, BuyersAreKnown, FillIsNews
<1>4. ASSUME \A k \in Pairs : Active(k)' => shares # 1, parent' \notin {"working", "ghost"},
             parent' \in InFlight => parent \in InFlight,
             (local' # "absent" \/ cooldown') \/ (UNCHANGED <<local, cooldown>>)
      PROVE  FillsAreKnown'
  BY <1>1, <1>4 DEF FillsAreKnown, SellersAreKnown, BuyersAreKnown, FillIsNews
<1>5. CASE \/ Sync \/ QueryProtection \/ AdoptBookPrices \/ SkipRestore \/ RestorePartial
           \/ RestoreMissing
  BY <1>2, <1>5 DEF Sync, QueryProtection, AdoptBookPrices, Price, SkipRestore, RestorePartial,
     RestoreMissing
<1>6. CASE RestoreProtection
  BY <1>3, <1>6 DEF RestoreProtection, RestoringRecorded
<1>7. CASE RequestCancel
  <2>1. \A k \in Pairs : ~Active(k)'
    BY <1>7 DEF RequestCancel, CancelRequested, Active, Working
  <2>2. CarryingEntry' = CarryingEntry /\ UNCHANGED <<parent, local, cooldown>>
    BY <1>7 DEF RequestCancel
  <2>. QED BY <1>1, <2>1, <2>2 DEF FillsAreKnown, SellersAreKnown, BuyersAreKnown, FillIsNews
<1>8. CASE CancelTimesOut \/ RestoreAfterCancel \/ SellAfterCancel
  BY <1>2, <1>8 DEF CancelTimesOut, RestoreAfterCancel, SellAfterCancel, CancelReturns
<1>9. CASE ReplaceAfterCancel
  <2>1. CarryingEntry' /\ UNCHANGED <<parent, local, cooldown>> /\ CarryingEntry
    BY <1>9 DEF ReplaceAfterCancel, CancelReturns, PlacePair
  <2>. QED BY <1>1, <2>1 DEF FillsAreKnown, SellersAreKnown, BuyersAreKnown, FillIsNews
<1>10. CASE PlaceBracket
  <2>1. CarryingEntry' /\ ~cooldown /\ local = "absent"
    BY <1>10 DEF PlaceBracket
  <2>. QED BY <1>1, <2>1 DEF FillsAreKnown, SellersAreKnown, BuyersAreKnown, FillIsNews
<1>11. CASE SkipEntry \/ SeeParentFilled \/ SeeParentCancelled \/ KeepChildren
            \/ \E accepted, read \in BOOLEAN : RepriceChildren(accepted, read)
  BY <1>2, <1>11 DEF SkipEntry, SeeParentFilled, SeeParentCancelled, KeepChildren,
     RepriceChildren, PairIsKnown
<1>12. CASE GiveUpOnParent
  <2>1. /\ pair \in Pairs /\ pair' = pair /\ CarryingEntry
        /\ resting' = [resting EXCEPT ![pair] = CancelRequested(pair)]
        /\ parent' \notin {"working", "ghost"}
        /\ parent' \in InFlight => parent \in InFlight
        /\ UNCHANGED <<local, cooldown>>
    BY <1>12 DEF GiveUpOnParent, PairIsKnown, Calm, InFlight
  <2>2. \A k \in Pairs : ~Active(k)'
    BY <2>1, CancelledIsInactive DEF EntryHoldsLot
  <2>. QED BY <1>4, <2>1, <2>2
<1>13. CASE ConfirmChildren
  <2>1. pc = "ensure" /\ local' = (IF caller = "entry" THEN rec ELSE local)
        /\ UNCHANGED <<resting, parent, cooldown>> /\ caller' = caller
    BY <1>13 DEF ConfirmChildren
  <2>2. CASE caller = "entry"
    <3>1. local' # "absent" /\ parent' \notin InFlight
      BY <2>1, <2>2 DEF TypeOK, Price, EntryHoldsLot
    <3>. QED
      BY <1>1, <2>1, <3>1 DEF FillsAreKnown, SellersAreKnown, BuyersAreKnown, FillIsNews, InFlight
  <2>3. CASE caller # "entry"
    BY <1>2, <2>1, <2>3
  <2>. QED BY <2>2, <2>3
<1>14. CASE LeaveBare
  BY <1>2, <1>14 DEF LeaveBare
<1>15. CASE Flatten
  <2>1. /\ pair \in Pairs /\ pair' = pair /\ CarryingEntry /\ parent' \notin InFlight
        /\ resting' = [resting EXCEPT ![pair] = CancelRequested(pair)]
        /\ UNCHANGED <<local, cooldown>>
    BY <1>15 DEF Flatten, PairIsKnown, EntryHoldsLot
  <2>2. \A k \in Pairs : ~Active(k)'
    BY <2>1, CancelledIsInactive DEF EntryHoldsLot
  <2>. QED BY <1>4, <2>1, <2>2 DEF InFlight
<1>16. CASE RecordRestingFill
  <2>1. shares = 0 /\ parent \notin InFlight
    BY <1>16 DEF RecordRestingFill, FillsAreKnown, FillIsNews
  <2>. QED BY <1>4, <1>16, <2>1 DEF RecordRestingFill, InFlight
<1>17. CASE KeepPosition \/ BeginExit \/ SeeMarketCancelled
  BY <1>2, <1>17 DEF KeepPosition, BeginExit, SeeMarketCancelled
<1>18. CASE SeeMarketFilled
  <2>1. /\ shares <= 0 /\ parent' = parent /\ parent \notin InFlight
        /\ cooldown' \/ UNCHANGED <<local, cooldown>>
    BY <1>18 DEF SeeMarketFilled, HoldsOneLot, SaleFlattens, MarketHasLot
  <2>. QED BY <1>4, <2>1 DEF InFlight
<1>19. CASE MarketFails
  <2>1. pc \in {"marketWait", "marketGrace"} /\ UNCHANGED <<parent, local, cooldown>>
    BY <1>19 DEF MarketFails
  <2>2. CASE caller = "exit"
    BY <1>3, <2>1, <2>2 DEF MarketHasLot
  <2>3. CASE caller # "exit"
    BY <1>2, <1>19, <2>1, <2>3 DEF MarketFails
  <2>. QED BY <2>2, <2>3
<1>. QED
  BY <1>5, <1>6, <1>7, <1>8, <1>9, <1>10, <1>11, <1>12, <1>13, <1>14, <1>15, <1>16, <1>17,
     <1>18, <1>19 DEF Bot, Cycle, CancelSteps, Entry, Exit

\* A fault is counted, and nothing else is.
LEMMA OnlyFaultsCount ==
  ASSUME [Next]_vars  PROVE faults' = faults \/ faults' = faults + 1
<1>1. CASE UNCHANGED vars
  BY <1>1 DEF vars
<1>2. CASE Broker \/ Environment
  BY <1>2 DEF Broker, AcceptLeg, DropLeg, FillLeg, ParentFills, ParentDies, ParentGhosts,
     MarketFills, MarketDies, MarketGhosts, Environment, Crash, Restart, LoseConnection,
     RestoreLoopFails, NextDay
<1>3. CASE Bot
  BY <1>3 DEF Bot, Cycle, Sync, QueryProtection, AdoptBookPrices, SkipRestore, RestorePartial,
     RestoreMissing, RestoreProtection, CancelSteps, RequestCancel, CancelTimesOut,
     RestoreAfterCancel, SellAfterCancel, ReplaceAfterCancel, Entry, SkipEntry, PlaceBracket,
     SeeParentFilled, SeeParentCancelled, GiveUpOnParent, KeepChildren, RepriceChildren, Exit,
     RecordRestingFill, KeepPosition, BeginExit, SeeMarketFilled, SeeMarketCancelled,
     MarketFails, ConfirmChildren, LeaveBare, Flatten
<1>. QED BY <1>1, <1>2, <1>3 DEF Next

\* Until the first fault, a fill is what it is taken for.
LEMMA AlwaysKnown ==
  Calm /\ "Overnight" \notin Races => (Spec => []FillInv)
<1>. SUFFICES ASSUME Calm, "Overnight" \notin Races  PROVE Spec => []FillInv
  OBVIOUS
<1>1. Init => FillInv
  BY DEF Init, FillInv, FillsAreKnown, SellersAreKnown, BuyersAreKnown, FillIsNews, Active
<1>2. Inductive /\ HoldsOneLot /\ CalmInv /\ FillInv /\ [Next]_vars => FillInv'
  <2>. SUFFICES ASSUME Inductive, HoldsOneLot, CalmInv, FillInv, [Next]_vars, faults' = 0
                PROVE  FillsAreKnown'
    BY DEF FillInv
  <2>1. faults = 0
    <3>1. \A n \in 0..MaxFaults : n + 1 # 0
      BY BoundsAssumption
    <3>2. faults' = faults \/ faults' = faults + 1
      BY OnlyFaultsCount
    <3>. QED BY <3>1, <3>2 DEF Inductive, TypeOK
  <2>2. FillsAreKnown
    BY <2>1 DEF FillInv
  <2>3. CASE UNCHANGED vars
    BY <2>2, <2>3, SameBoard DEF vars, brokerVars, storeVars, botVars, FillsAreKnown,
       SellersAreKnown, BuyersAreKnown, FillIsNews, CarryingEntry
  <2>4. CASE Environment
    BY <2>1, <2>2, <2>4, EnvironmentKeepsFills DEF Inductive
  <2>. QED BY <2>2, <2>3, <2>4, BrokerKeepsFills, BotKeepsFills DEF Next
<1>. QED BY <1>1, <1>2, AlwaysInductive, AlwaysOneLot, AlwaysCalm, PTL DEF Spec

\* ClosedMeansFlat, until a crash or a lost connection cuts a turn off and as
\* long as no process outlives its trading day: what is closed on a fill that
\* the session shows is no longer held.  Each of the two makes it fail.
ClosedMeansFlatAtFirst ==
    [][faults = 0 /\ local # "absent" /\ local' = "absent" => shares <= 0]_vars

THEOREM FillsCloseFlat ==
  Calm /\ "Overnight" \notin Races => (Spec => ClosedMeansFlatAtFirst)
<1>. SUFFICES ASSUME Calm, "Overnight" \notin Races  PROVE Spec => ClosedMeansFlatAtFirst
  OBVIOUS
<1>1. Inductive /\ HoldsOneLot /\ FillInv /\ [Next]_vars
        => [faults = 0 /\ local # "absent" /\ local' = "absent" => shares <= 0]_vars
  <2>. SUFFICES ASSUME Inductive, HoldsOneLot, FillInv, Next,
                       faults = 0, local # "absent", local' = "absent"
                PROVE  shares <= 0
    OBVIOUS
  <2>1. CASE RecordRestingFill
    BY <2>1 DEF RecordRestingFill, FillInv, FillsAreKnown, FillIsNews
  <2>2. CASE SeeMarketFilled
    BY <2>2 DEF SeeMarketFilled, HoldsOneLot, SaleFlattens
  <2>. QED BY <2>1, <2>2, StepsThatClose
<1>. QED BY <1>1, AlwaysInductive, AlwaysOneLot, AlwaysKnown, PTL DEF Spec, ClosedMeansFlatAtFirst

-----------------------------------------------------------------------------
(***************************************************************************)
(* The refinement: every step of the bracket orders is a step of           *)
(* PositionLedger or leaves its five variables alone.                      *)
(***************************************************************************)

\* What the broker does is a step of the ledger, or none.
LEMMA BrokerKeepsLedger ==
  Calm /\ Inductive /\ CalmInv /\ Broker => [Ledger!LedgerNext]_Ledger!ledgerVars
<1>. SUFFICES ASSUME Calm, Inductive, CalmInv, Broker
              PROVE  Ledger!LedgerNext \/ UNCHANGED Ledger!ledgerVars
  OBVIOUS
<1>0. UNCHANGED <<storeVars, botVars>>
  BY BrokerAddsNoOrder DEF Inductive
<1>1. /\ CarryingEntry' = CarryingEntry /\ cooldown' = cooldown
      /\ (local # "absent")' = (local # "absent")
  BY <1>0 DEF storeVars, botVars, CarryingEntry
<1>2. ASSUME NEW k \in Pairs, NEW l \in Legs, AcceptLeg(k, l) \/ DropLeg(k, l)
      PROVE  UNCHANGED <<shares, parent>>
  BY <1>2 DEF AcceptLeg, DropLeg
<1>3. ASSUME NEW k \in Pairs, NEW l \in Legs, FillLeg(k, l)
      PROVE  Ledger!Sold
  <2>1. shares = 1
    BY <1>3, FillSellsTheLot
  <2>2. parent' = parent /\ shares' = shares - 1
    BY <1>3 DEF FillLeg
  <2>. QED BY <1>1, <2>1, <2>2 DEF Ledger!Sold
<1>4. CASE ParentFills
  <2>1. parent \in InFlight /\ (parent \in InFlight)' = FALSE /\ shares' = shares + 1
    BY <1>4 DEF ParentFills, MayFill, InFlight
  <2>. QED BY <1>1, <2>1 DEF Ledger!Bought, Ledger!LedgerNext
<1>5. CASE ParentDies
  <2>1. parent \in InFlight /\ (parent \in InFlight)' = FALSE /\ shares' = shares
    BY <1>5 DEF ParentDies, InFlight
  <2>. QED BY <1>1, <2>1 DEF Ledger!NotBought, Ledger!LedgerNext
<1>6. CASE ParentGhosts \/ MarketDies \/ MarketGhosts
  <2>1. shares' = shares /\ (parent \in InFlight)' = (parent \in InFlight)
    BY <1>6 DEF ParentGhosts, MarketDies, MarketGhosts, InFlight
  <2>. QED BY <1>1, <2>1 DEF Ledger!ledgerVars
<1>7. CASE MarketFills
  <2>1. shares = 1
    BY <1>7 DEF MarketFills, MayFill, Calm, CalmInv, SellersHaveLot, CanSell
  <2>2. parent' = parent /\ shares' = shares - 1
    BY <1>7 DEF MarketFills
  <2>. QED BY <1>1, <2>1, <2>2 DEF Ledger!Sold, Ledger!LedgerNext
<1>. QED
  BY <1>1, <1>2, <1>3, <1>4, <1>5, <1>6, <1>7 DEF Broker, Ledger!LedgerNext, Ledger!ledgerVars

\* A step that ends an entry, or leaves the ledger alone, on the bot's side.
LEMMA BotLeavesOrEnds ==
  ASSUME UNCHANGED <<shares, parent \in InFlight, local # "absent", cooldown>>,
         CarryingEntry' => CarryingEntry
  PROVE  [Ledger!LedgerNext]_Ledger!ledgerVars
<1>1. CASE CarryingEntry /\ ~CarryingEntry'
  BY <1>1 DEF Ledger!EntryEnds, Ledger!LedgerNext
<1>2. CASE CarryingEntry' <=> CarryingEntry
  <2>1. CarryingEntry' = CarryingEntry
    BY <1>2 DEF CarryingEntry
  <2>. QED BY <2>1 DEF Ledger!ledgerVars
<1>. QED BY <1>1, <1>2

\* A crash or a lost connection ends an entry, a night the cooldown.
LEMMA EnvironmentKeepsLedger ==
  Inductive /\ Environment => [Ledger!LedgerNext]_Ledger!ledgerVars
<1>. SUFFICES ASSUME Inductive, Environment  PROVE [Ledger!LedgerNext]_Ledger!ledgerVars
  OBVIOUS
<1>0. ~CarryingEntry' /\ UNCHANGED <<shares, parent, local>>
  BY DEF Environment, Crash, Restart, LoseConnection, RestoreLoopFails, NextDay, brokerVars,
     storeVars, CarryingEntry
<1>1. CASE Crash \/ Restart \/ LoseConnection \/ RestoreLoopFails
  <2>1. cooldown' = cooldown
    BY <1>1 DEF Crash, Restart, LoseConnection, RestoreLoopFails, storeVars
  <2>. QED BY <1>0, <2>1, BotLeavesOrEnds
<1>2. CASE NextDay
  <2>1. ~CarryingEntry /\ cooldown' = FALSE
    BY <1>2 DEF NextDay, CarryingEntry
  <2>2. CASE cooldown
    <3>1. CarryingEntry' = CarryingEntry
      BY <1>0, <2>1 DEF CarryingEntry
    <3>2. Ledger!NewDay
      BY <1>0, <2>1, <2>2, <3>1 DEF Ledger!NewDay
    <3>. QED BY <3>2 DEF Ledger!LedgerNext
  <2>3. CASE ~cooldown
    <3>1. cooldown' = cooldown
      BY <2>1, <2>3 DEF Inductive, TypeOK
    <3>. QED BY <1>0, <3>1, BotLeavesOrEnds
  <2>. QED BY <2>2, <2>3
<1>. QED BY <1>1, <1>2 DEF Environment

\* What the bot does is a step of the ledger, or none.
LEMMA BotKeepsLedger ==
  Calm /\ Inductive /\ CalmInv /\ Bot => [Ledger!LedgerNext]_Ledger!ledgerVars
<1>. SUFFICES ASSUME Calm, Inductive, CalmInv, Bot
              PROVE  [Ledger!LedgerNext]_Ledger!ledgerVars
  OBVIOUS
<1>. USE DEF brokerVars, storeVars
<1>1. CASE Sync
  <2>1. ~CarryingEntry /\ ~CarryingEntry' /\ UNCHANGED <<shares, parent, cooldown>>
    BY <1>1 DEF Sync, CarryingEntry
  <2>2. CASE shares > 0 /\ local = "absent"
    <3>1. local' = "unpriced"
      BY <1>1, <2>2 DEF Sync
    <3>2. CarryingEntry' = CarryingEntry /\ (local # "absent")' = TRUE
      BY <2>1, <3>1 DEF CarryingEntry
    <3>3. Ledger!Adopt
      BY <2>1, <2>2, <3>2 DEF Ledger!Adopt
    <3>. QED BY <3>3 DEF Ledger!LedgerNext
  <2>3. CASE ~(shares > 0 /\ local = "absent")
    <3>1. local' = local
      BY <1>1, <2>3 DEF Sync
    <3>. QED BY <2>1, <3>1, BotLeavesOrEnds
  <2>. QED BY <2>2, <2>3
<1>2. CASE \/ QueryProtection \/ SkipRestore \/ RestorePartial \/ RestoreMissing
           \/ RestoreProtection
  <2>1. /\ UNCHANGED <<shares, parent, local, cooldown>>
        /\ pc' \in {"restore", "process", "contract", "cancel", "ensure", "idle"}
    BY <1>2 DEF QueryProtection, SkipRestore, RestorePartial, RestoreMissing,
       RestoreProtection, PlaceRecorded, PlacePair, TurnOver
  <2>2. caller' = "restore"
    BY <1>2 DEF QueryProtection, SkipRestore, RestorePartial, RestoreMissing,
       RestoreProtection, Inductive, RestoringRecorded
  <2>3. ~CarryingEntry'
    BY <2>1, <2>2 DEF CarryingEntry
  <2>. QED BY <2>1, <2>3, BotLeavesOrEnds
<1>3. CASE AdoptBookPrices
  <2>1. /\ UNCHANGED <<shares, parent, cooldown>>
        /\ local' # "absent" /\ ~CarryingEntry'
    BY <1>3 DEF AdoptBookPrices, Price, CarryingEntry
  <2>2. local # "absent"
    BY <1>3 DEF AdoptBookPrices, Inductive, RestoringRecorded
  <2>. QED BY <2>1, <2>2, BotLeavesOrEnds
<1>4. CASE CancelSteps
  <2>1. UNCHANGED <<shares, parent, local, cooldown, caller>>
    BY <1>4 DEF CancelSteps, RequestCancel, CancelTimesOut, RestoreAfterCancel,
       SellAfterCancel, ReplaceAfterCancel
  <2>2. pc \in {"cancel", "cancelWait"}
    BY <1>4 DEF CancelSteps, RequestCancel, CancelTimesOut, RestoreAfterCancel,
       SellAfterCancel, ReplaceAfterCancel, CancelReturns
  <2>3. caller # "entry"
          => pc' \in {"cancelWait", "process", "idle", "contract", "marketWait"}
    BY <1>4 DEF CancelSteps, RequestCancel, CancelTimesOut, RestoreAfterCancel,
       SellAfterCancel, ReplaceAfterCancel, TurnOver
  <2>4. CarryingEntry' => CarryingEntry
    BY <2>1, <2>2, <2>3 DEF CarryingEntry
  <2>. QED BY <2>1, <2>4, BotLeavesOrEnds
<1>5. CASE PlaceBracket
  <2>1. /\ pc = "process" /\ local = "absent" /\ ~cooldown
        /\ parent' = "working" /\ pc' = "parentWait"
        /\ UNCHANGED <<shares, local, cooldown>>
    BY <1>5 DEF PlaceBracket
  <2>2. shares = 0 /\ parent \notin InFlight
    BY <2>1 DEF CalmInv, OneLot, TurnIsQuiet, InTurn, Inductive, EnteringFlat
  <2>3. CarryingEntry' /\ parent' \in InFlight
    BY <2>1 DEF CarryingEntry, InFlight
  <2>4. Ledger!Enter
    BY <2>1, <2>2, <2>3 DEF Ledger!Enter
  <2>. QED BY <2>4 DEF Ledger!LedgerNext
<1>6. CASE \/ SkipEntry \/ SeeParentFilled \/ SeeParentCancelled \/ KeepChildren
           \/ \E accepted, read \in BOOLEAN : RepriceChildren(accepted, read)
  <2>1. UNCHANGED <<shares, parent, local, cooldown, caller>>
    BY <1>6 DEF SkipEntry, SeeParentFilled, SeeParentCancelled, KeepChildren, RepriceChildren
  <2>2. pc \in {"parentWait", "parentGrace", "reprice"} \/ pc' = "idle"
    BY <1>6 DEF SkipEntry, SeeParentFilled, SeeParentCancelled, KeepChildren, RepriceChildren
  <2>3. CarryingEntry' => CarryingEntry
    BY <2>2 DEF CarryingEntry
  <2>. QED BY <2>1, <2>3, BotLeavesOrEnds
<1>7. CASE GiveUpOnParent
  <2>1. /\ UNCHANGED <<shares, local, cooldown>> /\ pc' = "idle"
        /\ parent' = parent \/ (parent = "working" /\ parent' = "pcancel")
    BY <1>7 DEF GiveUpOnParent
  <2>. QED BY <2>1, BotLeavesOrEnds DEF CarryingEntry, InFlight
<1>8. CASE ConfirmChildren
  <2>1. /\ pc = "ensure" /\ pc' = TurnOver(caller)
        /\ local' = IF caller = "entry" THEN rec ELSE local
        /\ UNCHANGED <<shares, parent, cooldown, caller>>
    BY <1>8 DEF ConfirmChildren
  <2>2. ~CarryingEntry'
    BY <2>1 DEF CarryingEntry, TurnOver
  <2>3. CASE caller = "entry"
    <3>1. CarryingEntry /\ local = "absent" /\ local' # "absent"
      BY <2>1, <2>3 DEF CarryingEntry, CalmInv, EntryHoldsLot, Inductive, TypeOK, Price
    <3>2. Ledger!Record
      BY <2>1, <2>2, <3>1 DEF Ledger!Record
    <3>. QED BY <3>2 DEF Ledger!LedgerNext
  <2>4. CASE caller # "entry"
    BY <2>1, <2>2, <2>4, BotLeavesOrEnds
  <2>. QED BY <2>3, <2>4
<1>9. CASE LeaveBare \/ Flatten \/ KeepPosition \/ BeginExit \/ SeeMarketCancelled \/ MarketFails
  <2>1. UNCHANGED <<shares, parent, local, cooldown>>
    BY <1>9 DEF LeaveBare, Flatten, KeepPosition, BeginExit, SeeMarketCancelled, MarketFails
  <2>2. /\ pc' \in {"process", "idle", "marketWait", "marketGrace", "cancel", "ensure"}
        /\ pc' \in {"cancel", "ensure"} => caller' = "exit"
    BY <1>9 DEF LeaveBare, Flatten, KeepPosition, BeginExit, SeeMarketCancelled, MarketFails,
       TurnOver, PlaceRecorded, PlacePair
  <2>3. ~CarryingEntry'
    BY <2>2 DEF CarryingEntry
  <2>. QED BY <2>1, <2>3, BotLeavesOrEnds
<1>10. CASE RecordRestingFill
  <2>1. /\ local # "absent" /\ local' = "absent" /\ cooldown' = TRUE
        /\ UNCHANGED <<shares, parent>> /\ ~CarryingEntry /\ ~CarryingEntry'
    BY <1>10 DEF RecordRestingFill, CarryingEntry
  <2>2. CarryingEntry' = CarryingEntry /\ (local # "absent")' = FALSE
    BY <2>1 DEF CarryingEntry
  <2>3. Ledger!Close
    BY <2>1, <2>2 DEF Ledger!Close
  <2>. QED BY <2>3 DEF Ledger!LedgerNext
<1>11. CASE SeeMarketFilled
  <2>1. /\ pc \in {"marketWait", "marketGrace"} /\ UNCHANGED <<shares, parent>>
        /\ ~CarryingEntry /\ ~CarryingEntry'
    BY <1>11 DEF SeeMarketFilled, CarryingEntry
  <2>2. CASE caller = "exit"
    <3>1. local # "absent" /\ local' = "absent" /\ cooldown' = TRUE
      BY <1>11, <2>1, <2>2 DEF SeeMarketFilled, CalmInv, MarketHasLot
    <3>2. CarryingEntry' = CarryingEntry /\ (local # "absent")' = FALSE
      BY <2>1, <3>1 DEF CarryingEntry
    <3>3. Ledger!Close
      BY <2>1, <3>1, <3>2 DEF Ledger!Close
    <3>. QED BY <3>3 DEF Ledger!LedgerNext
  <2>3. CASE caller # "exit"
    <3>1. UNCHANGED <<local, cooldown>>
      BY <1>11, <2>3 DEF SeeMarketFilled
    <3>. QED BY <2>1, <3>1, BotLeavesOrEnds
  <2>. QED BY <2>2, <2>3
<1>. QED
  BY <1>1, <1>2, <1>3, <1>4, <1>5, <1>6, <1>7, <1>8, <1>9, <1>10, <1>11
     DEF Bot, Cycle, Entry, Exit

\* KeepsLedger, without its fairness: under the calm races the bracket orders
\* of one symbol implement PositionLedger.  A lot is bought while nothing is
\* held, recorded, on its way or closed today, and sold once.
THEOREM LedgerIsKept == Calm => (Spec => Ledger!LedgerSafety)
<1>. SUFFICES ASSUME Calm  PROVE Spec => Ledger!LedgerSafety
  OBVIOUS
<1>1. Init => Ledger!LedgerInit
  BY DEF Init, Ledger!LedgerInit, CarryingEntry, InFlight
<1>2. UNCHANGED vars => UNCHANGED Ledger!ledgerVars
  BY DEF vars, brokerVars, storeVars, botVars, Ledger!ledgerVars, CarryingEntry
<1>3. Inductive /\ CalmInv /\ [Next]_vars => [Ledger!LedgerNext]_Ledger!ledgerVars
  BY <1>2, BrokerKeepsLedger, EnvironmentKeepsLedger, BotKeepsLedger DEF Next
<1>. QED BY <1>1, <1>3, AlwaysCalm, PTL DEF Spec, Ledger!LedgerSafety
===============================================================================
