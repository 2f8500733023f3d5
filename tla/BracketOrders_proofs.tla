------------------------- MODULE BracketOrders_proofs -------------------------
(***************************************************************************)
(* Theorems about BracketOrders, for every set of pairs, every combination *)
(* of broker races and every value of the bounds.                          *)
(***************************************************************************)
EXTENDS BracketOrders, TLAPS

-----------------------------------------------------------------------------
(***************************************************************************)
(* The inductive invariant.  TypeOK and the three properties below are not *)
(* inductive by themselves: they depend on how a step of the cycle was     *)
(* reached.                                                                *)
(***************************************************************************)

\* Whoever waits for a pair of legs knows which pair, and waits for the parent
\* on behalf of an entry only.
PairIsKnown ==
    /\ pc \in {"parentWait", "parentGrace", "reprice"} => caller = "entry"
    /\ pc \in {"parentWait", "parentGrace", "reprice", "ensure"}
       \/ (pc \in {"cancel", "cancelWait"} /\ caller = "entry")
           => pair \in Pairs

\* The restoration of resting orders works for itself and for a recorded
\* position only, so a symbol it hands on is never entered.
RestoringRecorded ==
    /\ pc \in {"restore", "contract"} => caller = "restore"
    /\ pc \in {"query", "restore", "contract"}
       \/ (pc \in {"cancel", "cancelWait", "ensure"} /\ caller = "restore")
           => local # "absent"

\* A symbol without a record that is about to be processed is flat, and no
\* BUY of an earlier turn can still fill.
EnteringFlat ==
    pc = "process" /\ local = "absent" => shares <= 0 /\ parent \notin InFlight

Inductive == TypeOK /\ PairIsKnown /\ RestoringRecorded /\ EnteringFlat /\ ExitSellsAlone

-----------------------------------------------------------------------------
(* The helpers *)

\* A cancellation is a pair of leg statuses.
LEMMA CancelRequestedType ==
  ASSUME TypeOK, NEW k \in Pairs  PROVE CancelRequested(k) \in [Legs -> LegStatus]
<1>1. \A l \in Legs : resting[k][l] \in LegStatus
  BY DEF TypeOK
<1>. QED BY <1>1 DEF CancelRequested, LegStatus

\* Placing a pair sends it and starts to watch it.
LEMMA PlacePairType ==
  ASSUME TypeOK, NEW p \in Price, PlacePair(p)
  PROVE  /\ resting' \in [Pairs -> [Legs -> LegStatus]]
         /\ px' \in [Pairs -> Price]
         /\ pair' \in Pairs
         /\ attached' \in Pairs \cup {NoPair}
         /\ pc' = "ensure"
<1>. PICK k \in Pairs :
        /\ resting' = [resting EXCEPT ![k] = [l \in Legs |-> "sent"]]
        /\ px' = [px EXCEPT ![k] = p]
        /\ pair' = k
        /\ attached' = IF attached = k THEN NoPair ELSE attached
        /\ pc' = "ensure"
  BY DEF PlacePair
<1>1. [l \in Legs |-> "sent"] \in [Legs -> LegStatus]
  BY DEF LegStatus
<1>. QED BY <1>1 DEF TypeOK

\* Placing the recorded pair either does that or ends the turn.
LEMMA PlaceRecordedType ==
  ASSUME TypeOK, PlaceRecorded
  PROVE  /\ resting' \in [Pairs -> [Legs -> LegStatus]]
         /\ px' \in [Pairs -> Price]
         /\ attached' \in Pairs \cup {NoPair}
         /\ \/ pc' = "ensure" /\ pair' \in Pairs /\ local # "absent"
            \/ pc' = TurnOver(caller) /\ pair' = pair /\ local # "absent"
<1>1. CASE local \in Price /\ PlacePair(local)
  BY <1>1, PlacePairType DEF Price
<1>2. CASE local = "unpriced" /\ pc' = TurnOver(caller) /\ UNCHANGED <<resting, px, pair, attached>>
  BY <1>2 DEF TypeOK
<1>. QED BY <1>1, <1>2 DEF PlaceRecorded

-----------------------------------------------------------------------------
(* Steps of the broker *)

\* Fills, cancellations and rejections keep the types.
LEMMA BrokerKeepsType == TypeOK /\ Broker => TypeOK'
<1>. SUFFICES ASSUME TypeOK, Broker  PROVE TypeOK'
  OBVIOUS
<1>. USE DEF TypeOK, storeVars, botVars, MarketStatus
<1>1. ASSUME NEW k \in Pairs, NEW l \in Legs, AcceptLeg(k, l)  PROVE TypeOK'
  BY <1>1 DEF AcceptLeg, LegStatus
<1>2. ASSUME NEW k \in Pairs, NEW l \in Legs, DropLeg(k, l)  PROVE TypeOK'
  BY <1>2 DEF DropLeg, LegStatus
<1>3. ASSUME NEW k \in Pairs, NEW l \in Legs, FillLeg(k, l)  PROVE TypeOK'
  <2>1. resting' \in [Pairs -> [Legs -> LegStatus]]
    BY <1>3 DEF FillLeg, LegStatus
  <2>2. shares' \in Int /\ seenFill' = TRUE
    BY <1>3 DEF FillLeg
  <2>. QED BY <1>3, <2>1, <2>2 DEF FillLeg
<1>4. CASE ParentFills
  BY <1>4 DEF ParentFills
<1>5. CASE ParentDies
  <2>1. resting' \in [Pairs -> [Legs -> LegStatus]]
    BY <1>5 DEF ParentDies, LegStatus
  <2>. QED BY <1>5, <2>1 DEF ParentDies
<1>6. CASE ParentGhosts
  BY <1>6 DEF ParentGhosts
<1>7. CASE MarketFills
  BY <1>7 DEF MarketFills
<1>8. CASE MarketDies
  BY <1>8 DEF MarketDies
<1>9. CASE MarketGhosts
  BY <1>9 DEF MarketGhosts
<1>. QED BY <1>1, <1>2, <1>3, <1>4, <1>5, <1>6, <1>7, <1>8, <1>9 DEF Broker

\* The broker puts no leg on a book that is clear.
LEMMA BrokerKeepsBoardClear == TypeOK /\ BoardClear /\ Broker => BoardClear'
<1>. SUFFICES ASSUME TypeOK, BoardClear, Broker  PROVE BoardClear'
  OBVIOUS
<1>0. \A k \in Pairs, l \in Legs : resting[k][l] \notin Working
  BY DEF BoardClear, IsWorking
<1>1. ASSUME NEW k \in Pairs, NEW l \in Legs, AcceptLeg(k, l) \/ DropLeg(k, l) \/ FillLeg(k, l)
      PROVE  FALSE
  BY <1>0, <1>1 DEF AcceptLeg, DropLeg, FillLeg, Working
<1>2. CASE ParentDies
  BY <1>0, <1>2 DEF ParentDies, BoardClear, IsWorking, Working
<1>3. CASE ParentFills \/ ParentGhosts \/ MarketFills \/ MarketDies \/ MarketGhosts
  <2>1. resting' = resting
    BY <1>3 DEF ParentFills, ParentGhosts, MarketFills, MarketDies, MarketGhosts
  <2>. QED BY <2>1 DEF BoardClear, IsWorking
<1>. QED BY <1>1, <1>2, <1>3 DEF Broker

\* A lot is only bought while a BUY can fill, and no BUY starts by itself.
LEMMA BrokerKeepsFlat ==
  TypeOK /\ shares <= 0 /\ parent \notin InFlight /\ Broker
    => shares' <= 0 /\ parent' \notin InFlight
<1>. SUFFICES ASSUME TypeOK, shares <= 0, parent \notin InFlight, Broker
              PROVE  shares' <= 0 /\ parent' \notin InFlight
  OBVIOUS
<1>1. shares' = shares \/ shares' = shares - 1
  BY DEF Broker, AcceptLeg, DropLeg, FillLeg, ParentFills, ParentDies, ParentGhosts,
         MarketFills, MarketDies, MarketGhosts, MayFill, InFlight
<1>2. parent' \notin InFlight
  BY DEF Broker, AcceptLeg, DropLeg, FillLeg, ParentFills, ParentDies, ParentGhosts,
         MarketFills, MarketDies, MarketGhosts, MayFill, InFlight
<1>3. shares \in Int
  BY DEF TypeOK
<1>4. shares - 1 <= 0
  BY <1>3
<1>. QED BY <1>1, <1>2, <1>4

\* The broker never adds a resting order beside an exit.
LEMMA BrokerKeepsInductive == Inductive /\ Broker => Inductive'
<1>. SUFFICES ASSUME Inductive, Broker  PROVE Inductive'
  OBVIOUS
<1>. USE DEF Inductive
<1>1. UNCHANGED <<storeVars, botVars, faults>>
  BY DEF Broker, AcceptLeg, DropLeg, FillLeg, ParentFills, ParentDies, ParentGhosts,
         MarketFills, MarketDies, MarketGhosts
<1>2. PairIsKnown' /\ RestoringRecorded'
  BY <1>1 DEF storeVars, botVars, PairIsKnown, RestoringRecorded
<1>3. EnteringFlat'
  BY <1>1, BrokerKeepsFlat DEF storeVars, botVars, EnteringFlat
<1>4. ExitSellsAlone'
  BY <1>1, BrokerKeepsBoardClear DEF storeVars, botVars, ExitSellsAlone, SellsAlone
<1>. QED BY <1>2, <1>3, <1>4, BrokerKeepsType

-----------------------------------------------------------------------------
(* Steps of the process and of the bot *)

\* Crashes, restarts, lost connections, exceptions in the restore loop and
\* nights keep the invariant.
LEMMA EnvironmentKeepsInductive == Inductive /\ Environment => Inductive'
<1>. SUFFICES ASSUME Inductive, Environment  PROVE Inductive'
  OBVIOUS
<1>. USE DEF Inductive, TypeOK, brokerVars, storeVars
<1>1. TypeOK'
  <2>1. CASE Crash \/ LoseConnection \/ RestoreLoopFails
    <3>1. faults' \in 0..MaxFaults
      BY <2>1, BoundsAssumption DEF Crash, LoseConnection, RestoreLoopFails
    <3>. QED BY <2>1, <3>1 DEF Crash, LoseConnection, RestoreLoopFails, PC
  <2>2. CASE Restart
    BY <2>2 DEF Restart, PC
  <2>3. CASE NextDay
    BY <2>3 DEF NextDay, PC
  <2>. QED BY <2>1, <2>2, <2>3 DEF Environment
<1>2. pc' \in {"down", "idle"} \/ (pc' = "process" /\ local' # "absent")
  BY DEF Environment, Crash, Restart, LoseConnection, RestoreLoopFails, NextDay, RestoringRecorded
<1>. QED
  BY <1>1, <1>2 DEF PairIsKnown, RestoringRecorded, EnteringFlat, ExitSellsAlone, SellsAlone

\* A turn keeps the invariant from the synchronisation to what it restores.
LEMMA CycleKeepsInductive == Inductive /\ Cycle => Inductive'
<1>. SUFFICES ASSUME Inductive, Cycle  PROVE Inductive'
  OBVIOUS
<1>. USE DEF Inductive, TypeOK, brokerVars, storeVars
<1>. USE DEF PairIsKnown, RestoringRecorded, EnteringFlat, ExitSellsAlone, SellsAlone
<1>1. CASE Sync
  <2>1. local' = "absent" => shares <= 0
    BY <1>1 DEF Sync
  <2>2. parent \notin InFlight
    BY <1>1 DEF Sync, Settled
  <2>3. pc' = (IF local' = "absent" THEN "process" ELSE "query") /\ local' \in Record
    BY <1>1 DEF Sync, Record
  <2>. QED BY <1>1, <2>1, <2>2, <2>3 DEF Sync, PC
<1>2. CASE QueryProtection
  <2>1. snap' \in {"none", "partial"} \cup Price
    BY <1>2 DEF QueryProtection
  <2>. QED BY <1>2, <2>1 DEF QueryProtection, PC, Caller
<1>3. CASE AdoptBookPrices
  BY <1>3 DEF AdoptBookPrices, PC, Record, Price
<1>4. CASE SkipRestore \/ RestorePartial \/ RestoreMissing
  BY <1>4 DEF SkipRestore, RestorePartial, RestoreMissing, PC
<1>5. CASE RestoreProtection
  BY <1>5, PlaceRecordedType DEF RestoreProtection, PC, TurnOver
<1>. QED BY <1>1, <1>2, <1>3, <1>4, <1>5 DEF Cycle

\* A cancellation keeps the invariant at every of its waits.
LEMMA CancelKeepsInductive == Inductive /\ CancelSteps => Inductive'
<1>. SUFFICES ASSUME Inductive, CancelSteps  PROVE Inductive'
  OBVIOUS
<1>. USE DEF Inductive, TypeOK, brokerVars, storeVars
<1>. USE DEF PairIsKnown, RestoringRecorded, EnteringFlat, ExitSellsAlone, SellsAlone
<1>1. CASE RequestCancel
  <2>1. resting' \in [Pairs -> [Legs -> LegStatus]]
    BY <1>1, CancelRequestedType DEF RequestCancel
  <2>. QED BY <1>1, <2>1 DEF RequestCancel, PC
<1>2. CASE CancelTimesOut
  BY <1>2 DEF CancelTimesOut, TurnOver, PC, Caller
<1>3. CASE RestoreAfterCancel
  BY <1>3 DEF RestoreAfterCancel, CancelReturns, PC
<1>4. CASE SellAfterCancel
  <2>1. BoardClear'
    BY <1>4 DEF SellAfterCancel, CancelReturns, BoardClear, IsWorking
  <2>. QED BY <1>4, <2>1 DEF SellAfterCancel, CancelReturns, PC, MarketStatus
<1>5. CASE ReplaceAfterCancel
  <2>1. PlacePair("fill") /\ "fill" \in Price /\ caller = "entry" /\ rec' = "fill"
    BY <1>5 DEF ReplaceAfterCancel, Price
  <2>. QED BY <1>5, <2>1, PlacePairType DEF ReplaceAfterCancel, PC
<1>. QED BY <1>1, <1>2, <1>3, <1>4, <1>5 DEF CancelSteps

\* An entry keeps the invariant: it is for a symbol that is not held.
LEMMA EntryKeepsInductive == Inductive /\ Entry => Inductive'
<1>. SUFFICES ASSUME Inductive, Entry  PROVE Inductive'
  OBVIOUS
<1>. USE DEF Inductive, TypeOK, brokerVars, storeVars
<1>. USE DEF PairIsKnown, RestoringRecorded, EnteringFlat, ExitSellsAlone, SellsAlone
<1>1. CASE SkipEntry
  BY <1>1 DEF SkipEntry, PC
<1>2. CASE PlaceBracket
  <2>1. /\ resting' \in [Pairs -> [Legs -> LegStatus]]
        /\ px' \in [Pairs -> Price]
        /\ attached' \in Pairs /\ pair' \in Pairs
        /\ parent' \in MarketStatus
    BY <1>2 DEF PlaceBracket, LegStatus, Price, MarketStatus
  <2>. QED BY <1>2, <2>1 DEF PlaceBracket, PC, Caller
<1>3. CASE SeeParentFilled \/ SeeParentCancelled
  BY <1>3 DEF SeeParentFilled, SeeParentCancelled, PC
<1>4. CASE GiveUpOnParent
  <2>1. pair \in Pairs /\ parent' \in MarketStatus
    BY <1>4 DEF GiveUpOnParent, MarketStatus
  <2>2. resting' \in [Pairs -> [Legs -> LegStatus]]
    BY <1>4, <2>1, CancelRequestedType DEF GiveUpOnParent
  <2>. QED BY <1>4, <2>1, <2>2 DEF GiveUpOnParent, PC
<1>5. CASE KeepChildren
  BY <1>5 DEF KeepChildren, PC, Price
<1>6. ASSUME NEW accepted \in BOOLEAN, NEW read \in BOOLEAN, RepriceChildren(accepted, read)
      PROVE  Inductive'
  <2>1. pair \in Pairs
    BY <1>6 DEF RepriceChildren
  <2>2. px' \in [Pairs -> Price]
    BY <1>6 DEF RepriceChildren, Price
  <2>3. rec' \in Price
    BY <1>6, <2>1, <2>2 DEF RepriceChildren, Price
  <2>4. pc' \in {"ensure", "cancel"} /\ pair' = pair /\ caller' = caller
    BY <1>6 DEF RepriceChildren
  <2>. QED BY <1>6, <2>1, <2>2, <2>3, <2>4 DEF RepriceChildren, PC
<1>. QED BY <1>1, <1>2, <1>3, <1>4, <1>5, <1>6 DEF Entry

\* A restored pair keeps the invariant: no exit is under way.
LEMMA ProtectionKeepsInductive ==
  Inductive /\ (ConfirmChildren \/ LeaveBare \/ Flatten) => Inductive'
<1>. SUFFICES ASSUME Inductive, ConfirmChildren \/ LeaveBare \/ Flatten  PROVE Inductive'
  OBVIOUS
<1>. USE DEF Inductive, TypeOK, brokerVars, storeVars
<1>. USE DEF PairIsKnown, RestoringRecorded, EnteringFlat, ExitSellsAlone, SellsAlone
<1>1. CASE ConfirmChildren
  <2>1. local' = (IF caller = "entry" THEN rec ELSE local) /\ local' \in Record
    BY <1>1 DEF ConfirmChildren, Record
  <2>2. caller = "restore" => local' # "absent"
    BY <1>1, <2>1 DEF ConfirmChildren
  <2>. QED BY <1>1, <2>1, <2>2 DEF ConfirmChildren, TurnOver, PC, Caller
<1>2. CASE LeaveBare
  BY <1>2 DEF LeaveBare, TurnOver, PC, Caller
<1>3. CASE Flatten
  <2>1. resting' \in [Pairs -> [Legs -> LegStatus]]
    BY <1>3, CancelRequestedType DEF Flatten
  <2>. QED BY <1>3, <2>1 DEF Flatten, PC, MarketStatus
<1>. QED BY <1>1, <1>2, <1>3

\* An exit keeps the invariant: its sell follows the cancellation.
LEMMA ExitKeepsInductive == Inductive /\ Exit => Inductive'
<1>. SUFFICES ASSUME Inductive, Exit  PROVE Inductive'
  OBVIOUS
<1>. USE DEF Inductive, TypeOK, brokerVars, storeVars
<1>. USE DEF PairIsKnown, RestoringRecorded, EnteringFlat, ExitSellsAlone, SellsAlone
<1>1. CASE RecordRestingFill \/ KeepPosition
  BY <1>1 DEF RecordRestingFill, KeepPosition, PC, Record
<1>2. CASE BeginExit
  BY <1>2 DEF BeginExit, PC, Caller
<1>3. CASE SeeMarketFilled
  BY <1>3 DEF SeeMarketFilled, PC, Record
<1>4. CASE SeeMarketCancelled
  BY <1>4 DEF SeeMarketCancelled, PC, BoardClear, IsWorking
<1>5. CASE MarketFails
  <2>1. market' \in MarketStatus
    BY <1>5 DEF MarketFails, MarketStatus
  <2>2. CASE caller = "exit"
    BY <1>5, <2>1, <2>2, PlaceRecordedType DEF MarketFails, PC, TurnOver
  <2>3. CASE caller # "exit"
    BY <1>5, <2>1, <2>3 DEF MarketFails, PC
  <2>. QED BY <2>2, <2>3
<1>. QED BY <1>1, <1>2, <1>3, <1>4, <1>5 DEF Exit

\* Every step keeps the invariant.
LEMMA StepKeepsInductive == Inductive /\ [Next]_vars => Inductive'
<1>1. Inductive /\ UNCHANGED vars => Inductive'
  BY DEF vars, brokerVars, storeVars, botVars, Inductive, TypeOK, PairIsKnown,
         RestoringRecorded, EnteringFlat, ExitSellsAlone, SellsAlone, BoardClear, IsWorking
<1>. QED
  BY <1>1, BrokerKeepsInductive, EnvironmentKeepsInductive, CycleKeepsInductive,
     CancelKeepsInductive, EntryKeepsInductive, ProtectionKeepsInductive, ExitKeepsInductive
     DEF Next, Bot

\* The invariant holds at first.
LEMMA InitIsInductive == Init => Inductive
<1>. SUFFICES ASSUME Init  PROVE Inductive
  OBVIOUS
<1>1. TypeOK
  <2>1. 0 \in 0..MaxFaults
    BY BoundsAssumption
  <2>2. resting \in [Pairs -> [Legs -> LegStatus]] /\ px \in [Pairs -> Price]
    BY DEF Init, LegStatus, Price
  <2>3. seenFill \in BOOLEAN /\ cooldown \in BOOLEAN /\ confirmed \in BOOLEAN
    BY DEF Init
  <2>4. /\ shares \in Int /\ faults \in 0..MaxFaults
        /\ parent \in MarketStatus /\ market \in MarketStatus
        /\ attached \in Pairs \cup {NoPair} /\ pair \in Pairs \cup {NoPair}
        /\ local \in Record /\ rec \in Price /\ pc \in PC /\ caller \in Caller
        /\ snap \in {"none", "partial"} \cup Price
    BY <2>1 DEF Init, MarketStatus, Price, Record, PC, Caller
  <2>. QED BY <2>2, <2>3, <2>4 DEF TypeOK
<1>2. pc = "idle"
  BY DEF Init
<1>. QED
  BY <1>1, <1>2 DEF Inductive, PairIsKnown, RestoringRecorded, EnteringFlat,
                    ExitSellsAlone, SellsAlone

\* The invariant holds throughout.
LEMMA AlwaysInductive == Spec => []Inductive
  BY InitIsInductive, StepKeepsInductive, PTL DEF Spec

\* An entry begins with a bracket and with nothing else.
LEMMA OnlyBracketsBeginEntries ==
  ASSUME Next, pc = "process", pc' = "parentWait"  PROVE PlaceBracket
<1>. USE DEF TurnOver
<1>1. CASE Broker
  BY <1>1 DEF Broker, AcceptLeg, DropLeg, FillLeg, ParentFills, ParentDies, ParentGhosts,
     MarketFills, MarketDies, MarketGhosts, botVars
<1>2. CASE Environment
  BY <1>2 DEF Environment, Crash, Restart, LoseConnection, RestoreLoopFails, NextDay
<1>3. CASE Cycle \/ CancelSteps
  BY <1>3 DEF Cycle, Sync, QueryProtection, AdoptBookPrices, SkipRestore, RestorePartial,
     RestoreMissing, RestoreProtection, CancelSteps, RequestCancel, CancelTimesOut,
     RestoreAfterCancel, SellAfterCancel, ReplaceAfterCancel, CancelReturns
<1>4. CASE Entry
  BY <1>4 DEF Entry, SkipEntry, SeeParentFilled, SeeParentCancelled, GiveUpOnParent,
     KeepChildren, RepriceChildren
<1>5. CASE Exit \/ ConfirmChildren \/ LeaveBare \/ Flatten
  BY <1>5 DEF Exit, RecordRestingFill, KeepPosition, BeginExit, SeeMarketFilled,
     SeeMarketCancelled, MarketFails, ConfirmChildren, LeaveBare, Flatten
<1>. QED BY <1>1, <1>2, <1>3, <1>4, <1>5 DEF Next, Bot

-----------------------------------------------------------------------------
(***************************************************************************)
(* What the restoration of resting orders has read.  It reads the book     *)
(* once; until it acts on it, orders only leave the book.                  *)
(***************************************************************************)

\* A leg whose cancellation is still pending after a whole cycle.
Leftover(k, l) == resting[k][l] = "pcancel" /\ "SlowCancel" \in Races

\* The book is read when everything but such a leg is answered.
BookIsSettled ==
    pc = "query" =>
        \A k \in Pairs, l \in Legs : resting[k][l] \in {"sent", "pcancel"} => Leftover(k, l)

\* A book read as empty, or cleared by a cancellation, is empty but for it.
BookIsEmpty ==
    (pc = "restore" /\ snap = "none") \/ pc = "contract" =>
        \A k \in Pairs, l \in Legs : resting[k][l] \in Working => Leftover(k, l)

BookIsRead == BookIsSettled /\ BookIsEmpty

\* On the book, the broker adds no request and no order to what is there.
LEMMA BrokerAddsNoRequest ==
  ASSUME TypeOK, Broker
  PROVE  \A k \in Pairs, l \in Legs :
            /\ resting'[k][l] \in {"sent", "pcancel"} => resting'[k][l] = resting[k][l]
            /\ resting'[k][l] = "live" => resting[k][l] \in {"sent", "live"}
<1>. USE DEF TypeOK
<1>1. ASSUME NEW j \in Pairs, NEW m \in Legs, AcceptLeg(j, m) \/ DropLeg(j, m) \/ FillLeg(j, m),
             NEW k \in Pairs, NEW l \in Legs
      PROVE  /\ resting'[k][l] \in {"sent", "pcancel"} => resting'[k][l] = resting[k][l]
             /\ resting'[k][l] = "live" => resting[k][l] \in {"sent", "live"}
  <2>1. CASE AcceptLeg(j, m)
    BY <2>1 DEF AcceptLeg
  <2>2. CASE DropLeg(j, m)
    BY <2>2 DEF DropLeg
  <2>3. CASE FillLeg(j, m)
    BY <2>3 DEF FillLeg
  <2>. QED BY <1>1, <2>1, <2>2, <2>3
<1>2. CASE ParentDies
  BY <1>2 DEF ParentDies
<1>3. CASE ParentFills \/ ParentGhosts \/ MarketFills \/ MarketDies \/ MarketGhosts
  BY <1>3 DEF ParentFills, ParentGhosts, MarketFills, MarketDies, MarketGhosts
<1>. QED BY <1>1, <1>2, <1>3 DEF Broker

\* Only the steps that read or clear the book lead to where it is acted on.
LEMMA StepsThatRead ==
  ASSUME Next, pc' \in {"query", "restore", "contract"}
  PROVE  Broker \/ Sync \/ QueryProtection \/ RestoreMissing \/ RestoreAfterCancel
<1>. USE DEF TurnOver
<1>1. ~Environment
  BY DEF Environment, Crash, Restart, LoseConnection, RestoreLoopFails, NextDay
<1>2. CASE Cycle \/ CancelSteps
  BY <1>2 DEF Cycle, AdoptBookPrices, SkipRestore, RestorePartial, RestoreProtection,
     PlaceRecorded, PlacePair, CancelSteps, RequestCancel, CancelTimesOut, SellAfterCancel,
     ReplaceAfterCancel
<1>3. CASE Entry \/ Exit \/ ConfirmChildren \/ LeaveBare \/ Flatten
  BY <1>3 DEF Entry, SkipEntry, PlaceBracket, SeeParentFilled, SeeParentCancelled,
     GiveUpOnParent, KeepChildren, RepriceChildren, Exit, RecordRestingFill, KeepPosition,
     BeginExit, SeeMarketFilled, SeeMarketCancelled, MarketFails, PlaceRecorded, PlacePair,
     ConfirmChildren, LeaveBare, Flatten
<1>. QED BY <1>1, <1>2, <1>3 DEF Next, Bot

\* What was read stays true until it is acted on.
LEMMA StepKeepsBookRead == Inductive /\ BookIsRead /\ [Next]_vars => BookIsRead'
<1>. SUFFICES ASSUME Inductive, BookIsRead, [Next]_vars  PROVE BookIsRead'
  OBVIOUS
<1>. USE DEF BookIsRead, BookIsSettled, BookIsEmpty, Leftover
<1>1. CASE UNCHANGED vars
  BY <1>1 DEF vars, brokerVars, botVars
<1>2. CASE Next /\ pc' \notin {"query", "restore", "contract"}
  BY <1>2
<1>3. CASE Broker
  <2>1. UNCHANGED <<pc, snap>>
    BY <1>3 DEF Broker, AcceptLeg, DropLeg, FillLeg, ParentFills, ParentDies, ParentGhosts,
       MarketFills, MarketDies, MarketGhosts, botVars
  <2>. QED BY <1>3, <2>1, BrokerAddsNoRequest DEF Inductive, Working
<1>4. CASE Sync
  BY <1>4 DEF Sync, Settled, brokerVars
<1>5. CASE QueryProtection
  <2>1. pc = "query" /\ pc' = "restore" /\ resting' = resting
    BY <1>5 DEF QueryProtection, brokerVars
  <2>2. \A k \in Pairs : px[k] # "none"
    BY DEF Inductive, TypeOK, Price
  <2>3. snap' = "none" => LiveLegs = {}
    BY <1>5, <2>2 DEF QueryProtection
  <2>. QED BY <2>1, <2>3 DEF LiveLegs, Working
<1>6. CASE RestoreMissing
  BY <1>6 DEF RestoreMissing, brokerVars
<1>7. CASE RestoreAfterCancel
  BY <1>7 DEF RestoreAfterCancel, CancelReturns, BoardClear, IsWorking, brokerVars
<1>. QED BY <1>1, <1>2, <1>3, <1>4, <1>5, <1>6, <1>7, StepsThatRead

\* And it is true throughout.
LEMMA AlwaysRead == Spec => [](Inductive /\ BookIsRead)
<1>1. Init => Inductive /\ BookIsRead
  BY InitIsInductive DEF Init, BookIsRead, BookIsSettled, BookIsEmpty
<1>2. Inductive /\ BookIsRead /\ [Next]_vars => (Inductive /\ BookIsRead)'
  BY StepKeepsInductive, StepKeepsBookRead
<1>. QED BY <1>1, <1>2, PTL DEF Spec

\* A pair is placed for a position by the restoration or a failed exit only.
LEMMA StepsThatPlace ==
  ASSUME Inductive, Next, pc # "ensure", pc' = "ensure", caller' # "entry"
  PROVE  RestoreProtection \/ (MarketFails /\ caller = "exit")
<1>. USE DEF TurnOver
<1>1. ~Environment /\ ~Broker
  BY DEF Environment, Crash, Restart, LoseConnection, RestoreLoopFails, NextDay, Broker,
     AcceptLeg, DropLeg, FillLeg, ParentFills, ParentDies, ParentGhosts, MarketFills,
     MarketDies, MarketGhosts, botVars
<1>2. CASE Cycle \/ CancelSteps
  BY <1>2 DEF Cycle, Sync, QueryProtection, AdoptBookPrices, SkipRestore, RestorePartial,
     RestoreMissing, CancelSteps, RequestCancel, CancelTimesOut, RestoreAfterCancel,
     SellAfterCancel, ReplaceAfterCancel, CancelReturns
<1>3. CASE Entry
  BY <1>3 DEF Entry, SkipEntry, PlaceBracket, SeeParentFilled, SeeParentCancelled,
     GiveUpOnParent, KeepChildren, RepriceChildren, Inductive, PairIsKnown
<1>4. CASE Exit \/ ConfirmChildren \/ LeaveBare \/ Flatten
  BY <1>4 DEF Exit, RecordRestingFill, KeepPosition, BeginExit, SeeMarketFilled,
     SeeMarketCancelled, MarketFails, ConfirmChildren, LeaveBare, Flatten
<1>. QED BY <1>1, <1>2, <1>3, <1>4 DEF Next, Bot

-----------------------------------------------------------------------------
(***************************************************************************)
(* How much is held.  A BUY that can still fill is waited for, or left     *)
(* behind until the next synchronisation, and finds nothing held.          *)
(***************************************************************************)

BuyIsWatched ==
    parent \in InFlight => shares <= 0 /\ pc \in {"idle", "down", "parentWait", "parentGrace"}

\* The market sell that is waited for leaves nothing once it has filled.
SaleFlattens ==
    pc \in {"marketWait", "marketGrace"} /\ market = "filled" => shares <= 0

OneLotHeld == shares <= 1

HoldsOneLot == OneLotHeld /\ BuyIsWatched /\ SaleFlattens

\* What the broker does to the lot, whatever the races allow it.
LEMMA BrokerKeepsOneLot == Inductive /\ HoldsOneLot /\ Broker => HoldsOneLot'
<1>. SUFFICES ASSUME Inductive, HoldsOneLot, Broker  PROVE HoldsOneLot'
  OBVIOUS
<1>. USE DEF HoldsOneLot, OneLotHeld, BuyIsWatched, SaleFlattens, InFlight, botVars
<1>0. shares \in Int
  BY DEF Inductive, TypeOK
<1>1. ASSUME NEW k \in Pairs, NEW l \in Legs, AcceptLeg(k, l) \/ DropLeg(k, l)
      PROVE  HoldsOneLot'
  BY <1>1 DEF AcceptLeg, DropLeg
<1>2. ASSUME NEW k \in Pairs, NEW l \in Legs, FillLeg(k, l)
      PROVE  HoldsOneLot'
  BY <1>0, <1>2 DEF FillLeg
<1>3. CASE ParentFills
  BY <1>0, <1>3 DEF ParentFills, MayFill
<1>4. CASE ParentDies \/ ParentGhosts
  BY <1>4 DEF ParentDies, ParentGhosts
<1>5. CASE MarketFills
  BY <1>0, <1>5 DEF MarketFills
<1>6. CASE MarketDies \/ MarketGhosts
  BY <1>6 DEF MarketDies, MarketGhosts
<1>. QED BY <1>1, <1>2, <1>3, <1>4, <1>5, <1>6 DEF Broker

\* Everything else moves no lot; it sends a BUY only when nothing is held, and
\* a market sell anew.
LEMMA OthersKeepOneLot ==
  Inductive /\ HoldsOneLot /\ (Environment \/ Bot) => HoldsOneLot'
<1>. SUFFICES ASSUME Inductive, HoldsOneLot, Environment \/ Bot  PROVE HoldsOneLot'
  OBVIOUS
<1>. USE DEF HoldsOneLot, OneLotHeld, BuyIsWatched, SaleFlattens, TurnOver, brokerVars
<1>1. CASE Environment
  BY <1>1 DEF Environment, Crash, Restart, LoseConnection, RestoreLoopFails, NextDay
<1>2. CASE Cycle
  BY <1>2 DEF Cycle, Sync, Settled, QueryProtection, AdoptBookPrices, SkipRestore,
     RestorePartial, RestoreMissing, RestoreProtection, PlaceRecorded, PlacePair
<1>3. CASE CancelSteps
  BY <1>3 DEF CancelSteps, RequestCancel, CancelTimesOut, RestoreAfterCancel,
     SellAfterCancel, ReplaceAfterCancel, CancelReturns, PlacePair
<1>4. CASE PlaceBracket
  BY <1>4 DEF PlaceBracket, Inductive, EnteringFlat
<1>5. CASE SkipEntry \/ SeeParentFilled \/ SeeParentCancelled
  BY <1>5 DEF SkipEntry, SeeParentFilled, SeeParentCancelled, InFlight
<1>6. CASE GiveUpOnParent
  BY <1>6 DEF GiveUpOnParent, InFlight
<1>7. CASE KeepChildren \/ \E accepted, read \in BOOLEAN : RepriceChildren(accepted, read)
  BY <1>7 DEF KeepChildren, RepriceChildren
<1>8. CASE ConfirmChildren \/ LeaveBare \/ Flatten
  BY <1>8 DEF ConfirmChildren, LeaveBare, Flatten
<1>9. CASE RecordRestingFill \/ KeepPosition \/ BeginExit
  BY <1>9 DEF RecordRestingFill, KeepPosition, BeginExit
<1>10. CASE SeeMarketFilled \/ SeeMarketCancelled
  BY <1>10 DEF SeeMarketFilled, SeeMarketCancelled
<1>11. CASE MarketFails
  BY <1>11 DEF MarketFails, PlaceRecorded, PlacePair
<1>. QED
  BY <1>1, <1>2, <1>3, <1>4, <1>5, <1>6, <1>7, <1>8, <1>9, <1>10, <1>11
     DEF Bot, Entry, Exit

\* One lot at most, throughout.
LEMMA AlwaysOneLot == Spec => []HoldsOneLot
<1>1. Init => HoldsOneLot
  BY DEF Init, HoldsOneLot, OneLotHeld, BuyIsWatched, SaleFlattens, InFlight
<1>2. HoldsOneLot /\ UNCHANGED vars => HoldsOneLot'
  BY DEF HoldsOneLot, OneLotHeld, BuyIsWatched, SaleFlattens, vars, brokerVars, botVars
<1>3. Inductive /\ HoldsOneLot /\ [Next]_vars => HoldsOneLot'
  BY <1>2, BrokerKeepsOneLot, OthersKeepOneLot DEF Next
<1>. QED BY <1>1, <1>3, AlwaysInductive, PTL DEF Spec

\* A record is dropped for a fill the session shows or for a sale that filled.
LEMMA StepsThatClose ==
  ASSUME Inductive, Next, local # "absent", local' = "absent"
  PROVE  RecordRestingFill \/ (SeeMarketFilled /\ caller = "exit")
<1>. USE DEF Inductive, TypeOK, storeVars, Price
<1>1. ~Environment /\ ~Broker
  BY DEF Environment, Crash, Restart, LoseConnection, RestoreLoopFails, NextDay, Broker,
     AcceptLeg, DropLeg, FillLeg, ParentFills, ParentDies, ParentGhosts, MarketFills,
     MarketDies, MarketGhosts
<1>2. ~Cycle /\ ~CancelSteps
  BY DEF Cycle, Sync, QueryProtection, AdoptBookPrices, SkipRestore, RestorePartial,
     RestoreMissing, RestoreProtection, CancelSteps, RequestCancel, CancelTimesOut,
     RestoreAfterCancel, SellAfterCancel, ReplaceAfterCancel
<1>3. ~Entry
  BY DEF Entry, SkipEntry, PlaceBracket, SeeParentFilled, SeeParentCancelled,
     GiveUpOnParent, KeepChildren, RepriceChildren
<1>4. ~(ConfirmChildren \/ LeaveBare \/ Flatten)
  BY DEF ConfirmChildren, LeaveBare, Flatten
<1>5. CASE Exit
  BY <1>5 DEF Exit, KeepPosition, BeginExit, SeeMarketFilled, SeeMarketCancelled, MarketFails
<1>. QED BY <1>1, <1>2, <1>3, <1>4, <1>5 DEF Next, Bot

-----------------------------------------------------------------------------
(* The theorems *)

\* BracketOrders never leaves the types of its variables.
THEOREM TypeCorrect == Spec => []TypeOK
<1>1. Inductive => TypeOK
  BY DEF Inductive
<1>. QED BY <1>1, AlwaysInductive, PTL

\* ExitSellsAlone: _market_exit_async waits until every resting order is off
\* the book before it sells, and nothing puts one back while it waits.
THEOREM ExitsSellAlone == Spec => []ExitSellsAlone
<1>1. Inductive => ExitSellsAlone
  BY DEF Inductive
<1>. QED BY <1>1, AlwaysInductive, PTL

\* EntryOnlyWhenFlat: no bracket goes out while the account holds the symbol,
\* whatever crashed, timed out or filled late before, because the cycle starts
\* with sync_with_broker_async and no BUY is then unanswered.
THEOREM EntriesOnlyWhenFlat == Spec => EntryOnlyWhenFlat
<1>1. Inductive /\ [Next]_vars
        => [pc = "process" /\ pc' = "parentWait" => shares <= 0]_vars
  <2>. SUFFICES ASSUME Inductive, Next, pc = "process", pc' = "parentWait"
                PROVE  shares <= 0
    OBVIOUS
  <2>1. PlaceBracket
    BY OnlyBracketsBeginEntries
  <2>. QED BY <2>1 DEF PlaceBracket, Inductive, EnteringFlat
<1>. QED BY <1>1, AlwaysInductive, PTL DEF Spec, EntryOnlyWhenFlat

\* RestoreOnClearBoard: resting orders are put back on a clear book whatever
\* fills, times out or is forgotten meanwhile, as long as no cancellation is
\* pending for a whole cycle.  find_resting_exit_protection_async does not see
\* a leg in PendingCancel: with SlowCancel the property fails.
THEOREM RestoresOnClearBoard ==
  "SlowCancel" \notin Races => (Spec => RestoreOnClearBoard)
<1>. SUFFICES ASSUME "SlowCancel" \notin Races  PROVE Spec => RestoreOnClearBoard
  OBVIOUS
<1>1. Inductive /\ BookIsRead /\ [Next]_vars
        => [pc # "ensure" /\ pc' = "ensure" /\ caller' # "entry" => BoardClear]_vars
  <2>. SUFFICES ASSUME Inductive, BookIsRead, Next,
                       pc # "ensure", pc' = "ensure", caller' # "entry"
                PROVE  BoardClear
    OBVIOUS
  <2>1. RestoreProtection \/ (MarketFails /\ caller = "exit")
    BY StepsThatPlace
  <2>2. CASE RestoreProtection
    BY <2>2 DEF RestoreProtection, BookIsRead, BookIsEmpty, Leftover, BoardClear, IsWorking
  <2>3. CASE MarketFails /\ caller = "exit"
    BY <2>3 DEF MarketFails, Inductive, ExitSellsAlone, SellsAlone
  <2>. QED BY <2>1, <2>2, <2>3
<1>. QED BY <1>1, AlwaysRead, PTL DEF Spec, RestoreOnClearBoard

\* However late a BUY fills and whatever the bot took it for, the account never
\* holds two brackets' worth of the symbol: place_bracket_order_async is only
\* reached when nothing is held and every earlier BUY is answered.
THEOREM NeverTwoLots == Spec => []OneLotHeld
<1>1. HoldsOneLot => OneLotHeld
  BY DEF HoldsOneLot
<1>. QED BY <1>1, AlwaysOneLot, PTL

\* The half of ClosedMeansFlat that holds under every race: a record that
\* _market_exit_async closes is closed on the account that holds none of it.
\* The other half, the close on a fill that the session shows, is a finding.
ClosedBySaleMeansFlat ==
    [][pc # "process" /\ local # "absent" /\ local' = "absent" => shares <= 0]_vars

THEOREM SalesCloseFlat == Spec => ClosedBySaleMeansFlat
<1>1. Inductive /\ HoldsOneLot /\ [Next]_vars
        => [pc # "process" /\ local # "absent" /\ local' = "absent" => shares <= 0]_vars
  <2>. SUFFICES ASSUME Inductive, HoldsOneLot, Next,
                       pc # "process", local # "absent", local' = "absent"
                PROVE  shares <= 0
    OBVIOUS
  <2>1. SeeMarketFilled
    BY StepsThatClose DEF RecordRestingFill
  <2>. QED BY <2>1 DEF SeeMarketFilled, HoldsOneLot, SaleFlattens
<1>. QED BY <1>1, AlwaysInductive, AlwaysOneLot, PTL DEF Spec, ClosedBySaleMeansFlat
=============================================================================
