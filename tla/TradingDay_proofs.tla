-------------------------- MODULE TradingDay_proofs --------------------------
(***************************************************************************)
(* Theorems about TradingDay, for every set of symbols, every value of the *)
(* limits and of the bounds, and every set of faults.                      *)
(***************************************************************************)
EXTENDS TradingDay, FiniteSetTheorems, TLAPS

-----------------------------------------------------------------------------
(* What the operators of PositionManager return. *)

\* A fresh PositionManager is a state of one.
LEMMA EmptyIsState == Empty \in State
  BY BoundsAssumption DEF Empty, State

\* The count of today is a count, whatever day the record is of.
LEMMA EntriesTodayIsNat ==
  ASSUME NEW st \in State  PROVE  EntriesToday(st) \in Nat
  BY DEF EntriesToday, State

\* Counting an attempt, adding and closing positions and reading the file back
\* give states of PositionManager again.
LEMMA OperatorsKeepState ==
  ASSUME NEW st \in State, NEW S \in SUBSET Symbols, NEW s \in Symbols,
         day \in Days
  PROVE  /\ WithAttempt(st) \in State
         /\ WithPositions(st, S) \in State
         /\ WithClosed(st, s) \in State
         /\ Loaded(st) \in State
<1>1. day \in 0..LastDay /\ 0 \in 0..LastDay
  BY BoundsAssumption DEF Days
<1>2. EntriesToday(st) \in Nat
  BY EntriesTodayIsNat
<1>3. WithAttempt(st) \in State
  BY <1>1, <1>2 DEF WithAttempt, State
<1>4. WithPositions(st, S) \in State
  BY DEF WithPositions, State
<1>5. WithClosed(st, s) \in State
  BY <1>1 DEF WithClosed, State
<1>6. Loaded(st) \in State
  BY <1>1, <1>2 DEF Loaded, State
<1>. QED BY <1>3, <1>4, <1>5, <1>6

\* A fault is counted within its bound and only if it may happen.
LEMMA FaultKeepsType ==
  ASSUME NEW kind, TypeOK, Fault(kind)
  PROVE  faults' \in 0..MaxFaults /\ occurred' \subseteq Faults
  BY BoundsAssumption DEF Fault, TypeOK

\* Saving leaves a state in memory and one in the file.
LEMMA SavedKeepsType ==
  ASSUME NEW st \in State, TypeOK, Saved(st)
  PROVE  /\ mem' \in State /\ file' \in State
         /\ faults' \in 0..MaxFaults /\ occurred' \subseteq Faults
  BY FaultKeepsType DEF Saved, TypeOK, faultVars

-----------------------------------------------------------------------------
(* Type correctness *)

\* Closing a position, the step both exits share.
LEMMA CloseKeepsType ==
  ASSUME NEW s \in Symbols, TypeOK, Close(s)
  PROVE  /\ mem' \in State /\ file' \in State
         /\ faults' \in 0..MaxFaults /\ occurred' \subseteq Faults
         /\ closed' \subseteq Symbols /\ losses' \in Nat
         /\ atLoss' \in BOOLEAN /\ pc' = "journal"
<1>1. WithClosed(mem, s) \in State
  BY OperatorsKeepState DEF TypeOK
<1>2. Saved(WithClosed(mem, s))
  BY DEF Close
<1>3. atLoss' \in BOOLEAN
  <2>1. CASE losses < MaxLosses
    BY <2>1, Zenon DEF Close
  <2>2. CASE ~(losses < MaxLosses)
    BY <2>2, Zenon DEF Close
  <2>. QED BY <2>1, <2>2
<1>4. losses' \in Nat
  BY DEF Close, TypeOK
<1>. QED BY <1>1, <1>2, <1>3, <1>4, SavedKeepsType DEF Close, TypeOK

\* Every step keeps the types.
LEMMA StepKeepsType == TypeOK /\ [Next]_vars => TypeOK'
<1>. SUFFICES ASSUME TypeOK, [Next]_vars  PROVE TypeOK'
  OBVIOUS
<1>. USE DEF TypeOK, brokerVars, storeVars, dayVars, turnVars, faultVars
<1>1. ASSUME NEW s \in Symbols, BuyFills(s)  PROVE TypeOK'
  BY <1>1 DEF BuyFills, OrderStatus
<1>2. ASSUME NEW s \in Symbols, SellFills(s)  PROVE TypeOK'
  BY <1>2 DEF SellFills, OrderStatus
<1>3. ASSUME NEW s \in Symbols, OrderDies(s)  PROVE TypeOK'
  BY <1>3 DEF OrderDies, OrderStatus
<1>4. ASSUME NEW s \in Symbols, RestingOrderFills(s)  PROVE TypeOK'
  BY <1>4 DEF RestingOrderFills
<1>5. CASE Sync
  <2>1. WithPositions(mem, held) \in State
    BY OperatorsKeepState
  <2>2. mem' \in State /\ file' \in State /\ faults' \in 0..MaxFaults /\ occurred' \subseteq Faults
    BY <1>5, <2>1, SavedKeepsType DEF Sync
  <2>. QED BY <1>5, <2>2 DEF Sync
<1>6. CASE EndCycle
  BY <1>6 DEF EndCycle
<1>7. ASSUME NEW s \in Symbols, SkipEntry(s)  PROVE TypeOK'
  BY <1>7 DEF SkipEntry, TurnOf
<1>8. ASSUME NEW s \in Symbols, BeginEntry(s)  PROVE TypeOK'
  BY <1>8 DEF BeginEntry, TurnOf
<1>9. CASE DropEntry
  BY <1>9 DEF DropEntry
<1>10. CASE CountAttempt
  <2>1. WithAttempt(mem) \in State
    BY OperatorsKeepState
  <2>2. mem' \in State /\ file' \in State /\ faults' \in 0..MaxFaults /\ occurred' \subseteq Faults
    BY <1>10, <2>1, SavedKeepsType DEF CountAttempt
  <2>. QED BY <1>10, <2>2 DEF CountAttempt
<1>11. CASE PlaceBracket
  BY <1>11 DEF PlaceBracket, OrderStatus
<1>12. CASE RefuseOrder
  BY <1>12 DEF RefuseOrder
<1>13. CASE RecordEntry
  <2>1. WithPositions(mem, {cur}) \in State
    BY OperatorsKeepState
  <2>2. mem' \in State /\ file' \in State /\ faults' \in 0..MaxFaults /\ occurred' \subseteq Faults
    BY <1>13, <2>1, SavedKeepsType DEF RecordEntry
  <2>. QED BY <1>13, <2>2 DEF RecordEntry
<1>14. CASE FlattenEntry
  BY <1>14 DEF FlattenEntry
<1>15. CASE EntryNotFilled
  BY <1>15 DEF EntryNotFilled
<1>16. CASE AbortEntry
  BY <1>16, FaultKeepsType DEF AbortEntry
<1>17. ASSUME NEW s \in Symbols, CloseOnRestingFill(s)  PROVE TypeOK'
  BY <1>17, CloseKeepsType DEF CloseOnRestingFill, TurnOf
<1>18. ASSUME NEW s \in Symbols, KeepPosition(s)  PROVE TypeOK'
  <2>1. mem' \in State /\ file' \in State /\ faults' \in 0..MaxFaults /\ occurred' \subseteq Faults
    BY <1>18, SavedKeepsType DEF KeepPosition
  <2>. QED BY <1>18, <2>1 DEF KeepPosition, TurnOf
<1>19. ASSUME NEW s \in Symbols, BeginMarketExit(s)  PROVE TypeOK'
  BY <1>19 DEF BeginMarketExit, TurnOf, OrderStatus
<1>20. CASE CloseOnMarketExit
  BY <1>20, CloseKeepsType DEF CloseOnMarketExit
<1>21. CASE MarketExitFails
  BY <1>21 DEF MarketExitFails
<1>22. CASE AbortExit
  BY <1>22, FaultKeepsType DEF AbortExit
<1>23. CASE Journal
  BY <1>23 DEF Journal
<1>24. CASE JournalFails
  BY <1>24, FaultKeepsType DEF JournalFails
<1>25. CASE Crash
  BY <1>25, FaultKeepsType, EmptyIsState DEF Crash
<1>26. CASE Restart
  <2>1. Loaded(file) \in State
    BY OperatorsKeepState
  <2>. QED BY <1>26, <2>1, EmptyIsState, FaultKeepsType DEF Restart
<1>27. CASE NewDay
  BY <1>27, EmptyIsState, BoundsAssumption DEF NewDay, Days
<1>28. CASE UNCHANGED vars
  BY <1>28 DEF vars
<1>. QED
  BY <1>1, <1>2, <1>3, <1>4, <1>5, <1>6, <1>7, <1>8, <1>9, <1>10, <1>11, <1>12, <1>13, <1>14, <1>15, <1>16, <1>17, <1>18, <1>19, <1>20, <1>21, <1>22, <1>23, <1>24, <1>25, <1>26, <1>27, <1>28
     DEF Next, Broker, Entry, Exit

\* TradingDay never leaves the types of its variables.
THEOREM TypeCorrect == Spec => []TypeOK
<1>1. Init => TypeOK
  <2>. SUFFICES ASSUME Init  PROVE TypeOK
    OBVIOUS
  <2>1. 1 \in Days /\ 0 \in 0..MaxFaults
    BY BoundsAssumption DEF Days
  <2>2. order \in [Symbols -> OrderStatus]
    BY DEF Init, OrderStatus
  <2>3. mem \in State /\ file \in State
    BY EmptyIsState DEF Init
  <2>. QED BY <2>1, <2>2, <2>3 DEF Init, TypeOK
<1>. QED BY <1>1, StepKeepsType, PTL DEF Spec

-----------------------------------------------------------------------------
(* The daily loss limit *)

\* A losing trade is closed and its row is about to be written.
RowPending == pc = "journal" /\ atLoss = TRUE

\* Every losing trade of the day is in the journal, is about to be written
\* there, or was hidden by a fault of its own; and an attempt was counted
\* below the limit.
LossesAccounted ==
    /\ RowPending => losses <= lossRows + faults + 1
    /\ ~RowPending => losses <= lossRows + faults
    /\ pc = "attempt" => lossRows < MaxDailyLosses

\* A bound on a sum survives when a summand grows.
LEMMA SumGrows ==
  ASSUME NEW a \in Nat, NEW b \in Nat, NEW c \in Nat, NEW d \in Nat,
         a <= b + c, c <= d
  PROVE  a <= b + d /\ a + 1 <= b + d + 1
  OBVIOUS

\* Saving never takes a fault back.
LEMMA SavedCountsFaults ==
  ASSUME NEW st, TypeOK, Saved(st)  PROVE faults <= faults'
  BY DEF Saved, Fault, TypeOK, faultVars

\* Closing a position adds at most the loss whose row becomes pending.
LEMMA CloseAccountsLoss ==
  ASSUME NEW s, TypeOK, TypeOK', Close(s)
  PROVE  /\ pc' = "journal"
         /\ atLoss' = TRUE => losses' = losses + 1
         /\ atLoss' = FALSE => losses' = losses
  BY DEF Close, TypeOK

\* Every step keeps what is counted of the losses.
LEMMA StepKeepsLosses ==
  TypeOK /\ LossesAccounted /\ [Next]_vars => LossesAccounted'
<1>. SUFFICES ASSUME TypeOK, LossesAccounted, [Next]_vars
              PROVE  LossesAccounted'
  OBVIOUS
<1>0. TypeOK'
  BY StepKeepsType
<1>a. /\ losses \in Nat /\ lossRows \in Nat /\ faults \in Nat /\ MaxDailyLosses \in Nat
      /\ losses' \in Nat /\ lossRows' \in Nat /\ faults' \in Nat
  BY <1>0, BoundsAssumption, LimitsAssumption DEF TypeOK
\* A step outside the journal that changes no count.
<1>b. ASSUME pc # "journal", pc' # "journal", faults <= faults',
             losses' = losses, lossRows' = lossRows,
             pc' = "attempt" => lossRows < MaxDailyLosses
      PROVE  LossesAccounted'
  <2>1. ~RowPending /\ ~RowPending'
    BY <1>b DEF RowPending
  <2>2. losses' <= lossRows' + faults'
    <3>1. losses <= lossRows + faults
      BY <2>1, Zenon DEF LossesAccounted
    <3>2. losses' = losses /\ lossRows' = lossRows /\ faults <= faults'
      BY <1>b
    <3>. QED BY <1>a, <3>1, <3>2, SumGrows
  <2>3. pc' = "attempt" => lossRows' < MaxDailyLosses
    BY <1>b
  <2>. QED BY <2>1, <2>2, <2>3 DEF LossesAccounted
\* A step that leaves everything the invariant is about alone.
<1>c. ASSUME pc' = pc, atLoss' = atLoss, faults' = faults,
             losses' = losses, lossRows' = lossRows
      PROVE  LossesAccounted'
  BY <1>c DEF LossesAccounted, RowPending
<1>1. ASSUME NEW s \in Symbols, BuyFills(s)  PROVE LossesAccounted'
  BY <1>1, <1>c DEF BuyFills, dayVars, turnVars, faultVars
<1>2. ASSUME NEW s \in Symbols, SellFills(s)  PROVE LossesAccounted'
  BY <1>2, <1>c DEF SellFills, dayVars, turnVars, faultVars
<1>3. ASSUME NEW s \in Symbols, OrderDies(s)  PROVE LossesAccounted'
  BY <1>3, <1>c DEF OrderDies, dayVars, turnVars, faultVars
<1>4. ASSUME NEW s \in Symbols, RestingOrderFills(s)  PROVE LossesAccounted'
  BY <1>4, <1>c DEF RestingOrderFills, dayVars, turnVars, faultVars
<1>5. CASE Sync
  <2>1. faults <= faults'
    BY <1>a, <1>5, SavedCountsFaults DEF Sync, faultVars
  <2>. QED BY <1>a, <1>5, <2>1, <1>b DEF Sync, dayVars
<1>6. CASE EndCycle
  BY <1>a, <1>6, <1>b DEF EndCycle, dayVars, turnVars, faultVars
<1>7. ASSUME NEW s \in Symbols, SkipEntry(s)  PROVE LossesAccounted'
  BY <1>a, <1>7, <1>b DEF SkipEntry, TurnOf, dayVars, turnVars, faultVars
<1>8. ASSUME NEW s \in Symbols, BeginEntry(s)  PROVE LossesAccounted'
  BY <1>a, <1>8, <1>b DEF BeginEntry, TurnOf, dayVars, turnVars, faultVars
<1>9. CASE DropEntry
  BY <1>a, <1>9, <1>b DEF DropEntry, dayVars, turnVars, faultVars
<1>10. CASE CountAttempt
  <2>1. faults <= faults'
    BY <1>a, <1>10, SavedCountsFaults DEF CountAttempt, faultVars
  <2>. QED BY <1>a, <1>10, <2>1, <1>b DEF CountAttempt, dayVars
<1>11. CASE PlaceBracket
  BY <1>a, <1>11, <1>b DEF PlaceBracket, dayVars, turnVars, faultVars
<1>12. CASE RefuseOrder
  BY <1>a, <1>12, <1>b DEF RefuseOrder, dayVars, turnVars, faultVars
<1>13. CASE RecordEntry
  <2>1. faults <= faults'
    BY <1>a, <1>13, SavedCountsFaults DEF RecordEntry, faultVars
  <2>. QED BY <1>a, <1>13, <2>1, <1>b DEF RecordEntry, dayVars
<1>14. CASE FlattenEntry
  BY <1>a, <1>14, <1>b DEF FlattenEntry, dayVars, turnVars, faultVars
<1>15. CASE EntryNotFilled
  BY <1>a, <1>15, <1>b DEF EntryNotFilled, dayVars, turnVars, faultVars
<1>16. CASE AbortEntry
  <2>1. faults' = faults + 1 /\ losses' = losses /\ lossRows' = lossRows /\ pc' \in {"turn", "down"}
    BY <1>16 DEF AbortEntry, Fault, dayVars
  <2>. QED BY <1>a, <2>1 DEF LossesAccounted, RowPending
<1>17. ASSUME NEW s \in Symbols, CloseOnRestingFill(s)  PROVE LossesAccounted'
  <2>1. Close(s) /\ pc # "journal" /\ lossRows' = lossRows
    BY <1>17 DEF CloseOnRestingFill, TurnOf
  <2>2. faults <= faults'
    BY <2>1, SavedCountsFaults DEF Close
  <2>3. /\ pc' = "journal"
        /\ atLoss' = TRUE => losses' = losses + 1
        /\ atLoss' = FALSE => losses' = losses
    BY <1>0, <2>1, CloseAccountsLoss
  <2>4. ~RowPending /\ losses <= lossRows + faults
    BY <2>1 DEF LossesAccounted, RowPending
  <2>5. CASE atLoss' = TRUE
    <3>1. losses' <= lossRows' + faults' + 1
      <4>1. losses' = losses + 1
        BY <2>3, <2>5, Zenon
      <4>2. lossRows' = lossRows /\ losses <= lossRows + faults
        BY <2>1, <2>4
      <4>. QED BY <1>a, <2>2, <4>1, <4>2, SumGrows
    <3>2. RowPending'
      BY <2>3, <2>5 DEF RowPending
    <3>. QED BY <2>3, <3>1, <3>2 DEF LossesAccounted
  <2>6. CASE atLoss' = FALSE
    <3>1. losses' <= lossRows' + faults'
      <4>1. losses' = losses
        BY <2>3, <2>6, Zenon
      <4>2. lossRows' = lossRows /\ losses <= lossRows + faults
        BY <2>1, <2>4
      <4>. QED BY <1>a, <2>2, <4>1, <4>2, SumGrows
    <3>2. ~RowPending'
      BY <2>6 DEF RowPending
    <3>. QED BY <2>3, <3>1, <3>2 DEF LossesAccounted
  <2>7. atLoss' \in BOOLEAN
    BY <1>0 DEF TypeOK
  <2>. QED BY <2>5, <2>6, <2>7
<1>18. ASSUME NEW s \in Symbols, KeepPosition(s)  PROVE LossesAccounted'
  <2>1. faults <= faults'
    BY <1>a, <1>18, SavedCountsFaults DEF KeepPosition, TurnOf, faultVars
  <2>. QED BY <1>a, <1>18, <2>1, <1>b DEF KeepPosition, TurnOf, dayVars
<1>19. ASSUME NEW s \in Symbols, BeginMarketExit(s)  PROVE LossesAccounted'
  BY <1>a, <1>19, <1>b DEF BeginMarketExit, TurnOf, dayVars, turnVars, faultVars
<1>20. CASE CloseOnMarketExit
  <2>1. Close(cur) /\ pc # "journal" /\ lossRows' = lossRows
    BY <1>20 DEF CloseOnMarketExit
  <2>2. faults <= faults'
    BY <2>1, SavedCountsFaults DEF Close
  <2>3. /\ pc' = "journal"
        /\ atLoss' = TRUE => losses' = losses + 1
        /\ atLoss' = FALSE => losses' = losses
    BY <1>0, <2>1, CloseAccountsLoss
  <2>4. ~RowPending /\ losses <= lossRows + faults
    BY <2>1 DEF LossesAccounted, RowPending
  <2>5. CASE atLoss' = TRUE
    <3>1. losses' <= lossRows' + faults' + 1
      <4>1. losses' = losses + 1
        BY <2>3, <2>5, Zenon
      <4>2. lossRows' = lossRows /\ losses <= lossRows + faults
        BY <2>1, <2>4
      <4>. QED BY <1>a, <2>2, <4>1, <4>2, SumGrows
    <3>2. RowPending'
      BY <2>3, <2>5 DEF RowPending
    <3>. QED BY <2>3, <3>1, <3>2 DEF LossesAccounted
  <2>6. CASE atLoss' = FALSE
    <3>1. losses' <= lossRows' + faults'
      <4>1. losses' = losses
        BY <2>3, <2>6, Zenon
      <4>2. lossRows' = lossRows /\ losses <= lossRows + faults
        BY <2>1, <2>4
      <4>. QED BY <1>a, <2>2, <4>1, <4>2, SumGrows
    <3>2. ~RowPending'
      BY <2>6 DEF RowPending
    <3>. QED BY <2>3, <3>1, <3>2 DEF LossesAccounted
  <2>7. atLoss' \in BOOLEAN
    BY <1>0 DEF TypeOK
  <2>. QED BY <2>5, <2>6, <2>7
<1>21. CASE MarketExitFails
  BY <1>a, <1>21, <1>b DEF MarketExitFails, dayVars, turnVars, faultVars
<1>22. CASE AbortExit
  <2>1. faults' = faults + 1 /\ losses' = losses /\ lossRows' = lossRows /\ pc' \in {"turn", "down"}
    BY <1>22 DEF AbortExit, Fault, dayVars
  <2>. QED BY <1>a, <2>1 DEF LossesAccounted, RowPending
<1>23. CASE Journal
  BY <1>a, <1>23 DEF Journal, LossesAccounted, RowPending, faultVars
<1>24. CASE JournalFails
  <2>1. faults' = faults + 1 /\ losses' = losses /\ lossRows' = lossRows /\ pc' \in {"turn", "down"}
    BY <1>24 DEF JournalFails, Fault, dayVars
  <2>. QED BY <1>a, <2>1 DEF LossesAccounted, RowPending
<1>25. CASE Crash
  <2>1. faults' = faults + 1 /\ losses' = losses /\ lossRows' = lossRows /\ pc' \in {"turn", "down"}
    BY <1>25 DEF Crash, Fault, dayVars
  <2>. QED BY <1>a, <2>1 DEF LossesAccounted, RowPending
<1>26. CASE Restart
  <2>1. faults <= faults'
    BY <1>a, <1>26 DEF Restart, Fault, faultVars
  <2>. QED BY <1>26, <2>1, <1>b DEF Restart, dayVars
<1>27. CASE NewDay
  <2>1. losses' = 0 /\ lossRows' = 0 /\ faults' = faults /\ pc' \in {"idle", "down"}
    BY <1>27 DEF NewDay, faultVars
  <2>. QED BY <1>a, <2>1 DEF LossesAccounted, RowPending
<1>28. CASE UNCHANGED vars
  BY <1>28, <1>c DEF vars, dayVars, turnVars, faultVars
<1>. QED
  BY <1>1, <1>2, <1>3, <1>4, <1>5, <1>6, <1>7, <1>8, <1>9, <1>10, <1>11, <1>12, <1>13, <1>14, <1>15, <1>16, <1>17, <1>18, <1>19, <1>20, <1>21, <1>22, <1>23, <1>24, <1>25, <1>26, <1>27, <1>28
     DEF Next, Broker, Entry, Exit

\* EntryBelowLossLimit: _process_entry_async sends no entry once the losses
\* realised today have reached MAX_DAILY_LOSS_PCT, up to one hidden loss per
\* crash or failed row.
THEOREM LossLimitHolds == Spec => EntryBelowLossLimit
<1>1. Init => LossesAccounted
  BY DEF Init, LossesAccounted, RowPending
<1>2. TypeOK /\ LossesAccounted /\ [Next]_vars
        => [pc = "attempt" /\ pc' = "ordered" => losses < MaxDailyLosses + faults]_vars
  <2>. SUFFICES ASSUME TypeOK, LossesAccounted, pc = "attempt"
                PROVE  losses < MaxDailyLosses + faults
    OBVIOUS
  <2>1. losses \in Nat /\ lossRows \in Nat /\ faults \in Nat /\ MaxDailyLosses \in Nat
    BY BoundsAssumption, LimitsAssumption DEF TypeOK
  <2>. QED BY <2>1 DEF LossesAccounted, RowPending
<1>. QED BY <1>1, <1>2, TypeCorrect, StepKeepsLosses, PTL DEF Spec, EntryBelowLossLimit

-----------------------------------------------------------------------------
(* The state file *)

\* The file that is intact after a step was intact before it, and the step
\* was no fault of the file.
LEMMA FaultKeepsIntact ==
  ASSUME NEW kind, Fault(kind), FileIntact'
  PROVE  FileIntact /\ kind \notin {"SaveFails", "FileLost"}
  BY DEF Fault, FileIntact

\* A save that succeeded left the same state in memory and in the file.
LEMMA SavedIntact ==
  ASSUME NEW st, Saved(st), FileIntact'
  PROVE  FileIntact /\ mem' = st /\ file' = st
  BY FaultKeepsIntact DEF Saved, FileIntact, faultVars

\* A step leaves an intact file only if it found one.
LEMMA StepKeepsIntact ==
  ASSUME [Next]_vars, FileIntact'  PROVE FileIntact
<1>1. CASE occurred' = occurred
  BY <1>1 DEF FileIntact
<1>2. CASE occurred' # occurred
  <2>1. \E kind : Fault(kind)
    <3>. USE DEF faultVars, Saved
    <3>1. CASE Broker
      BY <1>2, <3>1 DEF Broker, BuyFills, SellFills, OrderDies, RestingOrderFills
    <3>2. CASE Sync \/ EndCycle
      BY <1>2, <3>2 DEF Sync, EndCycle
    <3>3. CASE Entry
      BY <1>2, <3>3 DEF Entry, SkipEntry, BeginEntry, DropEntry, CountAttempt, PlaceBracket,
         RefuseOrder, RecordEntry, FlattenEntry, EntryNotFilled, AbortEntry
    <3>4. CASE Exit
      BY <1>2, <3>4 DEF Exit, CloseOnRestingFill, KeepPosition, BeginMarketExit,
         CloseOnMarketExit, MarketExitFails, AbortExit, Journal, JournalFails, Close
    <3>5. CASE Crash \/ Restart \/ NewDay
      BY <1>2, <3>5 DEF Crash, Restart, NewDay
    <3>6. CASE UNCHANGED vars
      BY <1>2, <3>6 DEF vars
    <3>. QED BY <3>1, <3>2, <3>3, <3>4, <3>5, <3>6 DEF Next
  <2>. QED BY <2>1, FaultKeepsIntact
<1>. QED BY <1>1, <1>2

-----------------------------------------------------------------------------
(* The daily limit of entry orders *)

\* The entries that faults of the file may have hidden from the count: a day's
\* worth each.
Hidden == MaxDailyEntryOrders * (IF FileIntact THEN 0 ELSE faults)

\* A count that covers the orders of the day and the attempt under way.
Covers(count) ==
    /\ placed <= count + Hidden
    /\ pc = "attempt" => placed < count + Hidden

\* The counts in the file and in memory cover the orders of the day, but for
\* what is hidden, and stay within the limit.  A count is never of a day to
\* come, so that the next day starts from zero.
AttemptsCounted ==
    /\ file.entryDay <= day /\ mem.entryDay <= day
    /\ EntriesToday(file) <= MaxDailyEntryOrders
    /\ EntriesToday(mem) <= MaxDailyEntryOrders
    /\ Covers(EntriesToday(file))
    /\ pc # "down" => Covers(EntriesToday(mem))
    /\ pc = "entry" => EntriesToday(mem) < MaxDailyEntryOrders

\* No step takes a fault back.
LEMMA FaultsGrow ==
  ASSUME TypeOK, [Next]_vars  PROVE faults <= faults'
<1>1. faults \in Nat
  BY BoundsAssumption DEF TypeOK
<1>2. faults' = faults \/ faults' = faults + 1
  <2>. USE DEF faultVars, Saved, Fault
  <2>1. CASE Broker
    BY <2>1 DEF Broker, BuyFills, SellFills, OrderDies, RestingOrderFills
  <2>2. CASE Sync \/ EndCycle
    BY <2>2 DEF Sync, EndCycle
  <2>3. CASE Entry
    BY <2>3 DEF Entry, SkipEntry, BeginEntry, DropEntry, CountAttempt, PlaceBracket,
       RefuseOrder, RecordEntry, FlattenEntry, EntryNotFilled, AbortEntry
  <2>4. CASE Exit
    BY <2>4 DEF Exit, CloseOnRestingFill, KeepPosition, BeginMarketExit,
       CloseOnMarketExit, MarketExitFails, AbortExit, Journal, JournalFails, Close
  <2>5. CASE Crash \/ Restart \/ NewDay
    BY <2>5 DEF Crash, Restart, NewDay
  <2>6. CASE UNCHANGED vars
    BY <2>6 DEF vars
  <2>. QED BY <2>1, <2>2, <2>3, <2>4, <2>5, <2>6 DEF Next
<1>. QED BY <1>1, <1>2

\* What is hidden never becomes less.
LEMMA HiddenGrows ==
  ASSUME TypeOK, [Next]_vars
  PROVE  Hidden \in Nat /\ Hidden' \in Nat /\ Hidden <= Hidden'
<1>1. faults \in Nat /\ faults' \in Nat /\ faults <= faults' /\ MaxDailyEntryOrders \in Nat
  BY FaultsGrow, StepKeepsType, BoundsAssumption, LimitsAssumption DEF TypeOK
<1>2. FileIntact' => FileIntact
  BY StepKeepsIntact
<1>. DEFINE before == IF FileIntact THEN 0 ELSE faults
            after  == IF FileIntact' THEN 0 ELSE faults'
<1>3. before \in Nat /\ after \in Nat /\ before <= after
  BY <1>1, <1>2
<1>4. Hidden = MaxDailyEntryOrders * before /\ Hidden' = MaxDailyEntryOrders * after
  BY DEF Hidden
<1>. HIDE DEF before, after
<1>. QED BY <1>1, <1>3, <1>4, SMT

\* A fault of the file hides a day's worth of entries.
LEMMA FileFaultHides ==
  ASSUME TypeOK, NEW kind \in {"SaveFails", "FileLost"}, Fault(kind)
  PROVE  Hidden + MaxDailyEntryOrders <= Hidden'
<1>1. faults \in Nat /\ MaxDailyEntryOrders \in Nat
  BY BoundsAssumption, LimitsAssumption DEF TypeOK
<1>2. ~FileIntact' /\ faults' = faults + 1
  BY DEF Fault, FileIntact
<1>. DEFINE before == IF FileIntact THEN 0 ELSE faults
<1>3. before \in Nat /\ before <= faults
  BY <1>1
<1>4. Hidden = MaxDailyEntryOrders * before /\ Hidden' = MaxDailyEntryOrders * (faults + 1)
  BY <1>2 DEF Hidden
<1>. HIDE DEF before
<1>5. /\ MaxDailyEntryOrders * (faults + 1) = MaxDailyEntryOrders * faults + MaxDailyEntryOrders
      /\ MaxDailyEntryOrders * before <= MaxDailyEntryOrders * faults
      /\ MaxDailyEntryOrders * faults \in Nat /\ MaxDailyEntryOrders * before \in Nat
  BY <1>1, <1>3, SMT
<1>. QED BY <1>1, <1>4, <1>5

\* Only counting an attempt changes the count.
LEMMA CountOfOperators ==
  ASSUME NEW st \in State, NEW S, NEW s, day \in Days
  PROVE  /\ WithAttempt(st).entryDay = day
         /\ EntriesToday(WithAttempt(st)) = EntriesToday(st) + 1
         /\ WithPositions(st, S).entryDay = st.entryDay
         /\ EntriesToday(WithPositions(st, S)) = EntriesToday(st)
         /\ WithClosed(st, s).entryDay = st.entryDay
         /\ EntriesToday(WithClosed(st, s)) = EntriesToday(st)
         /\ EntriesToday(Loaded(st)) = EntriesToday(st)
         /\ Loaded(st).entryDay \in {0, day}
<1>1. /\ WithAttempt(st).entryDay = day
      /\ EntriesToday(WithAttempt(st)) = EntriesToday(st) + 1
  BY DEF WithAttempt, EntriesToday
<1>2. /\ WithPositions(st, S).entryDay = st.entryDay
      /\ WithPositions(st, S).entries = st.entries
  BY DEF WithPositions, State
<1>3. /\ WithClosed(st, s).entryDay = st.entryDay
      /\ WithClosed(st, s).entries = st.entries
  BY DEF WithClosed, State
<1>4. /\ Loaded(st).entryDay = IF st.entryDay = day THEN day ELSE 0
      /\ Loaded(st).entries = EntriesToday(st)
  BY DEF Loaded, State
<1>5. 0 # day
  BY DEF Days
<1>. QED BY <1>1, <1>2, <1>3, <1>4, <1>5 DEF EntriesToday

\* What is within the hidden is within it and a count of zero.
LEMMA WithinHidden ==
  ASSUME NEW n \in Nat, NEW h \in Nat, n <= h, NEW count, count = 0
  PROVE  n <= count + h
  OBVIOUS

\* A step that touches neither the file nor the counts.
LEMMA UntouchedCounts ==
  ASSUME TypeOK, AttemptsCounted, [Next]_vars,
         day' = day, file' = file, mem' = mem, placed' = placed,
         pc # "down" \/ pc' = pc, pc' \notin {"entry", "attempt"} \/ pc' = pc
  PROVE  AttemptsCounted'
<1>1. EntriesToday(file)' = EntriesToday(file) /\ EntriesToday(mem)' = EntriesToday(mem)
  BY DEF EntriesToday
<1>2. /\ Hidden \in Nat /\ Hidden' \in Nat /\ Hidden <= Hidden' /\ placed \in Nat
      /\ EntriesToday(file) \in Nat /\ EntriesToday(mem) \in Nat
  BY HiddenGrows, EntriesTodayIsNat DEF TypeOK
<1>3. Covers(EntriesToday(file))' /\ (pc' # "down" => Covers(EntriesToday(mem))')
  BY <1>1, <1>2 DEF AttemptsCounted, Covers
<1>. QED BY <1>1, <1>3 DEF AttemptsCounted

\* Saving what counts the same leaves the counts alone, in memory and,
\* whether or not the save succeeds, in the file.
LEMMA SavedCounts ==
  ASSUME TypeOK, AttemptsCounted, [Next]_vars, NEW st, Saved(st),
         st.entryDay = mem.entryDay, EntriesToday(st) = EntriesToday(mem),
         day' = day, placed' = placed,
         pc # "down", pc' \notin {"entry", "attempt", "down"}
  PROVE  AttemptsCounted'
<1>1. /\ Hidden \in Nat /\ Hidden' \in Nat /\ Hidden <= Hidden' /\ placed \in Nat
      /\ EntriesToday(file) \in Nat /\ EntriesToday(mem) \in Nat
  BY HiddenGrows, EntriesTodayIsNat DEF TypeOK
<1>2. mem' = st /\ (file' = st \/ file' = file)
  BY DEF Saved
<1>3. /\ EntriesToday(mem)' = EntriesToday(mem)
      /\ EntriesToday(file)' \in {EntriesToday(mem), EntriesToday(file)}
      /\ mem'.entryDay <= day' /\ file'.entryDay <= day'
  BY <1>2 DEF EntriesToday, AttemptsCounted
<1>4. /\ placed <= EntriesToday(mem) + Hidden' /\ placed <= EntriesToday(file) + Hidden'
      /\ EntriesToday(mem) <= MaxDailyEntryOrders /\ EntriesToday(file) <= MaxDailyEntryOrders
  BY <1>1 DEF AttemptsCounted, Covers
<1>5. Covers(EntriesToday(mem))' /\ Covers(EntriesToday(file))'
  BY <1>3, <1>4 DEF Covers
<1>. QED BY <1>3, <1>4, <1>5 DEF AttemptsCounted

\* Every step keeps the count of entries in the file and in memory.
LEMMA StepKeepsCounts ==
  TypeOK /\ AttemptsCounted /\ [Next]_vars => AttemptsCounted'
<1>. SUFFICES ASSUME TypeOK, AttemptsCounted, [Next]_vars
              PROVE  AttemptsCounted'
  OBVIOUS
<1>. USE DEF brokerVars, storeVars, dayVars, turnVars
<1>t. /\ mem \in State /\ file \in State /\ day \in Days /\ day \in Nat
      /\ placed \in Nat /\ MaxDailyEntryOrders \in Nat
      /\ EntriesToday(mem) \in Nat /\ EntriesToday(file) \in Nat
      /\ Hidden \in Nat /\ Hidden' \in Nat /\ Hidden <= Hidden'
  BY HiddenGrows, EntriesTodayIsNat, LimitsAssumption DEF TypeOK, Days
<1>1. CASE Broker
  <2>1. /\ day' = day /\ file' = file /\ mem' = mem /\ placed' = placed /\ pc' = pc
    BY <1>1 DEF Broker, BuyFills, SellFills, OrderDies, RestingOrderFills
  <2>. QED BY <2>1, UntouchedCounts
<1>2. CASE Sync
  <2>1. CASE held = {}
    BY <1>2, <2>1, UntouchedCounts DEF Sync
  <2>2. CASE held # {}
    BY <1>2, <2>2, <1>t, CountOfOperators, SavedCounts DEF Sync
  <2>. QED BY <2>1, <2>2
<1>3. CASE EndCycle \/ DropEntry \/ RefuseOrder \/ FlattenEntry \/ EntryNotFilled \/ AbortEntry
  BY <1>3, UntouchedCounts
     DEF EndCycle, DropEntry, RefuseOrder, FlattenEntry, EntryNotFilled, AbortEntry
<1>4. CASE MarketExitFails \/ AbortExit \/ Journal \/ JournalFails
  BY <1>4, UntouchedCounts DEF MarketExitFails, AbortExit, Journal, JournalFails
<1>5. ASSUME NEW s \in Symbols, SkipEntry(s) \/ BeginMarketExit(s)
      PROVE  AttemptsCounted'
  BY <1>5, UntouchedCounts DEF SkipEntry, BeginMarketExit, TurnOf
<1>6. ASSUME NEW s \in Symbols, BeginEntry(s)  PROVE AttemptsCounted'
  <2>1. /\ day' = day /\ file' = file /\ mem' = mem /\ placed' = placed
        /\ pc = "turn" /\ pc' = "entry" /\ EntriesToday(mem) < MaxDailyEntryOrders
    BY <1>6 DEF BeginEntry, TurnOf
  <2>2. EntriesToday(file)' = EntriesToday(file) /\ EntriesToday(mem)' = EntriesToday(mem)
    BY <2>1 DEF EntriesToday
  <2>3. Covers(EntriesToday(file))' /\ Covers(EntriesToday(mem))'
    BY <1>t, <2>1, <2>2 DEF AttemptsCounted, Covers
  <2>. QED BY <2>1, <2>2, <2>3 DEF AttemptsCounted
<1>7. CASE CountAttempt
  <2>1. /\ Saved(WithAttempt(mem)) /\ day' = day /\ placed' = placed
        /\ pc = "entry" /\ pc' = "attempt"
    BY <1>7 DEF CountAttempt
  <2>2. WithAttempt(mem).entryDay = day
        /\ EntriesToday(WithAttempt(mem)) = EntriesToday(mem) + 1
    BY <1>t, CountOfOperators
  <2>3. mem' = WithAttempt(mem)
    BY <2>1 DEF Saved
  <2>4. EntriesToday(mem)' = EntriesToday(mem) + 1 /\ mem'.entryDay = day
    BY <2>1, <2>2, <2>3 DEF EntriesToday
  <2>5. /\ placed <= EntriesToday(mem) + Hidden /\ EntriesToday(mem) < MaxDailyEntryOrders
        /\ placed <= EntriesToday(file) + Hidden /\ EntriesToday(file) <= MaxDailyEntryOrders
        /\ file.entryDay <= day
    BY <2>1 DEF AttemptsCounted, Covers
  <2>6. placed < EntriesToday(mem) + 1 + Hidden' /\ EntriesToday(mem) + 1 <= MaxDailyEntryOrders
    BY <1>t, <2>5
  <2>7. CASE file' = WithAttempt(mem)
    <3>1. EntriesToday(file)' = EntriesToday(mem) + 1 /\ file'.entryDay = day
      BY <2>1, <2>2, <2>7 DEF EntriesToday
    <3>2. Covers(EntriesToday(file))' /\ Covers(EntriesToday(mem))'
      <4>1. EntriesToday(mem) + 1 \in Nat
        BY <1>t
      <4>2. placed <= EntriesToday(mem) + 1 + Hidden'
        BY <1>t, <2>6
      <4>. QED BY <2>1, <2>4, <2>6, <3>1, <4>1, <4>2 DEF Covers
    <3>. QED BY <1>t, <2>1, <2>4, <2>6, <3>1, <3>2 DEF AttemptsCounted
  <2>8. CASE file' = file /\ Fault("SaveFails")
    <3>1. EntriesToday(file)' = EntriesToday(file) /\ file'.entryDay = file.entryDay
      BY <2>1, <2>8 DEF EntriesToday
    <3>2. Hidden + MaxDailyEntryOrders <= Hidden'
      BY <2>8, FileFaultHides
    <3>3. placed < EntriesToday(file) + Hidden' /\ placed <= EntriesToday(file) + Hidden'
      BY <1>t, <2>5, <3>2
    <3>4. placed <= EntriesToday(mem) + 1 + Hidden'
      BY <1>t, <2>6
    <3>5. Covers(EntriesToday(file))' /\ Covers(EntriesToday(mem))'
      BY <2>1, <2>4, <2>6, <3>1, <3>3, <3>4 DEF Covers
    <3>. QED BY <1>t, <2>1, <2>4, <2>5, <2>6, <3>1, <3>5 DEF AttemptsCounted
  <2>. QED BY <2>1, <2>7, <2>8 DEF Saved
<1>8. CASE PlaceBracket
  <2>1. /\ day' = day /\ file' = file /\ mem' = mem /\ placed' = placed + 1
        /\ pc = "attempt" /\ pc' = "ordered"
    BY <1>8 DEF PlaceBracket
  <2>2. EntriesToday(file)' = EntriesToday(file) /\ EntriesToday(mem)' = EntriesToday(mem)
    BY <2>1 DEF EntriesToday
  <2>3. placed < EntriesToday(file) + Hidden /\ placed < EntriesToday(mem) + Hidden
    BY <2>1 DEF AttemptsCounted, Covers
  <2>4. placed + 1 <= EntriesToday(file) + Hidden' /\ placed + 1 <= EntriesToday(mem) + Hidden'
    BY <1>t, <2>3
  <2>. QED BY <2>1, <2>2, <2>4 DEF AttemptsCounted, Covers
<1>9. CASE RecordEntry
  BY <1>9, <1>t, CountOfOperators, SavedCounts DEF RecordEntry
<1>10. ASSUME NEW s \in Symbols, CloseOnRestingFill(s)  PROVE AttemptsCounted'
  BY <1>10, <1>t, CountOfOperators, SavedCounts DEF CloseOnRestingFill, TurnOf, Close
<1>11. ASSUME NEW s \in Symbols, KeepPosition(s)  PROVE AttemptsCounted'
  <2>1. CASE Saved(mem)
    BY <1>11, <2>1, SavedCounts DEF KeepPosition, TurnOf
  <2>2. CASE UNCHANGED <<mem, file, faultVars>>
    BY <1>11, <2>2, UntouchedCounts DEF KeepPosition, TurnOf
  <2>. QED BY <1>11, <2>1, <2>2 DEF KeepPosition
<1>12. CASE CloseOnMarketExit
  BY <1>12, <1>t, CountOfOperators, SavedCounts DEF CloseOnMarketExit, Close
<1>13. CASE Crash
  <2>1. /\ day' = day /\ file' = file /\ placed' = placed /\ pc' = "down"
        /\ mem'.entryDay = 0 /\ mem'.entries = 0
    BY <1>13 DEF Crash, Empty
  <2>2. EntriesToday(file)' = EntriesToday(file) /\ EntriesToday(mem)' = 0
    BY <2>1 DEF EntriesToday
  <2>3. Covers(EntriesToday(file))'
    BY <1>t, <2>1, <2>2 DEF AttemptsCounted, Covers
  <2>. QED BY <1>t, <2>1, <2>2, <2>3 DEF AttemptsCounted
<1>14. CASE Restart
  <2>1. day' = day /\ placed' = placed /\ pc' = "idle" /\ pc = "down"
    BY <1>14 DEF Restart
  <2>2. /\ placed <= EntriesToday(file) + Hidden /\ EntriesToday(file) <= MaxDailyEntryOrders
        /\ file.entryDay <= day
    BY DEF AttemptsCounted, Covers
  <2>3. CASE mem' = Loaded(file) /\ file' = file
    <3>1. Loaded(file).entryDay \in {0, day} /\ EntriesToday(Loaded(file)) = EntriesToday(file)
      BY <1>t, CountOfOperators
    <3>2. EntriesToday(file)' = EntriesToday(file) /\ EntriesToday(mem)' = EntriesToday(file)
      BY <2>1, <2>3, <3>1 DEF EntriesToday
    <3>3. mem'.entryDay <= day'
      BY <1>t, <2>1, <2>3, <3>1
    <3>4. placed <= EntriesToday(file) + Hidden'
      BY <1>t, <2>2
    <3>. QED BY <2>1, <2>2, <2>3, <3>2, <3>3, <3>4 DEF AttemptsCounted, Covers
  <2>4. CASE mem' = Empty /\ file' = Empty /\ Fault("FileLost")
    <3>1. Hidden + MaxDailyEntryOrders <= Hidden'
      BY <2>4, FileFaultHides
    <3>2. mem'.entryDay = 0 /\ file'.entryDay = 0 /\ mem'.entries = 0 /\ file'.entries = 0
      BY <2>4 DEF Empty
    <3>3. EntriesToday(file)' = 0 /\ EntriesToday(mem)' = 0
      BY <3>2 DEF EntriesToday
    <3>4. placed <= Hidden'
      BY <1>t, <2>2, <3>1
    <3>5. 0 <= MaxDailyEntryOrders /\ 0 <= day
      BY <1>t
    <3>6. placed <= EntriesToday(file)' + Hidden' /\ placed <= EntriesToday(mem)' + Hidden'
      BY <1>t, <3>3, <3>4, WithinHidden, Zenon
    <3>. QED BY <2>1, <3>2, <3>3, <3>5, <3>6 DEF AttemptsCounted, Covers
  <2>. QED BY <1>14, <2>3, <2>4 DEF Restart
<1>15. CASE NewDay
  <2>1. /\ day' = day + 1 /\ file' = file /\ placed' = 0 /\ pc' \in {"idle", "down"}
        /\ mem' = mem \/ (mem' = Empty /\ pc' = "down")
    BY <1>15 DEF NewDay
  <2>2. file.entryDay \in Nat /\ mem.entryDay \in Nat /\ file.entryDay <= day /\ mem.entryDay <= day
    BY <1>t DEF State, AttemptsCounted
  <2>3. /\ file.entryDay <= day + 1 /\ file.entryDay # day + 1
        /\ mem.entryDay <= day + 1 /\ mem.entryDay # day + 1
        /\ 0 <= day + 1 /\ 0 # day + 1
    BY <1>t, <2>2
  <2>4. EntriesToday(file)' = 0 /\ file'.entryDay <= day'
    BY <2>1, <2>3 DEF EntriesToday
  <2>5. EntriesToday(mem)' = 0 /\ mem'.entryDay <= day'
    BY <2>1, <2>3 DEF EntriesToday, Empty
  <2>6. 0 <= MaxDailyEntryOrders
    BY <1>t
  <2>7. 0 <= EntriesToday(file)' + Hidden' /\ 0 <= EntriesToday(mem)' + Hidden'
    <3>1. 0 \in Nat /\ 0 <= Hidden'
      BY <1>t
    <3>. QED BY <1>t, <2>4, <2>5, <3>1, WithinHidden, Zenon
  <2>. QED BY <2>1, <2>4, <2>5, <2>6, <2>7 DEF AttemptsCounted, Covers
<1>16. CASE UNCHANGED vars
  BY <1>16, UntouchedCounts DEF vars
<1>. QED
  BY <1>1, <1>2, <1>3, <1>4, <1>5, <1>6, <1>7, <1>8, <1>9, <1>10, <1>11, <1>12, <1>13, <1>14, <1>15, <1>16
     DEF Next, Entry, Exit

\* EntriesWithinLimit: however often the process crashes, restarts or aborts a
\* turn, no day sees more entry orders than MAX_DAILY_ENTRY_ORDERS, because
\* record_entry_order_attempt saves the count before the order goes out; a
\* save that fails and a file that is lost hide one more day's worth each.
THEOREM EntryLimitHolds == Spec => []EntriesWithinLimit
<1>1. Init => AttemptsCounted
  <2>. SUFFICES ASSUME Init  PROVE AttemptsCounted
    OBVIOUS
  <2>1. /\ mem.entryDay = 0 /\ file.entryDay = 0 /\ mem.entries = 0 /\ file.entries = 0
        /\ day = 1 /\ placed = 0 /\ pc = "idle" /\ FileIntact
    BY DEF Init, Empty, FileIntact
  <2>2. EntriesToday(mem) = 0 /\ EntriesToday(file) = 0
    BY <2>1 DEF EntriesToday
  <2>3. Hidden = 0
    BY <2>1, LimitsAssumption DEF Hidden
  <2>. QED BY <2>1, <2>2, <2>3, LimitsAssumption DEF AttemptsCounted, Covers
<1>2. TypeOK /\ AttemptsCounted => EntriesWithinLimit
  <2>. SUFFICES ASSUME TypeOK, AttemptsCounted  PROVE EntriesWithinLimit
    OBVIOUS
  <2>. DEFINE lost == IF FileIntact THEN 0 ELSE faults
  <2>1. /\ EntriesToday(file) \in Nat /\ placed \in Nat /\ MaxDailyEntryOrders \in Nat
        /\ lost \in Nat
    BY EntriesTodayIsNat, LimitsAssumption, BoundsAssumption DEF TypeOK
  <2>2. /\ placed <= EntriesToday(file) + MaxDailyEntryOrders * lost
        /\ EntriesToday(file) <= MaxDailyEntryOrders
    BY DEF AttemptsCounted, Covers, Hidden
  <2>3. EntriesWithinLimit <=> placed <= MaxDailyEntryOrders * (1 + lost)
    BY DEF EntriesWithinLimit
  <2>. HIDE DEF lost
  <2>4. /\ MaxDailyEntryOrders * (1 + lost) = MaxDailyEntryOrders + MaxDailyEntryOrders * lost
        /\ MaxDailyEntryOrders * lost \in Nat
    BY <2>1, SMT
  <2>. QED BY <2>1, <2>2, <2>3, <2>4
<1>. QED BY <1>1, <1>2, TypeCorrect, StepKeepsCounts, PTL DEF Spec

-----------------------------------------------------------------------------
(* The cooldown *)

\* Every symbol closed today has today as its exit day, in the file and in
\* memory, and the symbol about to be bought is none of them.
ExitsRemembered ==
    FileIntact =>
        /\ \A s \in closed : file.exits[s] = day
        /\ pc # "down" => \A s \in closed : mem.exits[s] = day
        /\ pc \in {"entry", "attempt"} => cur \notin closed

\* No operator of PositionManager forgets a symbol that was closed today.
LEMMA ExitsOfOperators ==
  ASSUME NEW st \in State, NEW S, NEW s \in Symbols, day \in Days
  PROVE  /\ WithAttempt(st).exits = st.exits
         /\ WithPositions(st, S).exits = st.exits
         /\ \A t \in Symbols : t = s \/ st.exits[t] = day => WithClosed(st, s).exits[t] = day
         /\ \A t \in Symbols : st.exits[t] = day => Loaded(st).exits[t] = day
<1>1. WithAttempt(st).exits = st.exits
  BY DEF WithAttempt
<1>2. WithPositions(st, S).exits = st.exits
  BY DEF WithPositions, State
<1>3. \A t \in Symbols : t = s \/ st.exits[t] = day => WithClosed(st, s).exits[t] = day
  BY DEF WithClosed, State
<1>4. \A t \in Symbols : st.exits[t] = day => Loaded(st).exits[t] = day
  BY DEF Loaded, State
<1>. QED BY <1>1, <1>2, <1>3, <1>4

\* A step that touches neither the exits nor the closed symbols.
LEMMA UntouchedExits ==
  ASSUME ExitsRemembered, FileIntact' => FileIntact, pc # "down",
         day' = day, closed' = closed,
         FileIntact' => file'.exits = file.exits /\ mem'.exits = mem.exits,
         pc' \notin {"entry", "attempt"} \/ (pc \in {"entry", "attempt"} /\ cur' = cur)
  PROVE  ExitsRemembered'
  BY DEF ExitsRemembered

\* Saving what remembers the same exits.
LEMMA SavedExits ==
  ASSUME ExitsRemembered, NEW st, Saved(st), st.exits = mem.exits, pc # "down",
         day' = day, closed' = closed,
         pc' \notin {"entry", "attempt"} \/ (pc \in {"entry", "attempt"} /\ cur' = cur)
  PROVE  ExitsRemembered'
<1>. SUFFICES ASSUME FileIntact'  PROVE ExitsRemembered'
  BY DEF ExitsRemembered
<1>1. FileIntact /\ mem' = st /\ file' = st
  BY SavedIntact
<1>. QED BY <1>1 DEF ExitsRemembered

\* Closing a position, the step both exits share.
LEMMA ClosedExits ==
  ASSUME TypeOK, ExitsRemembered, NEW s \in Symbols, Close(s), day' = day, pc # "down"
  PROVE  ExitsRemembered'
<1>. SUFFICES ASSUME FileIntact'  PROVE ExitsRemembered'
  BY DEF ExitsRemembered
<1>1. FileIntact /\ mem' = WithClosed(mem, s) /\ file' = WithClosed(mem, s)
  BY SavedIntact DEF Close
<1>2. closed' = closed \cup {s} /\ pc' = "journal"
  BY DEF Close
<1>3. \A t \in Symbols : t = s \/ mem.exits[t] = day => WithClosed(mem, s).exits[t] = day
  BY ExitsOfOperators DEF TypeOK
<1>4. \A t \in closed : t \in Symbols /\ mem.exits[t] = day
  BY <1>1 DEF ExitsRemembered, TypeOK
<1>5. \A t \in closed' : WithClosed(mem, s).exits[t] = day
  BY <1>2, <1>3, <1>4
<1>. QED BY <1>1, <1>2, <1>5 DEF ExitsRemembered

\* Every step keeps the days on which symbols were sold.
LEMMA StepKeepsExits ==
  TypeOK /\ ExitsRemembered /\ [Next]_vars => ExitsRemembered'
<1>. SUFFICES ASSUME TypeOK, ExitsRemembered, [Next]_vars
              PROVE  ExitsRemembered'
  OBVIOUS
<1>. USE DEF brokerVars, storeVars, dayVars, turnVars
<1>0. FileIntact' => FileIntact
  BY StepKeepsIntact
<1>t. mem \in State /\ file \in State /\ day \in Days /\ held \subseteq Symbols /\ cur \in Symbols
  BY DEF TypeOK
<1>1. CASE Broker
  <2>1. day' = day /\ file' = file /\ mem' = mem /\ closed' = closed /\ pc' = pc /\ cur' = cur
    BY <1>1 DEF Broker, BuyFills, SellFills, OrderDies, RestingOrderFills
  <2>. QED BY <1>0, <2>1 DEF ExitsRemembered
<1>2. CASE Sync
  <2>1. CASE held = {}
    BY <1>0, <1>2, <2>1, UntouchedExits DEF Sync
  <2>2. CASE held # {}
    BY <1>2, <2>2, <1>t, ExitsOfOperators, SavedExits DEF Sync
  <2>. QED BY <2>1, <2>2
<1>3. CASE EndCycle \/ DropEntry \/ RefuseOrder \/ FlattenEntry \/ EntryNotFilled \/ AbortEntry
           \/ PlaceBracket
  BY <1>0, <1>3, UntouchedExits
     DEF EndCycle, DropEntry, RefuseOrder, FlattenEntry, EntryNotFilled, AbortEntry, PlaceBracket
<1>4. CASE MarketExitFails \/ AbortExit \/ Journal \/ JournalFails
  BY <1>0, <1>4, UntouchedExits DEF MarketExitFails, AbortExit, Journal, JournalFails
<1>5. ASSUME NEW s \in Symbols, SkipEntry(s) \/ BeginMarketExit(s)
      PROVE  ExitsRemembered'
  BY <1>0, <1>5, UntouchedExits DEF SkipEntry, BeginMarketExit, TurnOf
<1>6. ASSUME NEW s \in Symbols, BeginEntry(s)  PROVE ExitsRemembered'
  <2>1. /\ day' = day /\ file' = file /\ mem' = mem /\ closed' = closed
        /\ pc = "turn" /\ cur' = s /\ mem.exits[s] # day
    BY <1>6 DEF BeginEntry, TurnOf, InCooldown
  <2>2. FileIntact => s \notin closed
    BY <2>1 DEF ExitsRemembered
  <2>. QED BY <1>0, <2>1, <2>2 DEF ExitsRemembered
<1>7. CASE CountAttempt
  BY <1>7, <1>t, ExitsOfOperators, SavedExits DEF CountAttempt
<1>8. CASE RecordEntry
  BY <1>8, <1>t, ExitsOfOperators, SavedExits DEF RecordEntry
<1>9. ASSUME NEW s \in Symbols, CloseOnRestingFill(s)  PROVE ExitsRemembered'
  BY <1>9, ClosedExits DEF CloseOnRestingFill, TurnOf
<1>10. ASSUME NEW s \in Symbols, KeepPosition(s)  PROVE ExitsRemembered'
  <2>1. CASE Saved(mem)
    BY <1>10, <2>1, SavedExits DEF KeepPosition, TurnOf
  <2>2. CASE UNCHANGED <<mem, file, faultVars>>
    BY <1>0, <1>10, <2>2, UntouchedExits DEF KeepPosition, TurnOf
  <2>. QED BY <1>10, <2>1, <2>2 DEF KeepPosition
<1>11. CASE CloseOnMarketExit
  BY <1>11, <1>t, ClosedExits DEF CloseOnMarketExit
<1>12. CASE Crash
  BY <1>0, <1>12 DEF Crash, ExitsRemembered
<1>13. CASE Restart
  <2>1. day' = day /\ closed' = closed /\ pc' = "idle"
    BY <1>13 DEF Restart
  <2>2. CASE mem' = Loaded(file) /\ file' = file
    <3>1. \A t \in Symbols : file.exits[t] = day => Loaded(file).exits[t] = day
      BY <1>t, ExitsOfOperators
    <3>. QED BY <1>0, <2>1, <2>2, <3>1 DEF ExitsRemembered, TypeOK
  <2>3. CASE Fault("FileLost")
    BY <2>3, FaultKeepsIntact DEF ExitsRemembered
  <2>. QED BY <1>13, <2>2, <2>3 DEF Restart
<1>14. CASE NewDay
  BY <1>14 DEF NewDay, ExitsRemembered
<1>15. CASE UNCHANGED vars
  BY <1>0, <1>15 DEF vars, ExitsRemembered
<1>. QED
  BY <1>1, <1>2, <1>3, <1>4, <1>5, <1>6, <1>7, <1>8, <1>9, <1>10, <1>11, <1>12, <1>13, <1>14, <1>15
     DEF Next, Entry, Exit

\* NoSameDayReentry: no symbol is bought on the day its position was closed,
\* also when the process is restarted in between, because close_position saves
\* the exit day and _load reads it back.
THEOREM CooldownHolds == Spec => NoSameDayReentry
<1>1. Init => ExitsRemembered
  BY DEF Init, ExitsRemembered
<1>2. ExitsRemembered /\ [Next]_vars
        => [pc = "attempt" /\ pc' = "ordered" /\ FileIntact => cur \notin closed]_vars
  BY DEF ExitsRemembered
<1>. QED BY <1>1, <1>2, TypeCorrect, StepKeepsExits, PTL DEF Spec, NoSameDayReentry

-----------------------------------------------------------------------------
(***************************************************************************)
(* The limit of concurrent positions.  It is judged from the positions in  *)
(* memory, so what is held must be in memory whenever a turn judges it; a  *)
(* BUY that a turn left at the broker is the exception.                    *)
(***************************************************************************)

\* The symbols that aborted turns may have left to be bought unrecorded.
Slack == IF "EntryAborted" \in occurred THEN faults ELSE 0

Buying == {s \in Symbols : order[s] = "buying"}

\* What the account holds, or will when the broker fills what it has.
Exposed == held \cup Buying

\* Between the synchronisation and the end of the cycle.
Running == pc \in {"turn", "entry", "attempt", "ordered", "selling", "journal"}

\* The steps in front of an order whose limit has been judged.
Judged == pc \in {"entry", "attempt"}

\* What is held or being bought without the cycle knowing: neither recorded
\* nor waited for.
Unseen == (Exposed \ mem.positions) \ (IF pc = "ordered" THEN {cur} ELSE {})

\* In a cycle the memory covers what is held or being bought, up to one symbol
\* per aborted turn, and none of those has a turn to come.
ExposureBounded ==
    /\ Cardinality(Exposed) <= MaxConcurrentPositions + Slack
    /\ Running => /\ Cardinality(Unseen) <= Slack
                  /\ Unseen \cap todo = {}
                  /\ Buying \cap mem.positions = {}
    /\ Judged => cur \notin mem.positions \cup Exposed
                 /\ Cardinality(mem.positions) < MaxConcurrentPositions
    /\ Judged \/ pc = "ordered" => cur \notin todo
    /\ pc = "ordered" => cur \notin mem.positions
                         /\ (order[cur] # "bought" => cur \notin held)

\* A sold symbol is no longer held.
SoldIsGone == \A s \in Symbols : order[s] = "sold" => s \notin held

HeldInv == SoldIsGone /\ (~misread => ExposureBounded)

\* A smaller set stays within a bound that does not shrink.
LEMMA SmallerIsWithin ==
  ASSUME NEW T, IsFiniteSet(T), NEW S \in SUBSET T,
         NEW n \in Nat, NEW m \in Nat, Cardinality(T) <= n, n <= m
  PROVE  Cardinality(S) <= m
<1>1. IsFiniteSet(S) /\ Cardinality(S) <= Cardinality(T)
  BY FS_Subset
<1>2. Cardinality(S) \in Nat /\ Cardinality(T) \in Nat
  BY <1>1, FS_CardinalityType
<1>. QED BY <1>1, <1>2

\* One element more costs one.
LEMMA OneMoreIsWithin ==
  ASSUME NEW T, IsFiniteSet(T), NEW e, NEW S \in SUBSET (T \cup {e}),
         NEW n \in Nat, NEW m \in Nat, Cardinality(T) <= n, n + 1 <= m
  PROVE  Cardinality(S) <= m
<1>1. IsFiniteSet(T \cup {e}) /\ Cardinality(T \cup {e}) <= Cardinality(T) + 1
  <2>1. CASE e \in T
    <3>1. T \cup {e} = T
      BY <2>1
    <3>2. Cardinality(T) \in Nat
      BY FS_CardinalityType
    <3>. QED BY <3>1, <3>2
  <2>2. CASE e \notin T
    <3>1. IsFiniteSet(T \cup {e}) /\ Cardinality(T \cup {e}) = Cardinality(T) + 1
      BY <2>2, FS_AddElement
    <3>2. Cardinality(T) \in Nat
      BY FS_CardinalityType
    <3>. QED BY <3>1, <3>2
  <2>. QED BY <2>1, <2>2
<1>2. Cardinality(T) \in Nat
  BY FS_CardinalityType
<1>3. Cardinality(T) + 1 <= n + 1
  BY <1>2
<1>4. Cardinality(T \cup {e}) \in Nat
  BY <1>1, FS_CardinalityType
<1>5. Cardinality(T \cup {e}) <= n + 1 /\ n + 1 \in Nat
  BY <1>1, <1>2, <1>3, <1>4
<1>. QED BY <1>1, <1>5, SmallerIsWithin

\* Two sets within their bounds are together within the sum, and one element
\* more is when the first is below its bound.
LEMMA BothAreWithin ==
  ASSUME NEW P, IsFiniteSet(P), NEW U, IsFiniteSet(U), NEW e,
         NEW S \in SUBSET (P \cup U \cup {e}),
         NEW n \in Nat, NEW k \in Nat, NEW m \in Nat,
         Cardinality(P) < n, Cardinality(U) <= k, n + k <= m
  PROVE  Cardinality(S) <= m
<1>1. /\ IsFiniteSet(P \cup U)
      /\ Cardinality(P \cup U) = Cardinality(P) + Cardinality(U) - Cardinality(P \cap U)
  BY FS_Union
<1>2. Cardinality(P) \in Nat /\ Cardinality(U) \in Nat /\ Cardinality(P \cap U) \in Nat
  <2>1. IsFiniteSet(P \cap U)
    BY FS_Subset
  <2>. QED BY <2>1, FS_CardinalityType
<1>3. Cardinality(P \cup U) + 1 <= n + k /\ Cardinality(P \cup U) \in Nat
  <2>1. Cardinality(P \cup U) \in Nat
    BY <1>1, FS_CardinalityType
  <2>. QED BY <1>1, <1>2, <2>1
<1>4. Cardinality(P \cup U) + 1 <= m /\ Cardinality(P \cup U) <= Cardinality(P \cup U)
  BY <1>3
<1>. QED BY <1>1, <1>3, <1>4, OneMoreIsWithin, Zenon

\* A bound with a part that grows does not shrink.
LEMMA BoundGrows ==
  ASSUME NEW n \in Nat, NEW k \in Nat, NEW m \in Nat, k <= m
  PROVE  n + k \in Nat /\ n + m \in Nat /\ n + k <= n + m
  OBVIOUS

\* What is exposed or unseen is finite.
LEMMA ExposureIsFinite ==
  ASSUME TypeOK
  PROVE  /\ IsFiniteSet(Exposed) /\ Exposed \subseteq Symbols
         /\ IsFiniteSet(Unseen) /\ Unseen \subseteq Exposed
         /\ IsFiniteSet(mem.positions) /\ mem.positions \subseteq Symbols
<1>1. Exposed \subseteq Symbols /\ Unseen \subseteq Exposed /\ mem.positions \subseteq Symbols
  BY DEF Exposed, Unseen, Buying, TypeOK, State
<1>2. Unseen \subseteq Symbols
  BY <1>1
<1>. QED BY <1>1, <1>2, SymbolsAssumption, FS_Subset

\* A fault is never forgotten, nor a misread fill.
LEMMA NothingForgotten ==
  [Next]_vars => occurred \subseteq occurred' /\ (~misread' => ~misread)
<1>. SUFFICES ASSUME [Next]_vars
              PROVE  occurred \subseteq occurred' /\ (~misread' => ~misread)
  OBVIOUS
<1>. USE DEF faultVars, turnVars, Saved, Fault
<1>1. CASE Broker
  BY <1>1 DEF Broker, BuyFills, SellFills, OrderDies, RestingOrderFills
<1>2. CASE Sync \/ EndCycle
  BY <1>2 DEF Sync, EndCycle
<1>3. CASE Entry
  BY <1>3 DEF Entry, SkipEntry, BeginEntry, DropEntry, CountAttempt, PlaceBracket,
     RefuseOrder, RecordEntry, FlattenEntry, EntryNotFilled, AbortEntry
<1>4. CASE Exit
  <2>1. occurred \subseteq occurred'
    BY <1>4 DEF Exit, CloseOnRestingFill, KeepPosition, BeginMarketExit,
       CloseOnMarketExit, MarketExitFails, AbortExit, Journal, JournalFails, Close
  <2>2. ASSUME NEW s, CloseOnRestingFill(s)  PROVE ~misread' => ~misread
    BY <2>2, Zenon DEF CloseOnRestingFill
  <2>3. ASSUME NEW s, KeepPosition(s) \/ BeginMarketExit(s)  PROVE misread' = misread
    BY <2>3 DEF KeepPosition, BeginMarketExit
  <2>4. CASE CloseOnMarketExit \/ MarketExitFails \/ AbortExit \/ Journal \/ JournalFails
    BY <2>1, <2>4 DEF CloseOnMarketExit, MarketExitFails, AbortExit, Journal, JournalFails
  <2>. QED BY <1>4, <2>1, <2>2, <2>3, <2>4 DEF Exit
<1>5. CASE Crash \/ Restart \/ NewDay
  BY <1>5 DEF Crash, Restart, NewDay
<1>6. CASE UNCHANGED vars
  BY <1>6 DEF vars
<1>. QED BY <1>1, <1>2, <1>3, <1>4, <1>5, <1>6 DEF Next

\* The slack never becomes less, and an aborted entry adds to it.
LEMMA SlackGrows ==
  ASSUME TypeOK, [Next]_vars
  PROVE  /\ Slack \in Nat /\ Slack' \in Nat /\ Slack <= Slack'
         /\ AbortEntry => Slack + 1 <= Slack'
<1>1. faults \in Nat /\ faults' \in Nat /\ faults <= faults'
  BY FaultsGrow, StepKeepsType, BoundsAssumption DEF TypeOK
<1>2. "EntryAborted" \in occurred => "EntryAborted" \in occurred'
  BY NothingForgotten
<1>3. AbortEntry => "EntryAborted" \in occurred' /\ faults' = faults + 1
  BY DEF AbortEntry, Fault
<1>4. Slack \in Nat /\ Slack' \in Nat /\ Slack <= Slack'
  BY <1>1, <1>2 DEF Slack
<1>5. ASSUME AbortEntry  PROVE Slack + 1 <= Slack'
  <2>1. Slack' = faults + 1 /\ Slack \in Nat /\ Slack <= faults
    BY <1>1, <1>3, <1>5 DEF Slack
  <2>. QED BY <1>1, <2>1
<1>. QED BY <1>4, <1>5

\* What shrinks stays within its bound.
LEMMA ExposureShrinks ==
  ASSUME TypeOK, [Next]_vars
  PROVE  /\ /\ Cardinality(Exposed) <= MaxConcurrentPositions + Slack
            /\ Exposed' \subseteq Exposed
            => Cardinality(Exposed)' <= MaxConcurrentPositions + Slack'
         /\ /\ Cardinality(Unseen) <= Slack
            /\ Unseen' \subseteq Unseen
            => Cardinality(Unseen)' <= Slack'
<1>1. Slack \in Nat /\ Slack' \in Nat /\ Slack <= Slack' /\ MaxConcurrentPositions \in Nat
  BY SlackGrows, LimitsAssumption
<1>2. /\ MaxConcurrentPositions + Slack \in Nat /\ MaxConcurrentPositions + Slack' \in Nat
      /\ MaxConcurrentPositions + Slack <= MaxConcurrentPositions + Slack'
  BY <1>1, BoundGrows, Zenon
<1>3. IsFiniteSet(Exposed) /\ IsFiniteSet(Unseen)
  BY ExposureIsFinite
<1>4. ASSUME Cardinality(Exposed) <= MaxConcurrentPositions + Slack, Exposed' \subseteq Exposed
      PROVE  Cardinality(Exposed)' <= MaxConcurrentPositions + Slack'
  BY <1>2, <1>3, <1>4, SmallerIsWithin, Zenon
<1>5. ASSUME Cardinality(Unseen) <= Slack, Unseen' \subseteq Unseen
      PROVE  Cardinality(Unseen)' <= Slack'
  BY <1>1, <1>3, <1>5, SmallerIsWithin, Zenon
<1>. QED BY <1>4, <1>5

\* Saving puts the state into memory, whatever becomes of the file.
LEMMA SavedInMemory ==
  ASSUME NEW st, Saved(st)  PROVE mem' = st
  BY DEF Saved

\* The positions of what the operators return.
LEMMA PositionsOfOperators ==
  ASSUME NEW st \in State, NEW S \in SUBSET Symbols, NEW s \in Symbols
  PROVE  /\ WithAttempt(st).positions = st.positions
         /\ WithPositions(st, S).positions = st.positions \cup S
         /\ WithClosed(st, s).positions = st.positions \ {s}
  BY DEF WithAttempt, WithPositions, WithClosed, State

\* A step that exposes nothing more, hides nothing in a cycle and neither
\* judges a limit nor waits for a BUY.
LEMMA NothingAdded ==
  ASSUME TypeOK, [Next]_vars, ExposureBounded, Exposed' \subseteq Exposed,
         Running' => Running /\ Unseen' \subseteq Unseen /\ todo' \subseteq todo
                     /\ Buying' \cap mem'.positions = {},
         ~Judged', pc' # "ordered"
  PROVE  ExposureBounded'
<1>1. Cardinality(Exposed)' <= MaxConcurrentPositions + Slack'
  BY ExposureShrinks DEF ExposureBounded
<1>2. ASSUME Running'
      PROVE  /\ Cardinality(Unseen)' <= Slack'
             /\ Unseen' \cap todo' = {}
             /\ Buying' \cap mem'.positions = {}
  <2>1. Cardinality(Unseen) <= Slack /\ Unseen \cap todo = {}
    BY <1>2 DEF ExposureBounded
  <2>2. Unseen' \subseteq Unseen /\ todo' \subseteq todo
    BY <1>2
  <2>3. Cardinality(Unseen)' <= Slack'
    BY <2>1, <2>2, ExposureShrinks
  <2>. QED BY <1>2, <2>1, <2>2, <2>3
<1>. QED BY <1>1, <1>2 DEF ExposureBounded

\* The broker moves a symbol from the orders into the account or drops it.
LEMMA BrokerKeepsHeld == TypeOK /\ HeldInv /\ Broker => HeldInv'
<1>. SUFFICES ASSUME TypeOK, HeldInv, Broker  PROVE HeldInv'
  OBVIOUS
<1>0. [Next]_vars
  BY DEF Next
<1>1. PICK s \in Symbols : BuyFills(s) \/ SellFills(s) \/ OrderDies(s) \/ RestingOrderFills(s)
  BY DEF Broker
<1>2. mem' = mem /\ pc' = pc /\ cur' = cur /\ todo' = todo /\ misread' = misread
  BY <1>1 DEF BuyFills, SellFills, OrderDies, RestingOrderFills, storeVars, turnVars
<1>3. \A t \in Symbols \ {s} :
        /\ order'[t] = order[t] /\ (t \in held' <=> t \in held)
  BY <1>1 DEF BuyFills, SellFills, OrderDies, RestingOrderFills, TypeOK
<1>4. /\ order'[s] = "sold" => s \notin held'
      /\ order'[s] = "buying" => order[s] = "buying"
      /\ s \in held' => s \in held \/ (order[s] = "buying" /\ order'[s] = "bought")
      /\ order[s] = "bought" => order'[s] = "bought"
  <2>1. CASE BuyFills(s)
    BY <2>1 DEF BuyFills, TypeOK
  <2>2. CASE SellFills(s)
    BY <2>2 DEF SellFills, TypeOK
  <2>3. CASE OrderDies(s)
    BY <2>3 DEF OrderDies, TypeOK, InFlight
  <2>4. CASE RestingOrderFills(s)
    BY <2>4 DEF RestingOrderFills, TypeOK
  <2>. QED BY <1>1, <2>1, <2>2, <2>3, <2>4
<1>5. held' \subseteq Symbols /\ held \subseteq Symbols /\ cur \in Symbols
  BY <1>0, StepKeepsType DEF TypeOK
<1>6. Buying' \subseteq Buying /\ Exposed' \subseteq Exposed
  BY <1>3, <1>4, <1>5 DEF Exposed, Buying
<1>7. Unseen' \subseteq Unseen
  BY <1>2, <1>6 DEF Unseen
<1>8. SoldIsGone'
  BY <1>3, <1>4 DEF HeldInv, SoldIsGone
<1>9. ASSUME ~misread'  PROVE ExposureBounded'
  <2>1. ExposureBounded
    BY <1>2, <1>9 DEF HeldInv
  <2>2. Cardinality(Exposed)' <= MaxConcurrentPositions + Slack'
    BY <1>0, <1>6, <2>1, ExposureShrinks DEF ExposureBounded
  <2>3. Running' => /\ Cardinality(Unseen)' <= Slack'
                    /\ Unseen' \cap todo' = {}
                    /\ Buying' \cap mem'.positions = {}
    <3>1. Running => /\ Cardinality(Unseen) <= Slack /\ Unseen \cap todo = {}
                     /\ Buying \cap mem.positions = {}
      BY <2>1 DEF ExposureBounded
    <3>2. Running' <=> Running
      BY <1>2 DEF Running
    <3>. QED BY <1>0, <1>2, <1>6, <1>7, <3>1, <3>2, ExposureShrinks
  <2>4. /\ Judged' => cur' \notin mem'.positions \cup Exposed'
                      /\ Cardinality(mem'.positions) < MaxConcurrentPositions
        /\ Judged' \/ pc' = "ordered" => cur' \notin todo'
    BY <1>2, <1>6, <2>1 DEF ExposureBounded, Judged
  <2>5. pc' = "ordered" => cur' \notin mem'.positions
                           /\ (order'[cur'] # "bought" => cur' \notin held')
    BY <1>2, <1>3, <1>4, <1>5, <2>1 DEF ExposureBounded
  <2>. QED BY <2>2, <2>3, <2>4, <2>5 DEF ExposureBounded
<1>. QED BY <1>8, <1>9 DEF HeldInv

\* What a step leaves alone of the broker.
LEMMA SameExposure ==
  ASSUME held' = held, order' = order
  PROVE  Exposed' = Exposed /\ Buying' = Buying /\ SoldIsGone' = SoldIsGone
  BY DEF Exposed, Buying, SoldIsGone

\* A step that leaves the broker and the recorded positions alone.
LEMMA BrokerUntouched ==
  ASSUME TypeOK, [Next]_vars, HeldInv, held' = held, order' = order,
         Running' => Running /\ pc # "ordered" /\ todo' \subseteq todo
                     /\ mem'.positions = mem.positions,
         ~Judged', pc' # "ordered"
  PROVE  HeldInv'
<1>1. Exposed' = Exposed /\ Buying' = Buying /\ SoldIsGone'
  BY SameExposure DEF HeldInv
<1>2. ASSUME ~misread'  PROVE ExposureBounded'
  <2>1. ExposureBounded
    BY <1>2, NothingForgotten DEF HeldInv
  <2>2. Running' => Unseen' \subseteq Unseen
    BY <1>1 DEF Unseen
  <2>3. Running' => Buying' \cap mem'.positions = {}
    BY <1>1, <2>1 DEF ExposureBounded
  <2>. QED BY <1>1, <2>1, <2>2, <2>3, NothingAdded
<1>. QED BY <1>1, <1>2 DEF HeldInv

\* A closed position is neither held nor being bought, so that the memory
\* still covers what is.
LEMMA CloseKeepsHeld ==
  ASSUME TypeOK, [Next]_vars, HeldInv, NEW s \in Symbols, Close(s),
         Running, pc # "ordered", todo' \subseteq todo,
         ~misread' => s \notin Exposed, held' = held, order' = order
  PROVE  HeldInv'
<1>1. mem' = WithClosed(mem, s) /\ pc' = "journal"
  BY SavedInMemory DEF Close
<1>2. mem'.positions = mem.positions \ {s}
  BY <1>1, PositionsOfOperators DEF TypeOK
<1>3. Exposed' = Exposed /\ Buying' = Buying /\ SoldIsGone'
  BY SameExposure DEF HeldInv
<1>4. ASSUME ~misread'  PROVE ExposureBounded'
  <2>1. ExposureBounded /\ s \notin Exposed
    BY <1>4, NothingForgotten DEF HeldInv
  <2>2. Unseen' \subseteq Unseen
    BY <1>1, <1>2, <1>3, <2>1 DEF Unseen
  <2>3. Buying' \cap mem'.positions = {}
    BY <1>2, <1>3, <2>1 DEF ExposureBounded
  <2>. QED BY <1>1, <1>3, <2>1, <2>2, <2>3, NothingAdded DEF Judged
<1>. QED BY <1>3, <1>4 DEF HeldInv

\* An entry adds to the exposure only below the limit, and leaves behind what
\* it neither recorded nor saw end only when it is aborted.
LEMMA EntryKeepsHeld == TypeOK /\ HeldInv /\ Entry => HeldInv'
<1>. SUFFICES ASSUME TypeOK, HeldInv, Entry  PROVE HeldInv'
  OBVIOUS
<1>. USE DEF brokerVars, storeVars, turnVars
<1>0. [Next]_vars
  BY DEF Next
<1>a. cur \in Symbols /\ mem \in State /\ mem.positions \subseteq Symbols /\ held \subseteq Symbols
  BY DEF TypeOK, State
<1>m. ~misread' => ~misread
  BY <1>0, NothingForgotten
<1>1. CASE DropEntry \/ RefuseOrder
  BY <1>0, <1>1, BrokerUntouched DEF DropEntry, RefuseOrder, Running, Judged
<1>2. ASSUME NEW s \in Symbols, SkipEntry(s)  PROVE HeldInv'
  BY <1>0, <1>2, BrokerUntouched DEF SkipEntry, TurnOf, Running, Judged
<1>3. ASSUME NEW s \in Symbols, BeginEntry(s)  PROVE HeldInv'
  <2>1. /\ pc = "turn" /\ pc' = "entry" /\ cur' = s /\ s \in todo /\ todo' = todo \ {s}
        /\ s \notin mem.positions /\ Cardinality(mem.positions) < MaxConcurrentPositions
        /\ UNCHANGED <<held, order, mem>>
    BY <1>3 DEF BeginEntry, TurnOf
  <2>2. Exposed' = Exposed /\ Buying' = Buying /\ SoldIsGone' /\ Unseen' = Unseen
    BY <2>1, SameExposure DEF HeldInv, Unseen
  <2>3. ASSUME ~misread'  PROVE ExposureBounded'
    <3>1. /\ Cardinality(Exposed) <= MaxConcurrentPositions + Slack
          /\ Cardinality(Unseen) <= Slack /\ Unseen \cap todo = {}
          /\ Buying \cap mem.positions = {}
      BY <1>m, <2>1, <2>3 DEF HeldInv, ExposureBounded, Running
    <3>2. /\ Cardinality(Exposed)' <= MaxConcurrentPositions + Slack'
          /\ Cardinality(Unseen)' <= Slack'
      BY <1>0, <2>2, <3>1, ExposureShrinks
    <3>3. s \notin Exposed
      BY <2>1, <3>1 DEF Unseen
    <3>. QED BY <2>1, <2>2, <3>1, <3>2, <3>3 DEF ExposureBounded, Judged
  <2>. QED BY <2>2, <2>3 DEF HeldInv
<1>4. CASE CountAttempt
  <2>1. /\ pc = "entry" /\ pc' = "attempt" /\ mem' = WithAttempt(mem)
        /\ UNCHANGED <<held, order, cur, todo>>
    BY <1>4, SavedInMemory DEF CountAttempt
  <2>2. mem'.positions = mem.positions
    BY <1>a, <2>1, PositionsOfOperators
  <2>3. Exposed' = Exposed /\ Buying' = Buying /\ SoldIsGone' /\ Unseen' = Unseen
    BY <2>1, <2>2, SameExposure DEF HeldInv, Unseen
  <2>4. ASSUME ~misread'  PROVE ExposureBounded'
    <3>1. /\ Cardinality(Exposed) <= MaxConcurrentPositions + Slack
          /\ Cardinality(Unseen) <= Slack /\ Unseen \cap todo = {}
          /\ Buying \cap mem.positions = {}
          /\ cur \notin mem.positions \cup Exposed /\ cur \notin todo
          /\ Cardinality(mem.positions) < MaxConcurrentPositions
      BY <1>m, <2>1, <2>4 DEF HeldInv, ExposureBounded, Running, Judged
    <3>2. /\ Cardinality(Exposed)' <= MaxConcurrentPositions + Slack'
          /\ Cardinality(Unseen)' <= Slack'
      BY <1>0, <2>3, <3>1, ExposureShrinks
    <3>. QED BY <2>1, <2>2, <2>3, <3>1, <3>2 DEF ExposureBounded, Judged
  <2>. QED BY <2>3, <2>4 DEF HeldInv
<1>5. CASE PlaceBracket
  <2>1. /\ pc = "attempt" /\ pc' = "ordered" /\ order' = [order EXCEPT ![cur] = "buying"]
        /\ UNCHANGED <<held, mem, cur, todo>>
    BY <1>5 DEF PlaceBracket
  <2>2. /\ order'[cur] = "buying"
        /\ \A s \in Symbols \ {cur} : order'[s] = order[s]
    BY <2>1 DEF TypeOK
  <2>3. Buying' \subseteq Buying \cup {cur} /\ Exposed' \subseteq Exposed \cup {cur}
    BY <2>1, <2>2 DEF Exposed, Buying
  <2>4. ASSUME ~misread'  PROVE ExposureBounded'
    <3>1. /\ Cardinality(Unseen) <= Slack /\ Unseen \cap todo = {}
          /\ Buying \cap mem.positions = {}
          /\ cur \notin mem.positions \cup Exposed /\ cur \notin todo
          /\ Cardinality(mem.positions) < MaxConcurrentPositions
      BY <1>m, <2>1, <2>4 DEF HeldInv, ExposureBounded, Running, Judged
    <3>2. Unseen = Exposed \ mem.positions
      BY <2>1 DEF Unseen
    <3>3. Unseen' \subseteq Unseen
      BY <2>1, <2>3, <3>2 DEF Unseen
    <3>4. Cardinality(Unseen)' <= Slack'
      BY <1>0, <3>1, <3>3, ExposureShrinks
    <3>5. Cardinality(Exposed)' <= MaxConcurrentPositions + Slack'
      <4>1. Exposed' \in SUBSET (mem.positions \cup Unseen \cup {cur})
        BY <2>3, <3>2
      <4>2. /\ Slack \in Nat /\ Slack' \in Nat /\ Slack <= Slack'
            /\ MaxConcurrentPositions \in Nat
        BY <1>0, SlackGrows, LimitsAssumption
      <4>3. /\ MaxConcurrentPositions + Slack' \in Nat
            /\ MaxConcurrentPositions + Slack <= MaxConcurrentPositions + Slack'
        BY <4>2, BoundGrows, Zenon
      <4>. QED BY <3>1, <4>1, <4>2, <4>3, ExposureIsFinite, BothAreWithin, Zenon
    <3>. QED BY <2>1, <2>3, <3>1, <3>3, <3>4, <3>5 DEF ExposureBounded, Judged, Exposed
  <2>5. SoldIsGone'
    BY <2>1, <2>2 DEF HeldInv, SoldIsGone
  <2>. QED BY <2>4, <2>5 DEF HeldInv
\* The wait for the BUY ends: it is recorded, or nothing of it is left.
<1>b. ASSUME pc = "ordered", pc' = "turn", order' = order, held' \subseteq held,
             todo' = todo, order[cur] # "buying",
             \/ mem'.positions = mem.positions \cup {cur}
             \/ /\ mem'.positions = mem.positions
                /\ order[cur] # "bought" \/ cur \notin held'
      PROVE  HeldInv'
  <2>1. SoldIsGone' /\ Buying' = Buying /\ Exposed' \subseteq Exposed
    BY <1>b DEF HeldInv, SoldIsGone, Exposed, Buying
  <2>2. ASSUME ~misread'  PROVE ExposureBounded'
    <3>1. ExposureBounded
      BY <1>m, <2>2 DEF HeldInv
    <3>2. order[cur] # "bought" => cur \notin held
      BY <1>b, <3>1 DEF ExposureBounded
    <3>3. cur \notin Buying
      BY <1>b DEF Buying
    <3>4. Unseen' \subseteq Unseen
      <4>1. cur \in mem'.positions \/ cur \notin Exposed'
        BY <1>b, <2>1, <3>2, <3>3 DEF Exposed
      <4>. QED BY <1>b, <2>1, <4>1 DEF Unseen
    <3>5. Buying' \cap mem'.positions = {}
      BY <1>b, <2>1, <3>1, <3>3 DEF ExposureBounded, Running
    <3>6. Running /\ ~Judged'
      BY <1>b DEF Running, Judged
    <3>. QED BY <1>0, <1>b, <2>1, <3>1, <3>4, <3>5, <3>6, NothingAdded
  <2>. QED BY <2>1, <2>2 DEF HeldInv
<1>6. CASE RecordEntry
  <2>1. mem' = WithPositions(mem, {cur}) /\ pc = "ordered" /\ order[cur] = "bought"
    BY <1>6, SavedInMemory DEF RecordEntry
  <2>2. mem'.positions = mem.positions \cup {cur}
    BY <1>a, <2>1, PositionsOfOperators
  <2>. QED BY <1>6, <2>1, <2>2, <1>b DEF RecordEntry
<1>7. CASE FlattenEntry
  BY <1>7, <1>b DEF FlattenEntry
<1>8. CASE EntryNotFilled
  BY <1>8, <1>b DEF EntryNotFilled
<1>9. CASE AbortEntry
  <2>1. /\ pc = "ordered" /\ pc' = "turn"
        /\ UNCHANGED <<held, order, mem, todo, cur>>
    BY <1>9 DEF AbortEntry
  <2>2. Exposed' = Exposed /\ Buying' = Buying /\ SoldIsGone'
    BY <2>1, SameExposure DEF HeldInv
  <2>3. ASSUME ~misread'  PROVE ExposureBounded'
    <3>1. /\ Cardinality(Exposed) <= MaxConcurrentPositions + Slack
          /\ Cardinality(Unseen) <= Slack /\ Unseen \cap todo = {}
          /\ Buying \cap mem.positions = {} /\ cur \notin todo
      BY <1>m, <2>1, <2>3 DEF HeldInv, ExposureBounded, Running
    <3>2. Cardinality(Exposed)' <= MaxConcurrentPositions + Slack'
      BY <1>0, <2>2, <3>1, ExposureShrinks
    <3>3. Unseen' \in SUBSET (Unseen \cup {cur})
      BY <2>1, <2>2 DEF Unseen
    <3>4. Cardinality(Unseen)' <= Slack'
      BY <1>0, <1>9, <3>1, <3>3, ExposureIsFinite, SlackGrows, OneMoreIsWithin, Zenon
    <3>. QED BY <2>1, <2>2, <3>1, <3>2, <3>3, <3>4 DEF ExposureBounded, Judged
  <2>. QED BY <2>2, <2>3 DEF HeldInv
<1>. QED BY <1>1, <1>2, <1>3, <1>4, <1>5, <1>6, <1>7, <1>8, <1>9 DEF Entry

\* An exit takes a symbol out of memory when it is held no more.
LEMMA ExitKeepsHeld == TypeOK /\ HeldInv /\ Exit => HeldInv'
<1>. SUFFICES ASSUME TypeOK, HeldInv, Exit  PROVE HeldInv'
  OBVIOUS
<1>. USE DEF brokerVars, storeVars, turnVars
<1>0. [Next]_vars
  BY DEF Next
<1>m. ~misread' => ~misread
  BY <1>0, NothingForgotten
<1>1. ASSUME NEW s \in Symbols, CloseOnRestingFill(s)  PROVE HeldInv'
  <2>1. pc = "turn" /\ s \in mem.positions /\ Close(s) /\ todo' \subseteq todo
        /\ UNCHANGED <<held, order>>
    BY <1>1 DEF CloseOnRestingFill, TurnOf
  <2>2. ~misread' => s \notin held
    BY <1>1, Zenon DEF CloseOnRestingFill
  <2>3. ~misread' => s \notin Buying
    BY <1>m, <2>1 DEF HeldInv, ExposureBounded, Running
  <2>. QED BY <1>0, <2>1, <2>2, <2>3, CloseKeepsHeld DEF Exposed, Running
<1>2. ASSUME NEW s \in Symbols, KeepPosition(s)  PROVE HeldInv'
  <2>1. mem' = mem
    BY <1>2, SavedInMemory DEF KeepPosition
  <2>. QED BY <1>0, <1>2, <2>1, BrokerUntouched DEF KeepPosition, TurnOf, Running, Judged
<1>3. ASSUME NEW s \in Symbols, BeginMarketExit(s)  PROVE HeldInv'
  <2>1. /\ pc = "turn" /\ pc' = "selling" /\ order' = [order EXCEPT ![s] = "selling"]
        /\ todo' \subseteq todo /\ UNCHANGED <<held, mem>>
    BY <1>3 DEF BeginMarketExit, TurnOf
  <2>2. /\ order'[s] = "selling"
        /\ \A t \in Symbols \ {s} : order'[t] = order[t]
    BY <2>1 DEF TypeOK
  <2>3. SoldIsGone' /\ Buying' \subseteq Buying /\ Exposed' \subseteq Exposed
    BY <2>1, <2>2 DEF HeldInv, SoldIsGone, Exposed, Buying
  <2>4. ASSUME ~misread'  PROVE ExposureBounded'
    <3>1. ExposureBounded
      BY <1>m, <2>4 DEF HeldInv
    <3>2. Unseen' \subseteq Unseen /\ Running /\ ~Judged'
      BY <2>1, <2>3 DEF Unseen, Running, Judged
    <3>3. Buying' \cap mem'.positions = {}
      BY <2>1, <2>3, <3>1, <3>2 DEF ExposureBounded
    <3>. QED BY <1>0, <2>1, <2>3, <3>1, <3>2, <3>3, NothingAdded
  <2>. QED BY <2>3, <2>4 DEF HeldInv
<1>4. CASE CloseOnMarketExit
  <2>1. cur \in Symbols /\ cur \notin Exposed
    BY <1>4 DEF CloseOnMarketExit, HeldInv, SoldIsGone, Exposed, Buying, TypeOK
  <2>. QED BY <1>0, <1>4, <2>1, CloseKeepsHeld DEF CloseOnMarketExit, Running
<1>5. CASE MarketExitFails \/ AbortExit \/ Journal \/ JournalFails
  BY <1>0, <1>5, BrokerUntouched
     DEF MarketExitFails, AbortExit, Journal, JournalFails, Running, Judged
<1>. QED BY <1>1, <1>2, <1>3, <1>4, <1>5 DEF Exit

\* Every step keeps what is held or being bought within the limit.
LEMMA StepKeepsHeld == TypeOK /\ HeldInv /\ [Next]_vars => HeldInv'
<1>. SUFFICES ASSUME TypeOK, HeldInv, [Next]_vars  PROVE HeldInv'
  OBVIOUS
<1>. USE DEF brokerVars, storeVars, turnVars
<1>1. CASE Sync
  <2>1. pc = "idle" /\ pc' = "turn" /\ UNCHANGED <<held, order, misread>>
    BY <1>1 DEF Sync
  <2>2. Exposed' = Exposed /\ Buying' = Buying /\ SoldIsGone'
    BY <2>1, SameExposure DEF HeldInv
  <2>3. Buying = {} /\ Exposed = held
    BY <1>1 DEF Sync, InFlight, Buying, Exposed
  <2>4. held \subseteq mem'.positions
    <3>1. CASE held = {}
      BY <3>1
    <3>2. CASE held # {}
      <4>1. mem' = WithPositions(mem, held)
        BY <1>1, <3>2, SavedInMemory DEF Sync
      <4>2. mem'.positions = mem.positions \cup held
        BY <4>1, PositionsOfOperators DEF TypeOK
      <4>. QED BY <4>2
    <3>. QED BY <3>1, <3>2
  <2>5. Unseen' = {}
    BY <2>2, <2>3, <2>4 DEF Unseen
  <2>6. ASSUME ~misread'  PROVE ExposureBounded'
    <3>1. Cardinality(Exposed) <= MaxConcurrentPositions + Slack
      BY <2>1, <2>6 DEF HeldInv, ExposureBounded
    <3>2. Cardinality(Exposed)' <= MaxConcurrentPositions + Slack'
      BY <2>2, <3>1, ExposureShrinks
    <3>3. Cardinality(Unseen)' <= Slack'
      <4>1. Cardinality(Unseen)' = 0
        BY <2>5, FS_EmptySet, Zenon
      <4>. QED BY <4>1, SlackGrows
    <3>. QED BY <2>1, <2>2, <2>3, <2>5, <3>2, <3>3 DEF ExposureBounded, Judged
  <2>. QED BY <2>2, <2>6 DEF HeldInv
<1>2. CASE EndCycle \/ Crash \/ Restart \/ NewDay
  BY <1>2, BrokerUntouched DEF EndCycle, Crash, Restart, NewDay, Running, Judged
<1>3. CASE UNCHANGED vars
  BY <1>3 DEF vars, HeldInv, SoldIsGone, ExposureBounded, Exposed, Buying, Unseen, Slack,
     Running, Judged, faultVars
<1>. QED BY <1>1, <1>2, <1>3, BrokerKeepsHeld, EntryKeepsHeld, ExitKeepsHeld DEF Next

\* HeldWithinLimit: _process_entry_async judges MAX_CONCURRENT_POSITIONS by the
\* positions in memory, and sync_with_broker_async adopts what the account
\* holds before the next cycle judges it, so the limit holds for the account
\* through crashes, restarts and the loss of the file; a BUY that an exception
\* left at the broker is counted from the next cycle on.
THEOREM HeldLimitHolds == Spec => []HeldWithinLimit
<1>1. Init => HeldInv
  <2>. SUFFICES ASSUME Init  PROVE HeldInv
    OBVIOUS
  <2>1. Exposed = {} /\ SoldIsGone /\ pc = "idle" /\ occurred = {}
    BY DEF Init, Exposed, Buying, SoldIsGone
  <2>2. Cardinality(Exposed) <= MaxConcurrentPositions + Slack
    <3>1. Cardinality(Exposed) = 0 /\ Slack = 0
      BY <2>1, FS_EmptySet DEF Slack
    <3>. QED BY <3>1, LimitsAssumption
  <2>. QED BY <2>1, <2>2 DEF HeldInv, ExposureBounded, Running, Judged
<1>2. TypeOK /\ HeldInv => HeldWithinLimit
  <2>. SUFFICES ASSUME TypeOK, HeldInv, ~misread
                PROVE  Cardinality(held) <= MaxConcurrentPositions + Slack
    BY DEF HeldWithinLimit, Slack
  <2>1. IsFiniteSet(Exposed) /\ held \in SUBSET Exposed
    BY ExposureIsFinite DEF Exposed
  <2>2. Cardinality(Exposed) <= MaxConcurrentPositions + Slack
    BY DEF HeldInv, ExposureBounded
  <2>3. /\ MaxConcurrentPositions + Slack \in Nat
        /\ MaxConcurrentPositions + Slack <= MaxConcurrentPositions + Slack
    BY LimitsAssumption, BoundsAssumption DEF Slack, TypeOK
  <2>. QED BY <2>1, <2>2, <2>3, SmallerIsWithin, Zenon
<1>. QED BY <1>1, <1>2, TypeCorrect, StepKeepsHeld, PTL DEF Spec
=============================================================================
