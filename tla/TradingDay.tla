----------------------------- MODULE TradingDay -----------------------------
(***************************************************************************)
(* The limits a trading day is run under, over all symbols: at most so     *)
(* many positions at once, so many entry orders and so much realised loss  *)
(* per day, no symbol bought again on the day it was closed.  They are     *)
(* judged from what PositionManager remembers in positions.json and        *)
(* TradeJournal in its CSV file, so what matters is the order in which the *)
(* broker is told, memory changes and files are written, and what a crash  *)
(* or an exception leaves behind.                                          *)
(*                                                                         *)
(* How an order is placed, repriced and protected is in BracketOrders;     *)
(* here an order is answered or not.  Prices are left out except for the   *)
(* one bit the loss limit needs: a closed trade made a loss or it did not. *)
(***************************************************************************)
EXTENDS Integers, FiniteSets

CONSTANTS
    Symbols,                 \* symbols the bot may trade
    MaxConcurrentPositions,  \* MAX_CONCURRENT_POSITIONS
    MaxDailyEntryOrders,     \* MAX_DAILY_ENTRY_ORDERS
    MaxDailyLosses,          \* losing trades that exhaust MAX_DAILY_LOSS_PCT
    Faults,                  \* the faults that may happen, see AllFaults
    MaxFaults,               \* bound: faults
    MaxLosses,               \* bound: losing trades per day
    LastDay                  \* bound: trading days

(***************************************************************************)
(*   Crash         the process ends between two steps                      *)
(*   SaveFails     _save catches an OSError: positions.json stays old      *)
(*   FileLost      _load cannot read positions.json and sets it aside      *)
(*   JournalFails  the exchange rate or the CSV row raises an exception    *)
(*   EntryAborted  the turn ends by an exception after the BUY was sent    *)
(*   ExitAborted   the turn ends by an exception after the SELL was sent   *)
(***************************************************************************)
AllFaults == {"Crash", "SaveFails", "FileLost", "JournalFails",
              "EntryAborted", "ExitAborted"}

ASSUME LimitsAssumption ==
    /\ MaxConcurrentPositions \in Nat
    /\ MaxDailyEntryOrders \in Nat
    /\ MaxDailyLosses \in Nat
ASSUME SymbolsAssumption == IsFiniteSet(Symbols)
ASSUME FaultsAssumption == Faults \subseteq AllFaults
ASSUME BoundsAssumption ==
    MaxFaults \in Nat /\ MaxLosses \in Nat /\ LastDay \in Nat \ {0}

Days == 1..LastDay

VARIABLES
    day,        \* the trading day (US Eastern)
    \* the broker
    held,       \* symbols the account holds
    order,      \* the latest market order of a symbol
    exitFill,   \* symbols of which ib.trades() shows a filled STP or LMT
    \* PositionManager: memory and positions.json
    mem, file,
    confirmed,  \* _broker_confirmed_symbols
    \* TradeJournal
    lossRows,   \* today's losing rows of the CSV file
    \* the cycle
    pc, todo, cur,
    atLoss,     \* the trade being closed made a loss
    \* history
    placed,     \* entry orders sent today
    closed,     \* symbols closed today
    losses,     \* losing trades closed today
    misread,    \* an old fill was taken for the exit of a held position
    faults,     \* number of faults
    occurred    \* kinds of fault that happened

brokerVars  == <<held, order, exitFill>>
storeVars   == <<mem, file, confirmed>>
dayVars     == <<lossRows, placed, closed, losses>>
faultVars   == <<faults, occurred>>
turnVars    == <<todo, cur, atLoss, misread>>
vars == <<day, brokerVars, storeVars, dayVars, pc, turnVars, faultVars>>

OrderStatus == {"none", "buying", "bought", "selling", "sold", "dead"}
InFlight    == {"buying", "selling"}

\* What positions.json holds, as far as the limits depend on it.  Day 0 stands
\* for "never".
State == [positions : SUBSET Symbols,
          exits     : [Symbols -> 0..LastDay],
          entryDay  : 0..LastDay,
          entries   : Nat]

Empty == [positions |-> {}, exits |-> [s \in Symbols |-> 0],
          entryDay |-> 0, entries |-> 0]

TypeOK ==
    /\ day \in Days
    /\ held \subseteq Symbols
    /\ order \in [Symbols -> OrderStatus]
    /\ exitFill \subseteq Symbols
    /\ mem \in State /\ file \in State
    /\ confirmed \subseteq Symbols
    /\ lossRows \in Nat /\ placed \in Nat /\ losses \in Nat
    /\ closed \subseteq Symbols
    /\ pc \in {"down", "idle", "turn", "entry", "attempt", "ordered", "selling", "journal"}
    /\ todo \subseteq Symbols
    /\ cur \in Symbols
    /\ atLoss \in BOOLEAN /\ misread \in BOOLEAN
    /\ faults \in 0..MaxFaults
    /\ occurred \subseteq Faults

Init ==
    /\ day = 1
    /\ held = {} /\ exitFill = {} /\ confirmed = {}
    /\ order = [s \in Symbols |-> "none"]
    /\ mem = Empty /\ file = Empty
    /\ lossRows = 0 /\ placed = 0 /\ losses = 0 /\ closed = {}
    /\ pc = "idle" /\ todo = {}
    /\ cur \in Symbols
    /\ atLoss = FALSE /\ misread = FALSE
    /\ faults = 0 /\ occurred = {}

-----------------------------------------------------------------------------
(* PositionManager *)

\* count_entry_orders_today
EntriesToday(st) == IF st.entryDay = day THEN st.entries ELSE 0

\* is_in_cooldown
InCooldown(st, s) == st.exits[s] = day

\* Mutant: the day is taken in UTC, where it may already be tomorrow.
WithAttemptInUTC(st) == [st EXCEPT !.entryDay = day + 1, !.entries = 1]

\* record_entry_order_attempt
WithAttempt(st) ==
    [positions |-> st.positions, exits |-> st.exits,
     entryDay |-> day, entries |-> EntriesToday(st) + 1]

\* open_position, and what the synchronisation adopts
WithPositions(st, S) == [st EXCEPT !.positions = @ \cup S]

\* Mutant: closing a position does not start the cooldown.
WithClosedNoCooldown(st, s) == [st EXCEPT !.positions = @ \ {s}]

\* close_position starts the cooldown
WithClosed(st, s) == [st EXCEPT !.positions = @ \ {s}, !.exits[s] = day]

\* _load keeps the cooldowns and the count of today only
Loaded(st) ==
    [st EXCEPT !.exits = [s \in Symbols |-> IF st.exits[s] = day THEN day ELSE 0],
               !.entryDay = IF st.entryDay = day THEN day ELSE 0,
               !.entries = EntriesToday(st)]

Fault(kind) ==
    /\ kind \in Faults /\ faults < MaxFaults
    /\ faults' = faults + 1
    /\ occurred' = occurred \cup {kind}

\* _save replaces the file, or logs the OSError and leaves it.
Saved(st) ==
    /\ mem' = st
    /\ \/ file' = st /\ UNCHANGED faultVars
       \/ file' = file /\ Fault("SaveFails")

-----------------------------------------------------------------------------
(***************************************************************************)
(* Mutants: the handlers as a plausible slip would have them.  No action   *)
(* uses them; each shows a property fail when it stands in for the handler *)
(* it is named after.                                                      *)
(***************************************************************************)

\* The attempt is counted in memory and reaches the file with the next save.
CountAttemptUnsaved ==
    /\ pc = "entry"
    /\ lossRows < MaxDailyLosses
    /\ mem' = WithAttempt(mem)
    /\ pc' = "attempt"
    /\ UNCHANGED <<day, brokerVars, file, confirmed, dayVars, turnVars, faultVars>>

\* The loss limit is not judged.
CountAttemptUnlimited ==
    /\ pc = "entry"
    /\ Saved(WithAttempt(mem))
    /\ pc' = "attempt"
    /\ UNCHANGED <<day, brokerVars, confirmed, dayVars, turnVars>>

\* The synchronisation only confirms, it adopts nothing.
SyncWithoutAdoption ==
    /\ pc = "idle"
    /\ \A s \in Symbols : order[s] \notin InFlight
    /\ confirmed' = held
    /\ todo' = Symbols
    /\ pc' = "turn"
    /\ UNCHANGED <<day, brokerVars, mem, file, dayVars, cur, atLoss, misread, faultVars>>

-----------------------------------------------------------------------------
(* The broker *)

BuyFills(s) ==
    /\ order[s] = "buying"
    /\ order' = [order EXCEPT ![s] = "bought"]
    /\ held' = held \cup {s}
    /\ UNCHANGED <<day, exitFill, storeVars, dayVars, pc, turnVars, faultVars>>

SellFills(s) ==
    /\ order[s] = "selling" /\ s \in held
    /\ order' = [order EXCEPT ![s] = "sold"]
    /\ held' = held \ {s}
    /\ UNCHANGED <<day, exitFill, storeVars, dayVars, pc, turnVars, faultVars>>

OrderDies(s) ==
    /\ order[s] \in InFlight
    /\ order' = [order EXCEPT ![s] = "dead"]
    /\ UNCHANGED <<day, held, exitFill, storeVars, dayVars, pc, turnVars, faultVars>>

\* The stop-loss or take-profit of a held position fills.
RestingOrderFills(s) ==
    /\ s \in held /\ order[s] # "selling"
    /\ held' = held \ {s}
    /\ exitFill' = exitFill \cup {s}
    /\ UNCHANGED <<day, order, storeVars, dayVars, pc, turnVars, faultVars>>

-----------------------------------------------------------------------------
(* The cycle: run_watchlist_cycle_async *)

\* sync_with_broker_async.  Every order has been answered by the next cycle.
\* The watchlist is any set of symbols: one without a signal skips its turn.
Sync ==
    /\ pc = "idle"
    /\ \A s \in Symbols : order[s] \notin InFlight
    /\ confirmed' = held
    /\ IF held = {} THEN UNCHANGED <<mem, file, faultVars>>
                    ELSE Saved(WithPositions(mem, held))
    /\ todo' = Symbols
    /\ pc' = "turn"
    /\ UNCHANGED <<day, brokerVars, dayVars, cur, atLoss, misread>>

EndCycle ==
    /\ pc = "turn" /\ todo = {}
    /\ pc' = "idle"
    /\ UNCHANGED <<day, brokerVars, storeVars, dayVars, turnVars, faultVars>>

\* It is the turn of a symbol that is still to be processed.
TurnOf(s) ==
    /\ pc = "turn" /\ s \in todo
    /\ todo' = todo \ {s}
    /\ cur' = s

-----------------------------------------------------------------------------
(* _process_entry_async *)

SkipEntry(s) ==
    /\ TurnOf(s) /\ s \notin mem.positions
    /\ UNCHANGED <<day, brokerVars, storeVars, dayVars, pc, atLoss, misread, faultVars>>

\* The three limits that are judged before any data is fetched.
BeginEntry(s) ==
    /\ TurnOf(s) /\ s \notin mem.positions
    /\ Cardinality(mem.positions) < MaxConcurrentPositions
    /\ EntriesToday(mem) < MaxDailyEntryOrders
    /\ ~InCooldown(mem, s)
    /\ pc' = "entry"
    /\ UNCHANGED <<day, brokerVars, storeVars, dayVars, atLoss, misread, faultVars>>

\* No signal, no fresh price, the loss limit is reached, nothing to buy.
DropEntry ==
    /\ pc = "entry"
    /\ pc' = "turn"
    /\ UNCHANGED <<day, brokerVars, storeVars, dayVars, turnVars, faultVars>>

\* The loss limit is judged from the journal; the attempt is saved before the
\* order goes out.
CountAttempt ==
    /\ pc = "entry"
    /\ lossRows < MaxDailyLosses
    /\ Saved(WithAttempt(mem))
    /\ pc' = "attempt"
    /\ UNCHANGED <<day, brokerVars, confirmed, dayVars, turnVars>>

PlaceBracket ==
    /\ pc = "attempt"
    /\ order' = [order EXCEPT ![cur] = "buying"]
    /\ placed' = placed + 1
    /\ pc' = "ordered"
    /\ UNCHANGED <<day, held, exitFill, storeVars, lossRows, closed, losses>>
    /\ UNCHANGED <<turnVars, faultVars>>

\* clamp_buy_quantity or validate_resting_order_prices refuses the order.
RefuseOrder ==
    /\ pc = "attempt"
    /\ pc' = "turn"
    /\ UNCHANGED <<day, brokerVars, storeVars, dayVars, turnVars, faultVars>>

RecordEntry ==
    /\ pc = "ordered" /\ order[cur] = "bought"
    /\ Saved(WithPositions(mem, {cur}))
    /\ pc' = "turn"
    /\ UNCHANGED <<day, brokerVars, confirmed, dayVars, turnVars>>

\* The children did not stand and the position was sold again at once.
\* Nothing is recorded: no position, no cooldown, no row of the journal.
FlattenEntry ==
    /\ pc = "ordered" /\ order[cur] = "bought"
    /\ held' = held \ {cur}
    /\ pc' = "turn"
    /\ UNCHANGED <<day, order, exitFill, storeVars, dayVars, turnVars, faultVars>>

\* OrderNotFilledError
EntryNotFilled ==
    /\ pc = "ordered" /\ order[cur] = "dead"
    /\ pc' = "turn"
    /\ UNCHANGED <<day, brokerVars, storeVars, dayVars, turnVars, faultVars>>

\* The wait times out, the flattening sale fails, the connection breaks.
AbortEntry ==
    /\ pc = "ordered"
    /\ Fault("EntryAborted")
    /\ pc' = "turn"
    /\ UNCHANGED <<day, brokerVars, storeVars, dayVars, turnVars>>

-----------------------------------------------------------------------------
(* _process_exit_async *)

\* close_position, up to the await of _record_closed_trade.
Close(s) ==
    /\ Saved(WithClosed(mem, s))
    /\ closed' = closed \cup {s}
    /\ atLoss' \in (IF losses < MaxLosses THEN BOOLEAN ELSE {FALSE})
    /\ losses' = IF atLoss' THEN losses + 1 ELSE losses
    /\ pc' = "journal"

CloseOnRestingFill(s) ==
    /\ TurnOf(s) /\ s \in mem.positions
    /\ s \in exitFill
    /\ Close(s)
    /\ misread' = (misread \/ s \in held)
    /\ UNCHANGED <<day, brokerVars, confirmed, lossRows, placed>>

\* No exit signal, or not confirmed.  A new high of the price is saved.
KeepPosition(s) ==
    /\ TurnOf(s) /\ s \in mem.positions /\ s \notin exitFill
    /\ Saved(mem) \/ UNCHANGED <<mem, file, faultVars>>
    /\ UNCHANGED <<day, brokerVars, confirmed, dayVars, pc, atLoss, misread>>

BeginMarketExit(s) ==
    /\ TurnOf(s) /\ s \in mem.positions /\ s \notin exitFill
    /\ s \in confirmed
    /\ order' = [order EXCEPT ![s] = "selling"]
    /\ pc' = "selling"
    /\ UNCHANGED <<day, held, exitFill, storeVars, dayVars, atLoss, misread, faultVars>>

CloseOnMarketExit ==
    /\ pc = "selling" /\ order[cur] = "sold"
    /\ Close(cur)
    /\ UNCHANGED <<day, brokerVars, confirmed, lossRows, placed, todo, cur, misread>>

MarketExitFails ==
    /\ pc = "selling" /\ order[cur] = "dead"
    /\ pc' = "turn"
    /\ UNCHANGED <<day, brokerVars, storeVars, dayVars, turnVars, faultVars>>

AbortExit ==
    /\ pc = "selling"
    /\ Fault("ExitAborted")
    /\ pc' = "turn"
    /\ UNCHANGED <<day, brokerVars, storeVars, dayVars, turnVars>>

\* record_trade appends the row.
Journal ==
    /\ pc = "journal"
    /\ lossRows' = IF atLoss THEN lossRows + 1 ELSE lossRows
    /\ pc' = "turn"
    /\ UNCHANGED <<day, brokerVars, storeVars, placed, closed, losses>>
    /\ UNCHANGED <<turnVars, faultVars>>

JournalFails ==
    /\ pc = "journal"
    /\ Fault("JournalFails")
    /\ pc' = "turn"
    /\ UNCHANGED <<day, brokerVars, storeVars, dayVars, turnVars>>

-----------------------------------------------------------------------------
(* The process and the calendar *)

Crash ==
    /\ pc # "down"
    /\ Fault("Crash")
    /\ pc' = "down"
    /\ mem' = Empty /\ confirmed' = {} /\ todo' = {}
    /\ UNCHANGED <<day, brokerVars, file, dayVars, cur, atLoss, misread>>

\* PositionManager.__init__ and _load, _quarantine_state_file.
Restart ==
    /\ pc = "down"
    /\ pc' = "idle"
    /\ \/ mem' = Loaded(file) /\ UNCHANGED <<file, faultVars>>
       \/ mem' = Empty /\ file' = Empty /\ Fault("FileLost")
    /\ UNCHANGED <<day, brokerVars, confirmed, dayVars, turnVars>>

\* The session ends (after_close.sh stops the process) or is carried over
\* midnight.  A new session shows only its own day's fills.
NewDay ==
    /\ pc \in {"idle", "down"} /\ day < LastDay
    /\ \A s \in Symbols : order[s] \notin InFlight
    /\ day' = day + 1
    /\ \/ /\ pc' = "down" /\ exitFill' = {}
          /\ mem' = Empty /\ confirmed' = {}
       \/ pc = "idle" /\ UNCHANGED <<pc, exitFill, mem, confirmed>>
    /\ lossRows' = 0 /\ placed' = 0 /\ losses' = 0 /\ closed' = {}
    /\ UNCHANGED <<held, order, file, turnVars, faultVars>>

-----------------------------------------------------------------------------
Broker ==
    \E s \in Symbols :
        BuyFills(s) \/ SellFills(s) \/ OrderDies(s) \/ RestingOrderFills(s)

Entry ==
    \/ \E s \in Symbols : SkipEntry(s) \/ BeginEntry(s)
    \/ DropEntry \/ CountAttempt \/ PlaceBracket \/ RefuseOrder
    \/ RecordEntry \/ FlattenEntry \/ EntryNotFilled \/ AbortEntry

Exit ==
    \/ \E s \in Symbols :
          CloseOnRestingFill(s) \/ KeepPosition(s) \/ BeginMarketExit(s)
    \/ CloseOnMarketExit \/ MarketExitFails \/ AbortExit
    \/ Journal \/ JournalFails

Next ==
    \/ Broker \/ Sync \/ EndCycle \/ Entry \/ Exit
    \/ Crash \/ Restart \/ NewDay

Spec == Init /\ [][Next]_vars

-----------------------------------------------------------------------------
(* Properties *)

\* positions.json has been written and read whenever the code asked for it.
FileIntact == occurred \cap {"SaveFails", "FileLost"} = {}

\* No day sees more entry orders than MAX_DAILY_ENTRY_ORDERS, through crashes,
\* restarts and aborted turns, as long as the file is intact; once it was not,
\* each fault hides at most one more day's worth of them.
EntriesWithinLimit ==
    placed <= MaxDailyEntryOrders * (1 + (IF FileIntact THEN 0 ELSE faults))

\* The limit itself, whatever happens to the file.
EntriesWithinLimitAlways == placed <= MaxDailyEntryOrders

\* The account never holds more symbols than MAX_CONCURRENT_POSITIONS, through
\* crashes and the loss of the file, unless find_filled_resting_exit took an
\* old fill for new; a turn aborted while its BUY was at the broker may cost
\* one symbol more.
HeldWithinLimit ==
    ~misread => Cardinality(held) <= MaxConcurrentPositions
                    + (IF "EntryAborted" \in occurred THEN faults ELSE 0)

\* No symbol is bought on the day its position was closed.
NoSameDayReentry ==
    [][pc = "attempt" /\ pc' = "ordered" /\ FileIntact => cur \notin closed]_vars

\* An entry goes out only while the realised losses are below the limit; each
\* crash or failed row may hide one of them from the journal.
EntryBelowLossLimit ==
    [][pc = "attempt" /\ pc' = "ordered" => losses < MaxDailyLosses + faults]_vars
=============================================================================
