---------------------------- MODULE BracketOrders ----------------------------
(***************************************************************************)
(* The life of one symbol's position: the bracket order that opens it, the *)
(* resting stop-loss (STP) and take-profit (LMT) that protect it at the    *)
(* broker, and the bot's polling cycle that records, repairs and closes it.*)
(*                                                                         *)
(* The bot is a single asyncio task.  Between two awaits nothing else runs *)
(* in the process, so one bot action is the code from one await to the     *)
(* next; the broker, a crash or a lost connection may act at every await.  *)
(*                                                                         *)
(* Quantities are counted in lots of the bracket's size: an order fills as *)
(* a whole.  Prices are kept only as far as the question "is this the      *)
(* price that stands on the book" needs them.                              *)
(***************************************************************************)
EXTENDS Integers, FiniteSets

CONSTANTS
    Pairs,       \* identities for pairs of resting orders (STP + LMT)
    Races,       \* the broker races that may happen, see AllRaces
    MaxFaults,   \* bound: crashes and lost connections
    MaxShort,    \* bound: lots the broker lets the account go short
    NoPair       \* no pair of resting orders

(***************************************************************************)
(* Broker behaviour the code has no control over.  Each is a way the world *)
(* can overtake the bot, and each can be switched on by itself:            *)
(*   FillInCycle       a resting order fills while the bot is in a cycle   *)
(*   FillAfterCancel   a resting order fills although its cancellation was *)
(*                     requested                                           *)
(*   FillAfterTimeout  a market order fills after the bot gave up waiting  *)
(*                     and requested its cancellation                      *)
(*   LateFill          an order reported Cancelled fills after the grace   *)
(*                     period of _await_late_fill_async                    *)
(*   SlowCancel        a cancellation is still pending one cycle later     *)
(*   ForgottenFill     a new session does not show an earlier fill, or not *)
(*                     the price it filled at                              *)
(*   Overnight         the process survives the end of the trading day     *)
(***************************************************************************)
AllRaces == {"FillInCycle", "FillAfterCancel", "FillAfterTimeout", "LateFill",
             "SlowCancel", "ForgottenFill", "Overnight"}

ASSUME RacesAssumption == Races \subseteq AllRaces
ASSUME BoundsAssumption == MaxFaults \in Nat /\ MaxShort \in Nat
ASSUME NoPairAssumption == NoPair \notin Pairs

Legs == {"STP", "LMT"}

\* Statuses of a resting order.  "sent" is PendingSubmit, "live" merges
\* PreSubmitted and Submitted, "cancelled" merges Cancelled, ApiCancelled and
\* Inactive; "none" marks an identity that was never used.
LegStatus == {"none", "sent", "live", "pcancel", "filled", "cancelled"}
Working   == {"sent", "live", "pcancel"}     \* _PENDING_CANCEL_STATUSES
Standing  == {"live", "filled"}              \* _LIVE_ORDER_STATUSES

\* Statuses of a market order.  A "ghost" is shown as Cancelled by ib_async
\* while the order is alive at IBKR (Error 10349).
MarketStatus == {"none", "working", "ghost", "pcancel", "filled", "cancelled"}
InFlight     == {"working", "ghost", "pcancel"}

\* Which price a resting order has: the one derived from the reference price
\* of the decision, or the one derived from the real fill of the parent.
Price == {"ref", "fill"}

\* The record in positions.json: no record, a record without resting prices
\* (adopted by sync_with_broker_async), or a record with the prices.
Record == {"absent", "unpriced"} \cup Price

PC == {"down", "idle", "query", "restore", "contract", "process", "cancel", "cancelWait",
       "parentWait", "parentGrace", "reprice", "ensure", "marketWait",
       "marketGrace"}

\* On whose behalf the shared steps (cancel, ensure, market order) run.
Caller == {"restore", "exit", "entry"}

VARIABLES
    \* the broker
    shares,     \* lots held, negative when short
    parent,     \* the bracket's market BUY
    attached,   \* the pair whose parentId is that BUY
    resting,    \* status of each leg of each pair
    px,         \* the price at which a pair stands
    market,     \* the market SELL
    \* what ib.trades() shows in this session
    seenFill,   \* a filled STP or LMT sell order of this symbol
    \* positions.json
    local,      \* the recorded position
    cooldown,   \* closed today, no new entry
    \* the bot's memory
    pc,         \* the await the task is suspended at
    caller,     \* the caller of the current shared step
    pair,       \* the pair _ensure_children_are_live_async watches
    rec,        \* the price the entry is going to record
    confirmed,  \* is_confirmed_by_broker
    snap,       \* what find_resting_exit_protection_async read
    \* history
    faults      \* crashes and lost connections so far

brokerVars  == <<shares, parent, attached, resting, px, market, seenFill>>
storeVars   == <<local, cooldown>>
botVars     == <<pc, caller, pair, rec, confirmed, snap>>
vars        == <<brokerVars, storeVars, botVars, faults>>

TypeOK ==
    /\ shares \in Int
    /\ parent \in MarketStatus
    /\ attached \in Pairs \cup {NoPair}
    /\ resting \in [Pairs -> [Legs -> LegStatus]]
    /\ px \in [Pairs -> Price]
    /\ market \in MarketStatus
    /\ seenFill \in BOOLEAN
    /\ local \in Record
    /\ cooldown \in BOOLEAN
    /\ pc \in PC
    /\ caller \in Caller
    /\ pair \in Pairs \cup {NoPair}
    /\ rec \in Price
    /\ confirmed \in BOOLEAN
    /\ snap \in {"none", "partial"} \cup Price
    /\ faults \in 0..MaxFaults

Init ==
    /\ shares = 0
    /\ parent = "none"
    /\ attached = NoPair
    /\ resting = [k \in Pairs |-> [l \in Legs |-> "none"]]
    /\ px = [k \in Pairs |-> "ref"]
    /\ market = "none"
    /\ seenFill = FALSE
    /\ local = "absent"
    /\ cooldown = FALSE
    /\ pc = "idle"
    /\ caller = "restore"
    /\ pair = NoPair
    /\ rec = "ref"
    /\ confirmed = FALSE
    /\ snap = "none"
    /\ faults = 0

-----------------------------------------------------------------------------
(* Helpers *)

Other(l) == IF l = "STP" THEN "LMT" ELSE "STP"

IsWorking(k) == \E l \in Legs : resting[k][l] \in Working

\* A child order is held by the broker until its parent fills.
Held(k) == attached = k /\ parent \in InFlight

\* No resting sell order is on the book, or on its way to it or off it.
BoardClear == \A k \in Pairs : ~IsWorking(k)

\* cancelOrder: a request; the order works until the broker confirms.
CancelRequested(k) ==
    [l \in Legs |-> IF resting[k][l] \in Working THEN "pcancel" ELSE resting[k][l]]

\* The types of resting order that reqAllOpenOrders shows as live.
LiveLegs == {l \in Legs : \E k \in Pairs : resting[k][l] = "live"}

\* Everything sent has been answered.  A cycle takes 450 seconds and a
\* restart 60, an answer of the broker seconds: an assumption, except for the
\* cancellations that SlowCancel leaves pending.
Settled ==
    /\ parent \notin InFlight /\ market \notin InFlight
    /\ \A k \in Pairs, l \in Legs :
          /\ resting[k][l] # "sent"
          /\ resting[k][l] = "pcancel" => "SlowCancel" \in Races

\* _place_resting_children: a new pair is sent at price p and watched.
PlacePair(p) ==
    \E k \in Pairs :
        /\ ~IsWorking(k)
        /\ resting' = [resting EXCEPT ![k] = [l \in Legs |-> "sent"]]
        /\ px' = [px EXCEPT ![k] = p]
        /\ pair' = k
        /\ attached' = IF attached = k THEN NoPair ELSE attached
        /\ pc' = "ensure"

\* Where a shared step leads when it is done or has failed: the restore loop
\* goes on to the symbol's own turn, anything else ends that turn.
TurnOver(c) == IF c = "restore" THEN "process" ELSE "idle"

\* _restore_resting_exit_orders_async: without recorded prices there is
\* nothing to place.
PlaceRecorded ==
    \/ /\ local \in Price
       /\ PlacePair(local)
    \/ /\ local = "unpriced"
       /\ pc' = TurnOver(caller)
       /\ UNCHANGED <<resting, px, pair, attached>>

\* cancel_bracket_orders_async returns: nothing to cancel, or the poll finds nothing left to cancel.
CancelReturns == pc \in {"cancel", "cancelWait"} /\ BoardClear

\* Both legs of the watched pair are live or filled.
PairStands == \A l \in Legs : resting[pair][l] \in Standing

-----------------------------------------------------------------------------
(***************************************************************************)
(* Mutants: the handlers as a plausible slip would have them.  No action   *)
(* uses them; each shows a property fail when it stands in for the handler *)
(* it is named after.                                                      *)
(***************************************************************************)

\* sync_with_broker_async does not adopt what it does not know.
SyncWithoutAdoption ==
    /\ pc = "idle" /\ Settled
    /\ confirmed' = (shares > 0)
    /\ pc' = IF local = "absent" THEN "process" ELSE "query"
    /\ UNCHANGED <<brokerVars, storeVars, caller, pair, rec, snap, faults>>

\* The set of confirmed symbols is not rebuilt by the synchronisation.
SyncKeepsConfirmed ==
    /\ pc = "idle" /\ Settled
    /\ local' = IF shares > 0 /\ local = "absent" THEN "unpriced" ELSE local
    /\ pc' = IF local' = "absent" THEN "process" ELSE "query"
    /\ UNCHANGED <<brokerVars, cooldown, caller, pair, rec, confirmed, snap, faults>>

\* Book prices are adopted although one leg is missing.
AdoptIncompleteBook ==
    /\ pc = "restore"
    /\ local' = snap
    /\ pc' = "process"
    /\ UNCHANGED <<brokerVars, cooldown, caller, pair, rec, confirmed, snap, faults>>

\* The surviving leg is left in place when the pair is put back.
RestorePartialWithoutCancel ==
    /\ pc = "restore" /\ snap = "partial" /\ ~seenFill /\ confirmed
    /\ PlaceRecorded
    /\ UNCHANGED <<shares, parent, market, seenFill>>
    /\ UNCHANGED <<storeVars, caller, rec, confirmed, snap, faults>>

\* A missing pair is put back whether or not the position still exists (the
\* incident of 2026-08-18 told in _restore_missing_resting_orders_async).
RestoreUnchecked ==
    /\ pc = "restore" /\ snap = "none"
    /\ pc' = "contract"
    /\ UNCHANGED <<brokerVars, storeVars, caller, pair, rec, confirmed, snap, faults>>

\* The market sell does not wait for the cancellation to be confirmed.
SellBeforeCancelled ==
    /\ pc \in {"cancel", "cancelWait"} /\ caller = "exit"
    /\ market' = "working"
    /\ pc' = "marketWait"
    /\ UNCHANGED <<shares, parent, attached, resting, px, seenFill>>
    /\ UNCHANGED <<storeVars, caller, pair, rec, confirmed, snap, faults>>

-----------------------------------------------------------------------------
(* The broker *)

AcceptLeg(k, l) ==
    /\ resting[k][l] = "sent"
    /\ resting' = [resting EXCEPT ![k][l] = "live"]
    /\ UNCHANGED <<shares, parent, attached, px, market, seenFill>>
    /\ UNCHANGED <<storeVars, botVars, faults>>

\* A rejection, an expiry (TIF downgraded to DAY), a cancellation by IBKR or
\* the confirmation of a requested one.  None of them is notified to the bot.
DropLeg(k, l) ==
    /\ resting[k][l] \in Working
    /\ resting' = [resting EXCEPT ![k][l] = "cancelled"]
    /\ UNCHANGED <<shares, parent, attached, px, market, seenFill>>
    /\ UNCHANGED <<storeVars, botVars, faults>>

\* A resting order fills and OCA cancels the other leg of the pair.
FillLeg(k, l) ==
    /\ \/ resting[k][l] = "live"
       \/ resting[k][l] = "pcancel" /\ "FillAfterCancel" \in Races
    /\ ~Held(k)
    /\ pc \in {"idle", "down"} \/ "FillInCycle" \in Races
    /\ shares > -MaxShort
    /\ shares' = shares - 1
    /\ resting' = [resting EXCEPT
          ![k][l] = "filled",
          ![k][Other(l)] = IF @ \in Working THEN "cancelled" ELSE @]
    /\ seenFill' = TRUE
    /\ UNCHANGED <<parent, attached, px, market>>
    /\ UNCHANGED <<storeVars, botVars, faults>>

\* When a market order in status s may still fill.
MayFill(s) ==
    \/ s \in {"working", "ghost"}
    \/ s = "pcancel" /\ "FillAfterTimeout" \in Races

ParentFills ==
    /\ MayFill(parent)
    /\ parent' = "filled"
    /\ shares' = shares + 1
    /\ UNCHANGED <<attached, resting, px, market, seenFill>>
    /\ UNCHANGED <<storeVars, botVars, faults>>

\* The BUY ends without a fill; its children end with it.
ParentDies ==
    /\ parent \in InFlight
    /\ parent' = "cancelled"
    /\ resting' = [k \in Pairs |-> [l \in Legs |->
          IF k = attached /\ resting[k][l] \in Working
          THEN "cancelled" ELSE resting[k][l]]]
    /\ UNCHANGED <<shares, attached, px, market, seenFill>>
    /\ UNCHANGED <<storeVars, botVars, faults>>

ParentGhosts ==
    /\ parent = "working"
    /\ parent' = "ghost"
    /\ UNCHANGED <<shares, attached, resting, px, market, seenFill>>
    /\ UNCHANGED <<storeVars, botVars, faults>>

MarketFills ==
    /\ MayFill(market)
    /\ shares > -MaxShort
    /\ market' = "filled"
    /\ shares' = shares - 1
    /\ UNCHANGED <<parent, attached, resting, px, seenFill>>
    /\ UNCHANGED <<storeVars, botVars, faults>>

MarketDies ==
    /\ market \in InFlight
    /\ market' = "cancelled"
    /\ UNCHANGED <<shares, parent, attached, resting, px, seenFill>>
    /\ UNCHANGED <<storeVars, botVars, faults>>

MarketGhosts ==
    /\ market = "working"
    /\ market' = "ghost"
    /\ UNCHANGED <<shares, parent, attached, resting, px, seenFill>>
    /\ UNCHANGED <<storeVars, botVars, faults>>

Broker ==
    \/ \E k \in Pairs, l \in Legs :
          AcceptLeg(k, l) \/ DropLeg(k, l) \/ FillLeg(k, l)
    \/ ParentFills \/ ParentDies \/ ParentGhosts
    \/ MarketFills \/ MarketDies \/ MarketGhosts

-----------------------------------------------------------------------------
(* The process: crash, restart, lost connection, end of day *)

Crash ==
    /\ pc # "down" /\ faults < MaxFaults
    /\ pc' = "down"
    /\ confirmed' = FALSE
    /\ faults' = faults + 1
    /\ UNCHANGED <<brokerVars, storeVars, caller, pair, rec, snap>>

\* PositionManager._load and a new session: connectAsync fetches the day's
\* completed orders and executions again.
Restart ==
    /\ pc = "down"
    /\ pc' = "idle"
    /\ seenFill' \in {seenFill} \cup
                     (IF "ForgottenFill" \in Races THEN {FALSE} ELSE {})
    /\ UNCHANGED <<shares, parent, attached, resting, px, market>>
    /\ UNCHANGED <<storeVars, caller, pair, rec, confirmed, snap, faults>>

\* A request raises ConnectionError, the modification of a child that has
\* already ended is refused, or a poll runs into its time limit and the
\* cancelOrder that follows raises: the exception ends the symbol's turn and
\* nothing more is sent to the broker.
LoseConnection ==
    /\ pc \notin {"down", "idle"} /\ faults < MaxFaults
    /\ pc' = "idle"
    /\ faults' = faults + 1
    /\ UNCHANGED <<brokerVars, storeVars, caller, pair, rec, confirmed, snap>>

\* An exception for this symbol, or for one in front of it, ends the restore
\* loop; run_watchlist_cycle_async catches it and goes on to the turns.
RestoreLoopFails ==
    /\ \/ pc \in {"query", "restore", "contract"}
       \/ caller = "restore" /\ pc \in {"cancel", "cancelWait", "ensure"}
    /\ faults < MaxFaults
    /\ pc' = "process"
    /\ faults' = faults + 1
    /\ UNCHANGED <<brokerVars, storeVars, caller, pair, rec, confirmed, snap>>

\* The market is closed: after_close.sh stops the bot, a new session starts
\* on the next trading day.  Cooldowns of other days are dropped on load, and
\* a session shows only its own day's fills.
NextDay ==
    /\ pc \in {"idle", "down"} /\ Settled
    /\ cooldown' = FALSE
    /\ \/ /\ pc' = "down"
          /\ seenFill' = FALSE
          /\ confirmed' = FALSE
       \/ /\ "Overnight" \in Races /\ pc = "idle"
          /\ UNCHANGED <<pc, seenFill, confirmed>>
    /\ UNCHANGED <<shares, parent, attached, resting, px, market>>
    /\ UNCHANGED <<local, caller, pair, rec, snap, faults>>

-----------------------------------------------------------------------------
(* The cycle: run_watchlist_cycle_async *)

\* sync_with_broker_async adopts what the broker holds and the bot does not
\* know, and never drops what the broker does not hold.  A short position is
\* not tracked.
Sync ==
    /\ pc = "idle" /\ Settled
    /\ confirmed' = (shares > 0)
    /\ local' = IF shares > 0 /\ local = "absent" THEN "unpriced" ELSE local
    /\ pc' = IF local' = "absent" THEN "process" ELSE "query"
    /\ UNCHANGED <<brokerVars, cooldown, caller, pair, rec, snap, faults>>

\* _restore_missing_resting_orders_async reads the book once for all symbols.
QueryProtection ==
    /\ pc = "query"
    /\ \/ LiveLegs = {} /\ snap' = "none"
       \/ LiveLegs # {} /\ LiveLegs # Legs /\ snap' = "partial"
       \/ /\ LiveLegs = Legs
          /\ \E k \in Pairs : "live" \in {resting[k][l] : l \in Legs} /\ snap' = px[k]
    /\ pc' = "restore"
    /\ caller' = "restore"
    /\ UNCHANGED <<brokerVars, storeVars, pair, rec, confirmed, faults>>

\* Both legs stand: the record takes the prices of the book.
AdoptBookPrices ==
    /\ pc = "restore" /\ snap \in Price
    /\ local' = snap
    /\ pc' = "process"
    /\ UNCHANGED <<brokerVars, cooldown, caller, pair, rec, confirmed, snap, faults>>

\* The protection is missing because the position is gone.
SkipRestore ==
    /\ pc = "restore" /\ snap \notin Price
    /\ seenFill \/ ~confirmed
    /\ pc' = "process"
    /\ UNCHANGED <<brokerVars, storeVars, caller, pair, rec, confirmed, snap, faults>>

RestorePartial ==
    /\ pc = "restore" /\ snap = "partial" /\ ~seenFill /\ confirmed
    /\ pc' = "cancel"
    /\ UNCHANGED <<brokerVars, storeVars, caller, pair, rec, confirmed, snap, faults>>

RestoreMissing ==
    /\ pc = "restore" /\ snap = "none" /\ ~seenFill /\ confirmed
    /\ pc' = "contract"
    /\ UNCHANGED <<brokerVars, storeVars, caller, pair, rec, confirmed, snap, faults>>

\* The contract is looked up (ContractCache, an await when it is not cached)
\* between the checks and the order.
RestoreProtection ==
    /\ pc = "contract"
    /\ PlaceRecorded
    /\ UNCHANGED <<shares, parent, market, seenFill>>
    /\ UNCHANGED <<storeVars, caller, rec, confirmed, snap, faults>>

-----------------------------------------------------------------------------
(* cancel_bracket_orders_async, shared by three callers *)

RequestCancel ==
    /\ pc = "cancel" /\ ~BoardClear
    /\ resting' = [k \in Pairs |-> CancelRequested(k)]
    /\ pc' = "cancelWait"
    /\ UNCHANGED <<shares, parent, attached, px, market, seenFill>>
    /\ UNCHANGED <<storeVars, caller, pair, rec, confirmed, snap, faults>>

\* RestingOrderCancelTimeoutError.  The replacement of a bracket's children
\* catches it and keeps the old ones; the exit waits for the next cycle.
CancelTimesOut ==
    /\ pc = "cancelWait" /\ ~BoardClear
    /\ pc' = IF caller = "entry" THEN "ensure" ELSE TurnOver(caller)
    /\ UNCHANGED <<brokerVars, storeVars, caller, pair, rec, confirmed, snap, faults>>

RestoreAfterCancel ==
    /\ CancelReturns /\ caller = "restore"
    /\ pc' = "contract"
    /\ UNCHANGED <<brokerVars, storeVars, caller, pair, rec, confirmed, snap, faults>>

\* _market_exit_async sells the recorded quantity.
SellAfterCancel ==
    /\ CancelReturns /\ caller = "exit"
    /\ market' = "working"
    /\ pc' = "marketWait"
    /\ UNCHANGED <<shares, parent, attached, resting, px, seenFill>>
    /\ UNCHANGED <<storeVars, caller, pair, rec, confirmed, snap, faults>>

\* _replace_children_at_fill_async puts a new pair at the fill's prices.
ReplaceAfterCancel ==
    /\ CancelReturns /\ caller = "entry"
    /\ PlacePair("fill")
    /\ rec' = "fill"
    /\ UNCHANGED <<shares, parent, market, seenFill>>
    /\ UNCHANGED <<storeVars, caller, confirmed, snap, faults>>

-----------------------------------------------------------------------------
(* Entry: _process_entry_async and place_bracket_order_async *)

\* No signal, no price, a limit reached, a cooldown: no order.
SkipEntry ==
    /\ pc = "process" /\ local = "absent"
    /\ pc' = "idle"
    /\ UNCHANGED <<brokerVars, storeVars, caller, pair, rec, confirmed, snap, faults>>

\* Parent and children go out without an await between them.
PlaceBracket ==
    /\ pc = "process" /\ local = "absent" /\ ~cooldown
    /\ \E k \in Pairs :
          /\ ~IsWorking(k)
          /\ parent' = "working"
          /\ attached' = k
          /\ resting' = [resting EXCEPT ![k] = [l \in Legs |-> "sent"]]
          /\ px' = [px EXCEPT ![k] = "ref"]
          /\ pair' = k
    /\ caller' = "entry"
    /\ pc' = "parentWait"
    /\ UNCHANGED <<shares, market, seenFill, storeVars, rec, confirmed, snap, faults>>

\* The fill is seen while waiting, or within the grace period.
SeeParentFilled ==
    /\ pc \in {"parentWait", "parentGrace"} /\ parent = "filled"
    /\ pc' = "reprice"
    /\ UNCHANGED <<brokerVars, storeVars, caller, pair, rec, confirmed, snap, faults>>

SeeParentCancelled ==
    /\ pc = "parentWait" /\ parent \in {"ghost", "cancelled"}
    /\ pc' = "parentGrace"
    /\ UNCHANGED <<brokerVars, storeVars, caller, pair, rec, confirmed, snap, faults>>

\* OrderNotFilledError: the children sent with the parent are cancelled.
GiveUpOnParent ==
    /\ \/ /\ pc = "parentGrace"
          /\ parent = "cancelled" \/ (parent = "ghost" /\ "LateFill" \in Races)
          /\ UNCHANGED parent
       \/ /\ pc = "parentWait" /\ parent = "working"
          /\ parent' = "pcancel"
    /\ resting' = [resting EXCEPT ![pair] = CancelRequested(pair)]
    /\ pc' = "idle"
    /\ UNCHANGED <<shares, attached, px, market, seenFill>>
    /\ UNCHANGED <<storeVars, caller, pair, rec, confirmed, snap, faults>>

\* The fill price is unreadable or rounds to the prices already placed.
KeepChildren ==
    /\ pc = "reprice"
    /\ rec' = "ref"
    /\ pc' = "ensure"
    /\ UNCHANGED <<brokerVars, storeVars, caller, pair, confirmed, snap, faults>>

\* The children are modified to the fill's prices and read back.  A price that
\* could not be read counts as landed; a rejected modification (Error 10326)
\* that was read leads to the replacement of the pair.
RepriceChildren(accepted, read) ==
    /\ pc = "reprice"
    /\ px' = [px EXCEPT ![pair] = IF accepted THEN "fill" ELSE @]
    /\ read => \E l \in Legs : resting[pair][l] = "live"
    /\ rec' = IF read THEN px'[pair] ELSE "fill"
    /\ pc' = IF rec' = "fill" THEN "ensure" ELSE "cancel"
    /\ UNCHANGED <<shares, parent, attached, resting, market, seenFill>>
    /\ UNCHANGED <<storeVars, caller, pair, confirmed, snap, faults>>

-----------------------------------------------------------------------------
(* _ensure_children_are_live_async *)

\* open_position follows in the same step of an entry.
ConfirmChildren ==
    /\ pc = "ensure" /\ PairStands
    /\ local' = IF caller = "entry" THEN rec ELSE local
    /\ pc' = TurnOver(caller)
    /\ UNCHANGED <<brokerVars, cooldown, caller, pair, rec, confirmed, snap, faults>>

\* RestingOrdersNotLiveError without flattening: the position stays bare.
LeaveBare ==
    /\ pc = "ensure" /\ ~PairStands /\ caller # "entry"
    /\ pc' = TurnOver(caller)
    /\ UNCHANGED <<brokerVars, storeVars, caller, pair, rec, confirmed, snap, faults>>

\* A new position without both legs is sold at once.
Flatten ==
    /\ pc = "ensure" /\ ~PairStands /\ caller = "entry"
    /\ resting' = [resting EXCEPT ![pair] = CancelRequested(pair)]
    /\ market' = "working"
    /\ pc' = "marketWait"
    /\ UNCHANGED <<shares, parent, attached, px, seenFill>>
    /\ UNCHANGED <<storeVars, caller, pair, rec, confirmed, snap, faults>>

-----------------------------------------------------------------------------
(* Exit: _process_exit_async and _market_exit_async *)

\* A resting order has filled: close_position.
RecordRestingFill ==
    /\ pc = "process" /\ local # "absent" /\ seenFill
    /\ local' = "absent"
    /\ cooldown' = TRUE
    /\ pc' = "idle"
    /\ UNCHANGED <<brokerVars, caller, pair, rec, confirmed, snap, faults>>

\* No price, not confirmed by the broker, or no exit signal.
KeepPosition ==
    /\ pc = "process" /\ local # "absent" /\ ~seenFill
    /\ pc' = "idle"
    /\ UNCHANGED <<brokerVars, storeVars, caller, pair, rec, confirmed, snap, faults>>

BeginExit ==
    /\ pc = "process" /\ local # "absent" /\ ~seenFill /\ confirmed
    /\ caller' = "exit"
    /\ pc' = "cancel"
    /\ UNCHANGED <<brokerVars, storeVars, pair, rec, confirmed, snap, faults>>

\* The market SELL filled: an exit closes the record, a flattening has none.
SeeMarketFilled ==
    /\ pc \in {"marketWait", "marketGrace"} /\ market = "filled"
    /\ IF caller = "exit"
       THEN local' = "absent" /\ cooldown' = TRUE
       ELSE UNCHANGED storeVars
    /\ pc' = "idle"
    /\ UNCHANGED <<brokerVars, caller, pair, rec, confirmed, snap, faults>>

SeeMarketCancelled ==
    /\ pc = "marketWait" /\ market \in {"ghost", "cancelled"}
    /\ pc' = "marketGrace"
    /\ UNCHANGED <<brokerVars, storeVars, caller, pair, rec, confirmed, snap, faults>>

\* The market SELL did not fill: an exit puts the resting orders back.
MarketFails ==
    /\ \/ /\ pc = "marketGrace"
          /\ market = "cancelled" \/ (market = "ghost" /\ "LateFill" \in Races)
          /\ UNCHANGED market
       \/ /\ pc = "marketWait" /\ market = "working"
          /\ market' = "pcancel"
    /\ IF caller = "exit"
       THEN PlaceRecorded
       ELSE pc' = "idle" /\ UNCHANGED <<resting, px, pair, attached>>
    /\ UNCHANGED <<shares, parent, seenFill>>
    /\ UNCHANGED <<storeVars, caller, rec, confirmed, snap, faults>>

-----------------------------------------------------------------------------
Cycle ==
    \/ Sync \/ QueryProtection \/ AdoptBookPrices \/ SkipRestore
    \/ RestorePartial \/ RestoreMissing \/ RestoreProtection

CancelSteps ==
    \/ RequestCancel \/ CancelTimesOut
    \/ RestoreAfterCancel \/ SellAfterCancel \/ ReplaceAfterCancel

Entry ==
    \/ SkipEntry \/ PlaceBracket \/ SeeParentFilled \/ SeeParentCancelled
    \/ GiveUpOnParent \/ KeepChildren
    \/ \E accepted, read \in BOOLEAN : RepriceChildren(accepted, read)

Exit ==
    \/ RecordRestingFill \/ KeepPosition \/ BeginExit
    \/ SeeMarketFilled \/ SeeMarketCancelled \/ MarketFails

Bot == Cycle \/ CancelSteps \/ Entry \/ Exit
       \/ ConfirmChildren \/ LeaveBare \/ Flatten

Environment == Crash \/ Restart \/ LoseConnection \/ RestoreLoopFails \/ NextDay

Next == Broker \/ Bot \/ Environment

Spec == Init /\ [][Next]_vars

-----------------------------------------------------------------------------
(* Properties *)

\* The account is never short: no lot is sold that is not held.
NoShort == shares >= 0

\* At most one pair of resting orders works for the symbol.
AtMostOnePair ==
    \A j, k \in Pairs : IsWorking(j) /\ IsWorking(k) => j = k

\* A bracket is never sent on top of a lot that is still held: what an earlier
\* turn, a crash or a late fill left at the broker is adopted first.
EntryOnlyWhenFlat ==
    [][pc = "process" /\ pc' = "parentWait" => shares <= 0]_vars

\* A bracket is never sent while a sell order of an earlier position is still
\* on the book, which would close the new position unasked.
EntryOnCleanBoard ==
    [][pc = "process" /\ pc' = "parentWait" => BoardClear]_vars

\* While a market sell is waited for, no resting order works beside it.
SellsAlone == pc \in {"marketWait", "marketGrace"} => BoardClear

\* _market_exit_async: an exit's market sell never works beside a resting
\* order, whose fill would sell the lot a second time.
ExitSellsAlone == caller = "exit" => SellsAlone

\* When the bot drops its record of a position, the broker holds none.
ClosedMeansFlat ==
    [][local # "absent" /\ local' = "absent" => shares <= 0]_vars

\* Resting orders are put back only when no other sell order of the symbol is
\* on the book: two pairs would sell one position twice.
RestoreOnClearBoard ==
    [][pc # "ensure" /\ pc' = "ensure" /\ caller' # "entry" => BoardClear]_vars

\* An entry records the prices that stand on the book.
RecordMatchesBook ==
    [][local = "absent" /\ local' \in Price /\ LiveLegs = Legs
          => local' = px[pair]]_vars

\* The broker holds a lot that nothing sells: neither resting nor market.
Bare == shares > 0 /\ market \notin InFlight /\ ~\E k \in Pairs : IsWorking(k)

\* A lot the bot holds no record of is adopted (or gone).
HoldingIsRecorded == shares > 0 ~> (local # "absent" \/ shares <= 0)

\* A bare position with recorded prices is given resting orders again.
BareIsProtectedAgain ==
    (Bare /\ local \in Price) ~> (~Bare \/ local \notin Price)

(***************************************************************************)
(* Fairness.  The event loop resumes a suspended task, so every bot step   *)
(* that stays possible is taken; systemd restarts the process; every       *)
(* trading day has cycles, so Sync is not postponed forever by days that   *)
(* end.  The broker answers what it was sent: it accepts or drops a leg,   *)
(* fills or ends a market order.                                           *)
(***************************************************************************)
Answered(k, l) == resting[k][l] \in {"sent", "pcancel"} /\ (AcceptLeg(k, l) \/ DropLeg(k, l))

Fairness ==
    /\ WF_vars(Bot /\ pc # "idle")
    /\ SF_vars(Sync)
    /\ WF_vars(Restart)
    /\ \A k \in Pairs, l \in Legs : WF_vars(Answered(k, l))
    /\ WF_vars(ParentFills \/ ParentDies)
    /\ WF_vars(MarketFills \/ MarketDies)

FairSpec == Spec /\ Fairness
=============================================================================
