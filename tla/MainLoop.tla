------------------------------- MODULE MainLoop -------------------------------
(***************************************************************************)
(* The loop of main(): connect, make sure the account is a paper account,  *)
(* choose the watchlist once per trading day, run a cycle, sleep; and what *)
(* each exception does to the loop.  The cycle itself is in BracketOrders  *)
(* and TradingDay.                                                         *)
(*                                                                         *)
(* A step is the code between two awaits.  At every await the gateway, the *)
(* socket and the market hours may change.  Real orders are enabled        *)
(* (ENABLE_REAL_ORDERS), as ensure_account_is_paper has nothing to do      *)
(* without them.                                                           *)
(***************************************************************************)
EXTENDS Integers

CONSTANTS
    MaxRetries,     \* IBKRConnection.max_retries
    AlertRounds,    \* CONNECTION_FAILURE_ROUNDS_BEFORE_MANUAL_LOGIN
    Accounts,       \* accounts the gateway may be logged in to, see AllAccounts
    MaxOutages,     \* bound: gateway outages and lost sockets
    MaxErrors,      \* bound: exceptions that are not a lost connection
    LastDay         \* bound: trading days

\* What managedAccounts() shows: DU/DF accounts only, some other account,
\* or nothing at all.
AllAccounts == {"paper", "live", "unread"}

ASSUME AccountsAssumption == Accounts \subseteq AllAccounts /\ Accounts # {}
ASSUME RoundsAssumption ==
    MaxRetries \in Nat \ {0} /\ AlertRounds \in Nat \ {0}
ASSUME BoundsAssumption ==
    MaxOutages \in Nat /\ MaxErrors \in Nat /\ LastDay \in Nat \ {0}

VARIABLES
    \* the gateway and the market
    gateway,    \* "up" or "down"
    account,    \* the account the gateway is logged in to
    open,       \* is_regular_trading_hours
    day,        \* the trading day
    \* the connection
    sock,       \* ib.isConnected
    managed,    \* ib.managedAccounts of this session
    attempt,    \* attempt of connect_async
    \* main()
    pc,
    bound,      \* ib is not None
    failures,   \* consecutive_connection_failures, saturated above AlertRounds
    screened,   \* last_screened_date, 0 for None
    retryAt,    \* next_screening_attempt_at: "none", "waiting" or "due"
    today,      \* the day the screening was begun for
    \* history
    rounds,     \* failed rounds since the last session, saturated likewise
    alerts,     \* requests for a manual login since the last session
    refused,    \* ensure_account_is_paper refused the account of this session
    left,       \* failures that a refused session left standing
    outages, errors

envVars     == <<gateway, account, open, day, outages>>
sessionVars == <<sock, managed, bound, refused>>
alertVars   == <<failures, rounds, alerts, left>>
screenVars  == <<screened, retryAt, today>>
vars == <<envVars, sessionVars, attempt, pc, alertVars, screenVars, errors>>

PC == {"top", "dial", "equity", "refresh", "cycle", "sleep", "stopped"}

Counts == 0..(AlertRounds + 1)

TypeOK ==
    /\ gateway \in {"up", "down"} /\ account \in Accounts
    /\ open \in BOOLEAN /\ day \in 1..LastDay
    /\ sock \in BOOLEAN /\ managed \in Accounts \cup {"none"}
    /\ attempt \in 1..MaxRetries
    /\ pc \in PC /\ bound \in BOOLEAN
    /\ failures \in Counts /\ rounds \in Counts /\ alerts \in 0..1
    /\ screened \in 0..LastDay /\ today \in 1..LastDay
    /\ retryAt \in {"none", "waiting", "due"}
    /\ refused \in BOOLEAN /\ left \in Counts
    /\ outages \in 0..MaxOutages /\ errors \in 0..MaxErrors

Init ==
    /\ gateway \in {"up", "down"} /\ account \in Accounts
    /\ open \in BOOLEAN /\ day = 1
    /\ sock = FALSE /\ managed = "none" /\ attempt = 1
    /\ pc = "top" /\ bound = FALSE
    /\ failures = 0 /\ rounds = 0 /\ alerts = 0
    /\ screened = 0 /\ retryAt = "none" /\ today = 1
    /\ refused = FALSE /\ left = 0
    /\ outages = 0 /\ errors = 0

-----------------------------------------------------------------------------
(* Helpers *)

\* One more, as far as the code tells the numbers apart.
OneMore(n) == IF n \in 0..AlertRounds THEN n + 1 ELSE n

ScreeningDue == screened # day /\ retryAt # "waiting"

\* From the connected top of the loop to the next await.
Proceed ==
    pc' = IF ~open THEN "sleep" ELSE IF ScreeningDue THEN "equity" ELSE "cycle"

-----------------------------------------------------------------------------
(* Mutants: the code as a plausible slip would have it, used by no action. *)

\* The request for a manual login is repeated in every further round.
FailedRoundRepeatsAlert ==
    /\ IF open
       THEN /\ failures' = OneMore(failures) /\ rounds' = OneMore(rounds)
            /\ alerts' = IF failures' >= AlertRounds THEN alerts + 1 ELSE alerts
       ELSE UNCHANGED <<failures, rounds, alerts>>
    /\ pc' = "sleep"
    /\ UNCHANGED left

\* Failures outside trading hours are counted like any other.
FailedRoundAtNight ==
    /\ failures' = OneMore(failures)
    /\ rounds' = IF open THEN OneMore(rounds) ELSE rounds
    /\ alerts' = IF failures' = AlertRounds THEN alerts + 1 ELSE alerts
    /\ pc' = "sleep"
    /\ UNCHANGED left

\* The account is checked once per process and not on a reconnection.
ConnectsWithoutRecheck ==
    /\ pc = "dial" /\ gateway = "up"
    /\ sock' = TRUE /\ managed' = account /\ bound' = TRUE
    /\ rounds' = 0 /\ alerts' = 0
    /\ IF account = "paper" \/ bound
       THEN failures' = 0 /\ refused' = FALSE /\ left' = 0 /\ Proceed
       ELSE refused' = TRUE /\ left' = failures /\ pc' = "sleep" /\ UNCHANGED failures
    /\ today' = day
    /\ UNCHANGED <<envVars, attempt, screened, retryAt, errors>>

\* The loop only looks whether it ever connected.
TopTrustsSession ==
    /\ pc = "top"
    /\ IF bound THEN Proceed /\ UNCHANGED attempt ELSE pc' = "dial" /\ attempt' = 1
    /\ today' = day
    /\ UNCHANGED <<envVars, sessionVars, alertVars, screened, retryAt, errors>>

\* A failed screening settles the day.
RefreshFailsForToday ==
    /\ pc = "refresh"
    /\ screened' = today /\ retryAt' = "waiting" /\ pc' = "cycle"
    /\ UNCHANGED <<envVars, sessionVars, attempt, alertVars, today, errors>>

-----------------------------------------------------------------------------
(* The two exception handlers of the loop *)

\* except ConnectionError: failures are counted in trading hours only, and the
\* request for a manual login is logged when the count passes AlertRounds.
FailedRound ==
    /\ IF open
       THEN /\ failures' = OneMore(failures) /\ rounds' = OneMore(rounds)
            /\ alerts' = IF failures' = AlertRounds THEN alerts + 1 ELSE alerts
       ELSE UNCHANGED <<failures, rounds, alerts>>
    /\ pc' = "sleep"
    /\ UNCHANGED left

\* except Exception
Raised ==
    /\ errors < MaxErrors
    /\ errors' = errors + 1
    /\ pc' = "sleep"

-----------------------------------------------------------------------------
(* The gateway, the market, the process *)

\* The daily restart, a lost session or an outage of the network.
GatewayDown ==
    /\ gateway = "up" /\ outages < MaxOutages
    /\ gateway' = "down" /\ sock' = FALSE /\ outages' = outages + 1
    /\ UNCHANGED <<account, open, day, managed, bound, refused, attempt, pc, alertVars>>
    /\ UNCHANGED <<screenVars, errors>>

\* It may come back logged in to another account (TradingMode of IBC).
GatewayUp ==
    /\ gateway = "down"
    /\ gateway' = "up" /\ account' \in Accounts
    /\ UNCHANGED <<open, day, outages, sessionVars, attempt, pc, alertVars, screenVars, errors>>

SocketLost ==
    /\ sock /\ outages < MaxOutages
    /\ sock' = FALSE /\ outages' = outages + 1
    /\ UNCHANGED <<gateway, account, open, day, managed, bound, refused, attempt, pc, alertVars>>
    /\ UNCHANGED <<screenVars, errors>>

MarketCloses ==
    /\ open /\ open' = FALSE
    /\ UNCHANGED <<gateway, account, day, outages, sessionVars, attempt, pc, alertVars>>
    /\ UNCHANGED <<screenVars, errors>>

MarketOpens ==
    /\ ~open /\ day < LastDay
    /\ open' = TRUE /\ day' = day + 1
    /\ UNCHANGED <<gateway, account, outages, sessionVars, attempt, pc, alertVars>>
    /\ UNCHANGED <<screenVars, errors>>

\* SCREENING_RETRY_INTERVAL_SECONDS have passed.
RetryComesDue ==
    /\ retryAt = "waiting" /\ retryAt' = "due"
    /\ UNCHANGED <<envVars, sessionVars, attempt, pc, alertVars, screened, today, errors>>

\* after_close.sh sends SIGTERM; main()'s finally disconnects.
Stop ==
    /\ pc # "stopped" /\ ~open
    /\ pc' = "stopped" /\ sock' = FALSE
    /\ UNCHANGED <<envVars, managed, bound, refused, attempt, alertVars, screenVars, errors>>

\* start_bot.sh: a new process
Start ==
    /\ pc = "stopped"
    /\ pc' = "top" /\ bound' = FALSE /\ managed' = "none" /\ refused' = FALSE
    /\ failures' = 0 /\ rounds' = 0 /\ alerts' = 0 /\ left' = 0
    /\ screened' = 0 /\ retryAt' = "none"
    /\ UNCHANGED <<envVars, sock, attempt, today, errors>>

-----------------------------------------------------------------------------
(* The loop *)

Wake ==
    /\ pc = "sleep" /\ pc' = "top"
    /\ UNCHANGED <<envVars, sessionVars, attempt, alertVars, screenVars, errors>>

Top ==
    /\ pc = "top"
    /\ IF bound /\ sock
       THEN Proceed /\ UNCHANGED attempt
       ELSE pc' = "dial" /\ attempt' = 1
    /\ today' = day
    /\ UNCHANGED <<envVars, sessionVars, alertVars, screened, retryAt, errors>>

\* connect_async returns and ib is bound before ensure_account_is_paper looks
\* at the account; its RuntimeError ends the turn of the loop, not the session.
Connects ==
    /\ pc = "dial" /\ gateway = "up"
    /\ sock' = TRUE /\ managed' = account /\ bound' = TRUE
    /\ rounds' = 0 /\ alerts' = 0
    /\ IF account = "paper"
       THEN failures' = 0 /\ refused' = FALSE /\ left' = 0 /\ Proceed
       ELSE refused' = TRUE /\ left' = failures /\ pc' = "sleep" /\ UNCHANGED failures
    /\ today' = day
    /\ UNCHANGED <<envVars, attempt, screened, retryAt, errors>>

\* One attempt fails: the gateway is down, or the attempt raises all the same.
AttemptFails ==
    /\ pc = "dial"
    /\ \/ gateway = "down" /\ UNCHANGED errors
       \/ errors < MaxErrors /\ errors' = errors + 1
    /\ IF attempt < MaxRetries
       THEN attempt' = attempt + 1 /\ UNCHANGED <<pc, alertVars>>
       ELSE FailedRound /\ UNCHANGED attempt
    /\ UNCHANGED <<envVars, sessionVars, screenVars>>

\* get_account_equity_async, in front of the screening
EquityRead ==
    /\ pc = "equity" /\ sock
    /\ pc' = "refresh"
    /\ UNCHANGED <<envVars, sessionVars, attempt, alertVars, screenVars, errors>>

RefreshSucceeds ==
    /\ pc = "refresh" /\ sock
    /\ screened' = today /\ retryAt' = "none" /\ pc' = "cycle"
    /\ UNCHANGED <<envVars, sessionVars, attempt, alertVars, today, errors>>

\* _refresh_watchlist_async catches the exception or the empty result and
\* falls back to the fixed list.
RefreshFails ==
    /\ pc = "refresh"
    /\ retryAt' = "waiting" /\ pc' = "cycle"
    /\ UNCHANGED <<envVars, sessionVars, attempt, alertVars, screened, today, errors>>

CycleEnds ==
    /\ pc = "cycle"
    /\ pc' = "sleep"
    /\ UNCHANGED <<envVars, sessionVars, attempt, alertVars, screenVars, errors>>

\* A request on a socket that is gone raises ConnectionError.
CutOff ==
    /\ pc \in {"equity", "cycle"} /\ ~sock
    /\ FailedRound
    /\ UNCHANGED <<envVars, sessionVars, attempt, screenVars, errors>>

\* Any other exception of the account query or of the synchronisation.
CycleRaises ==
    /\ pc \in {"equity", "cycle"}
    /\ Raised
    /\ UNCHANGED <<envVars, sessionVars, attempt, alertVars, screenVars>>

-----------------------------------------------------------------------------
Loop ==
    \/ Wake \/ Top \/ Connects \/ AttemptFails
    \/ EquityRead \/ RefreshSucceeds \/ RefreshFails
    \/ CycleEnds \/ CutOff \/ CycleRaises

Environment ==
    \/ GatewayDown \/ GatewayUp \/ SocketLost
    \/ MarketCloses \/ MarketOpens \/ RetryComesDue \/ Stop \/ Start

Next == Loop \/ Environment

Spec == Init /\ [][Next]_vars

\* The event loop resumes a task whose await is over, time passes, and the
\* timer starts the process again.
Fairness == WF_vars(Loop) /\ WF_vars(RetryComesDue) /\ WF_vars(Start)

FairSpec == Spec /\ Fairness

-----------------------------------------------------------------------------
(* Properties *)

Trading == pc \in {"equity", "refresh", "cycle"} /\ sock

\* ensure_account_is_paper: with an account that is not a paper account the
\* bot stops and sends no order.
NeverOnLiveAccount == Trading => managed = "paper"

\* Every session with another account, also a reconnected one, is refused
\* before anything is done in it.
RefusedFirst == Trading /\ managed # "paper" => refused

\* An outage that lasts AlertRounds failed rounds of trading hours is reported
\* by exactly one request for a manual login, a shorter one or one at night by
\* none.  A refused session does not reset the count: what it left standing
\* brings the request forward, or, once it has passed AlertRounds, ends all
\* requests until a paper account is reached.
OneAlertPerOutage ==
    alerts = IF left < AlertRounds /\ left + rounds >= AlertRounds THEN 1 ELSE 0

\* While the market is open and a paper account can be reached, cycles go on
\* running, whatever failed before.
CyclesGoOn ==
    <>[](open /\ gateway = "up" /\ account = "paper") => []<>(pc = "cycle" /\ sock)

\* A failed screening is tried again the same day, unless the market closes
\* or the connection goes first.
ScreeningIsRetried ==
    retryAt = "waiting" ~> pc = "equity" \/ ~open \/ gateway = "down" \/ ~sock
=============================================================================
