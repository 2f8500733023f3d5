---------------------------- MODULE MainLoop_proofs ----------------------------
(***************************************************************************)
(* Theorems about MainLoop, for every number of retries, of rounds and of  *)
(* days, every set of accounts and every number of outages and errors.     *)
(***************************************************************************)
EXTENDS MainLoop, TLAPS

-----------------------------------------------------------------------------
(* The inductive invariant *)

\* A session with another account than a paper account has been refused; the
\* process that is stopped has no session.
SessionsJudged ==
    /\ sock = TRUE /\ managed # "paper" => refused = TRUE
    /\ pc = "stopped" => sock = FALSE

\* main()'s counter is the number of failed rounds of this outage on top of
\* what refused sessions left standing, as far as it is counted.
Counted == IF left + rounds \in Counts THEN left + rounds ELSE AlertRounds + 1

RoundsCounted == failures = Counted /\ OneAlertPerOutage

Inductive == TypeOK /\ SessionsJudged /\ RoundsCounted

-----------------------------------------------------------------------------
(* Counting *)

\* One more failure is a count again, the same for the round as for the sum it
\* is a part of.
LEMMA OneMoreCounts ==
  ASSUME NEW n \in Counts
  PROVE  /\ OneMore(n) \in Counts
         /\ OneMore(n) = IF n <= AlertRounds THEN n + 1 ELSE n
  BY RoundsAssumption DEF OneMore, Counts

\* A failed round adds one to the count and alerts on the way past AlertRounds.
LEMMA FailedRoundKeeps ==
  ASSUME Inductive, FailedRound
  PROVE  /\ failures' \in Counts /\ rounds' \in Counts /\ alerts' \in 0..1
         /\ left' = left /\ pc' = "sleep"
         /\ RoundsCounted'
<1>. USE DEF Inductive, TypeOK, RoundsCounted, Counted, OneAlertPerOutage
<1>0. /\ failures \in Int /\ rounds \in Int /\ left \in Int /\ AlertRounds \in Int
      /\ AlertRounds > 0 /\ left >= 0 /\ rounds >= 0
      /\ failures <= AlertRounds + 1 /\ rounds <= AlertRounds + 1 /\ left <= AlertRounds + 1
  BY RoundsAssumption DEF Counts
<1>1. CASE open = TRUE
  <2>1. /\ failures' = OneMore(failures) /\ rounds' = OneMore(rounds) /\ left' = left
        /\ alerts' = IF failures' = AlertRounds THEN alerts + 1 ELSE alerts
        /\ pc' = "sleep"
    BY <1>1 DEF FailedRound
  <2>2. /\ failures' \in Counts /\ rounds' \in Counts
        /\ failures' = IF failures <= AlertRounds THEN failures + 1 ELSE failures
        /\ rounds' = IF rounds <= AlertRounds THEN rounds + 1 ELSE rounds
    BY <2>1, OneMoreCounts
  <2>3. failures = IF left + rounds <= AlertRounds + 1 THEN left + rounds ELSE AlertRounds + 1
    BY <1>0 DEF Counts
  <2>4. failures' = Counted'
    BY <1>0, <2>1, <2>2, <2>3 DEF Counts
  <2>5. OneAlertPerOutage' /\ alerts' \in 0..1
    <3>1. CASE failures' = AlertRounds
      BY <1>0, <2>1, <2>2, <2>3, <3>1
    <3>2. CASE failures' # AlertRounds
      BY <1>0, <2>1, <2>2, <2>3, <3>2
    <3>. QED BY <3>1, <3>2
  <2>. QED BY <2>1, <2>2, <2>4, <2>5
<1>2. CASE open = FALSE
  BY <1>2 DEF FailedRound
<1>. QED BY <1>1, <1>2

\* A session or a new process begins a new count of rounds.
LEMMA NewCountKeeps ==
  ASSUME failures' \in Counts, left' = failures', rounds' = 0, alerts' = 0
  PROVE  RoundsCounted'
<1>1. \A n \in Counts : n + 0 = n /\ ~(n < AlertRounds /\ n >= AlertRounds)
  BY RoundsAssumption DEF Counts
<1>2. /\ left' \in Counts /\ left' + rounds' = left'
      /\ ~(left' < AlertRounds /\ left' >= AlertRounds)
  BY <1>1, Zenon
<1>3. Counted' = failures'
  BY <1>2, Zenon DEF Counted
<1>4. OneAlertPerOutage'
  BY <1>2, Zenon DEF OneAlertPerOutage
<1>. QED BY <1>3, <1>4 DEF RoundsCounted

-----------------------------------------------------------------------------
(* The steps *)

\* The loop keeps the invariant.
LEMMA LoopKeepsInductive == Inductive /\ Loop => Inductive'
<1>. SUFFICES ASSUME Inductive, Loop  PROVE Inductive'
  OBVIOUS
<1>. USE DEF Inductive, TypeOK, envVars, sessionVars, alertVars, screenVars
<1>. USE DEF RoundsCounted, Counted, OneAlertPerOutage
<1>1. CASE Wake
  BY <1>1 DEF Wake, SessionsJudged, RoundsCounted, PC
<1>2. CASE Top
  BY <1>2, RoundsAssumption DEF Top, Proceed, SessionsJudged, RoundsCounted, PC
<1>3. CASE Connects
  <2>1. /\ sock' = TRUE /\ managed' = account /\ bound' = TRUE /\ rounds' = 0 /\ alerts' = 0
        /\ today' = day
        /\ UNCHANGED <<envVars, attempt, screened, retryAt, errors>>
    BY <1>3 DEF Connects
  <2>2. 0 \in Counts /\ 0 < AlertRounds
    BY RoundsAssumption DEF Counts
  <2>3. CASE account = "paper"
    <3>1. failures' = 0 /\ refused' = FALSE /\ left' = 0 /\ Proceed
      BY <1>3, <2>3 DEF Connects
    <3>2. pc' \in PC /\ pc' # "stopped"
      BY <3>1 DEF Proceed, PC
    <3>3. sock' \in BOOLEAN /\ bound' \in BOOLEAN /\ refused' \in BOOLEAN
      BY <2>1, <3>1
    <3>4. TypeOK'
      BY <2>1, <2>2, <3>1, <3>2, <3>3
    <3>5. SessionsJudged'
      BY <2>1, <2>3, <3>2 DEF SessionsJudged
    <3>6. RoundsCounted'
      BY <2>1, <2>2, <3>1, NewCountKeeps
    <3>. QED BY <3>4, <3>5, <3>6
  <2>4. CASE account # "paper"
    <3>1. refused' = TRUE /\ left' = failures /\ pc' = "sleep" /\ failures' = failures
      BY <1>3, <2>4 DEF Connects
    <3>2. RoundsCounted'
      BY <2>1, <3>1, NewCountKeeps
    <3>. QED BY <2>1, <2>2, <3>1, <3>2 DEF SessionsJudged, PC
  <2>. QED BY <2>3, <2>4
<1>4. CASE AttemptFails
  <2>1. errors' \in 0..MaxErrors
    BY <1>4, BoundsAssumption DEF AttemptFails
  <2>2. CASE attempt < MaxRetries
    <3>1. attempt' \in 1..MaxRetries /\ UNCHANGED <<pc, alertVars, envVars, sessionVars, screenVars>>
      BY <1>4, <2>2, RoundsAssumption DEF AttemptFails
    <3>. QED BY <2>1, <3>1 DEF SessionsJudged, RoundsCounted
  <2>3. CASE ~(attempt < MaxRetries)
    <3>1. FailedRound /\ UNCHANGED <<attempt, envVars, sessionVars, screenVars>>
      BY <1>4, <2>3 DEF AttemptFails
    <3>. QED BY <2>1, <3>1, FailedRoundKeeps DEF SessionsJudged, PC
  <2>. QED BY <2>2, <2>3
<1>5. CASE EquityRead
  BY <1>5 DEF EquityRead, SessionsJudged, RoundsCounted, PC
<1>6. CASE RefreshSucceeds \/ RefreshFails
  BY <1>6 DEF RefreshSucceeds, RefreshFails, SessionsJudged, RoundsCounted, PC
<1>7. CASE CycleEnds
  BY <1>7 DEF CycleEnds, SessionsJudged, RoundsCounted, PC
<1>8. CASE CutOff
  BY <1>8, FailedRoundKeeps DEF CutOff, SessionsJudged, PC
<1>9. CASE CycleRaises
  <2>1. errors' \in 0..MaxErrors
    BY <1>9, BoundsAssumption DEF CycleRaises, Raised
  <2>. QED BY <1>9, <2>1 DEF CycleRaises, Raised, SessionsJudged, RoundsCounted, PC
<1>. QED BY <1>1, <1>2, <1>3, <1>4, <1>5, <1>6, <1>7, <1>8, <1>9 DEF Loop

\* So do the gateway, the market hours, the timer and the process.
LEMMA EnvironmentKeepsInductive == Inductive /\ Environment => Inductive'
<1>. SUFFICES ASSUME Inductive, Environment  PROVE Inductive'
  OBVIOUS
<1>. USE DEF Inductive, TypeOK, envVars, sessionVars, alertVars, screenVars
<1>. USE DEF RoundsCounted, Counted, OneAlertPerOutage
<1>1. CASE GatewayDown \/ SocketLost
  <2>1. outages' \in 0..MaxOutages
    BY <1>1, BoundsAssumption DEF GatewayDown, SocketLost
  <2>. QED BY <1>1, <2>1 DEF GatewayDown, SocketLost, SessionsJudged, RoundsCounted
<1>2. CASE GatewayUp
  BY <1>2 DEF GatewayUp, SessionsJudged, RoundsCounted
<1>3. CASE MarketCloses
  BY <1>3 DEF MarketCloses, SessionsJudged, RoundsCounted
<1>4. CASE MarketOpens
  <2>1. day' \in 1..LastDay
    BY <1>4, BoundsAssumption DEF MarketOpens
  <2>. QED BY <1>4, <2>1 DEF MarketOpens, SessionsJudged, RoundsCounted
<1>5. CASE RetryComesDue
  BY <1>5 DEF RetryComesDue, SessionsJudged, RoundsCounted
<1>6. CASE Stop
  BY <1>6 DEF Stop, SessionsJudged, RoundsCounted, PC
<1>7. CASE Start
  <2>1. 0 \in Counts /\ 0 < AlertRounds /\ 0 \in 0..LastDay /\ 0 \in 0..1
    BY RoundsAssumption, BoundsAssumption DEF Counts
  <2>2. /\ pc = "stopped" /\ pc' = "top" /\ bound' = FALSE /\ managed' = "none" /\ refused' = FALSE
        /\ failures' = 0 /\ rounds' = 0 /\ alerts' = 0 /\ left' = 0
        /\ screened' = 0 /\ retryAt' = "none"
        /\ UNCHANGED <<envVars, sock, attempt, today, errors>>
    BY <1>7 DEF Start
  <2>3. sock' \in BOOLEAN /\ bound' \in BOOLEAN /\ refused' \in BOOLEAN
    BY <2>2
  <2>4. TypeOK'
    BY <2>1, <2>2, <2>3 DEF PC
  <2>5. SessionsJudged'
    BY <2>2 DEF SessionsJudged
  <2>6. RoundsCounted'
    BY <2>1, <2>2, NewCountKeeps
  <2>. QED BY <2>4, <2>5, <2>6
<1>. QED BY <1>1, <1>2, <1>3, <1>4, <1>5, <1>6, <1>7 DEF Environment

\* The invariant holds at first.
LEMMA InitIsInductive == Init => Inductive
<1>. SUFFICES ASSUME Init  PROVE Inductive
  OBVIOUS
<1>1. /\ 0 \in Counts /\ 0 < AlertRounds /\ 1 \in 1..MaxRetries
      /\ 0 \in 0..LastDay /\ 1 \in 1..LastDay
      /\ 0 \in 0..MaxOutages /\ 0 \in 0..MaxErrors /\ 0 \in 0..1
  BY RoundsAssumption, BoundsAssumption DEF Counts
<1>2. sock \in BOOLEAN /\ bound \in BOOLEAN /\ refused \in BOOLEAN
  BY DEF Init
<1>3. TypeOK
  BY <1>1, <1>2 DEF Init, TypeOK, PC
<1>4. RoundsCounted
  BY <1>1, RoundsAssumption DEF Init, RoundsCounted, Counted, OneAlertPerOutage, Counts
<1>. QED BY <1>3, <1>4 DEF Init, Inductive, SessionsJudged

\* The invariant holds throughout.
LEMMA AlwaysInductive == Spec => []Inductive
<1>1. Inductive /\ UNCHANGED vars => Inductive'
  BY DEF vars, envVars, sessionVars, alertVars, screenVars, Inductive, TypeOK,
         SessionsJudged, RoundsCounted, Counted, OneAlertPerOutage
<1>2. Inductive /\ [Next]_vars => Inductive'
  BY <1>1, LoopKeepsInductive, EnvironmentKeepsInductive DEF Next
<1>. QED BY <1>2, InitIsInductive, PTL DEF Spec

-----------------------------------------------------------------------------
(* The theorems *)

\* MainLoop never leaves the types of its variables.
THEOREM TypeCorrect == Spec => []TypeOK
<1>1. Inductive => TypeOK
  BY DEF Inductive
<1>. QED BY <1>1, AlwaysInductive, PTL

\* RefusedFirst: main() works on another account than a paper account only in
\* a session that ensure_account_is_paper has refused before.
THEOREM AccountsAreJudged == Spec => []RefusedFirst
<1>1. Inductive => RefusedFirst
  BY DEF Inductive, TypeOK, SessionsJudged, RefusedFirst, Trading
<1>. QED BY <1>1, AlwaysInductive, PTL

\* OneAlertPerOutage: however rounds, reconnections, market hours and restarts
\* interleave, an outage is reported once when it is long and never when not.
THEOREM AlertsAreSingle == Spec => []OneAlertPerOutage
<1>1. Inductive => OneAlertPerOutage
  BY DEF Inductive, RoundsCounted
<1>. QED BY <1>1, AlwaysInductive, PTL
=============================================================================
