---------------------------- MODULE MCComponents ----------------------------
(***************************************************************************)
(* Model checking of the parts that do not share state with each other:    *)
(* the data of a symbol's turn with its pacer, the watchlist, the engine   *)
(* alone, the portfolio with the engine beside it, the walk-forward        *)
(* windows and the records.  A behaviour is one of its subject; the other  *)
(* parts stand still.                                                      *)
(***************************************************************************)
EXTENDS MarketData, Watchlist, PriceBand, BacktestParity, WalkForward, Records, TLC

CONSTANTS AAA, BBB, GGG, SSS

VARIABLE subject

Subjects == {"market", "watchlist", "engine", "portfolio", "walk", "records"}

bookVars == <<portfolioVars, engineVars>>

-----------------------------------------------------------------------------
(* Values of the constants *)

MCFixed == <<AAA, BBB>>
MCGrowth == <<GGG>>
MCCandidates == <<BBB, SSS>>
MCRankings == {(SSS :> 1), (SSS :> 3) @@ (BBB :> 1)}
AllOk == [x \in {AAA, BBB, GGG, SSS} |-> "ok"]
MCWorlds == {AllOk, [AllOk EXCEPT ![AAA] = "out", ![GGG] = "error", ![SSS] = "short"],
             [AllOk EXCEPT ![SSS] = "down", ![BBB] = "empty"]}
MCHoldings == {{}, {SSS}}

\* In cents: a bar near the average, one that gaps up, one that gaps down, a
\* row with a close alone, and a bar with a wide range.
Row(o, h, l, c, m) == [open |-> o, high |-> h, low |-> l, close |-> c, market |-> m]
MCRows == {Row({10000}, {10200}, {9900}, 10000, {-4}),
           Row({11500}, {12000}, {11400}, 12000, {1}),
           Row({8000}, {8200}, {7900}, 8000, {}),
           Row({10000}, {10900}, {9900}, 10100, {-2})}
MCEngineRows == MCRows \cup {Row({}, {}, {}, 10500, {0})}

MCEngineSetups ==
    [flatten : BOOLEAN, block : BOOLEAN,
     filter : {NoFilter, [NoFilter EXCEPT !.atMost = {-3}],
               [NoFilter EXCEPT !.atLeast = {-3}, !.relative = {3}]}]
MCEngineSeed == <<12000>>

MCOrders == {<<"x">>, <<"y">>, <<"x", "y">>}
MCSeeds == [x |-> <<6000, 12000>>, y |-> <<12000>>]
FreePlan == [slots |-> 2, dailyEntries |-> 2, block |-> TRUE, uptrend |-> FALSE,
             minHistory |-> 2, maxSize |-> 100000, maxNotional |-> 1000000,
             watchlistSize |-> 9]
MCPlans == {FreePlan,
            [FreePlan EXCEPT !.slots = 1, !.block = FALSE, !.uptrend = TRUE,
                             !.minHistory = 3],
            [FreePlan EXCEPT !.dailyEntries = 1, !.maxSize = 3,
                             !.maxNotional = 25000, !.watchlistSize = 1]}

MCFrames == <<7, 2, 5>>
MCSpans == {[train |-> 2, test |-> 1, step |-> {}],
            [train |-> 3, test |-> 2, step |-> {}],
            [train |-> 2, test |-> 2, step |-> {1}]}
MCMetrics == [trades : {0, 1}, score : {{}, {0}, {1}}, total : {0, 1}]

\* The price band and the size of an entry agree on some amounts around their
\* limits, in cents; Watchlist_proofs has the reason for all of them.
ASSUME BandAgreesWithSize ==
    \A worth \in {1, 20000, 122000, 900000}, price \in {1, 500, 2000, 12000, 73200, 73201},
       cash \in {{}, {499}, {12000}, {500000}} :
        /\ NotAboveBand(worth, cash, price) <=> EntryQuantity(worth, cash, price) > 0
        /\ NotBelowBand(worth, price) => PositionSize(worth, price) <= MaxPositionSize

\* The rows above never wipe a position out: CashIsEnough of Backtest_proofs
\* speaks of this portfolio.
ASSUME RowsDoNotWipeOut == NoWipeOut

\* Nor do the plans above keep the portfolio from holding and buying at all,
\* the other supposition of EngineAndPortfolioAgree.
ASSUME PlansLeaveRoom == LimitsLeaveRoom

-----------------------------------------------------------------------------

Init ==
    /\ subject \in Subjects
    /\ MarketInit /\ ListInit /\ RecordsInit
    /\ WalkInit /\ (subject # "walk" => span = (CHOOSE x \in Spans : TRUE))
    /\ IF subject = "engine" THEN EngineInit /\ PortfolioInit ELSE ParityInit
    /\ subject # "portfolio" => plan = FreePlan /\ order = <<"x", "y">>

Market(A) ==
    /\ subject = "market" /\ A
    /\ UNCHANGED <<subject, listVars, bookVars, walkVars, recordVars>>

MarketStep == Market(MarketNext)

ListStep ==
    /\ subject = "watchlist" /\ ListNext
    /\ UNCHANGED <<subject, marketVars, bookVars, walkVars, recordVars>>

EngineStep ==
    /\ subject = "engine" /\ EngineNext
    /\ UNCHANGED <<subject, marketVars, listVars, portfolioVars, walkVars, recordVars>>

PortfolioStep ==
    /\ subject = "portfolio" /\ ParityNext
    /\ UNCHANGED <<subject, marketVars, listVars, walkVars, recordVars>>

WalkStep ==
    /\ subject = "walk" /\ WalkNext
    /\ UNCHANGED <<subject, marketVars, listVars, bookVars, recordVars>>

RecordsStep ==
    /\ subject = "records" /\ RecordsNext
    /\ UNCHANGED <<subject, marketVars, listVars, bookVars, walkVars>>

Next ==
    \/ MarketStep \/ ListStep \/ EngineStep \/ PortfolioStep \/ WalkStep \/ RecordsStep

allVars == <<subject, marketVars, listVars, bookVars, walkVars, recordVars>>

\* The event loop resumes the task that waits for an answer or for its sleep
\* to end, and time goes on.
Spec ==
    /\ Init /\ [][Next]_allVars
    /\ WF_allVars(Market(Turn))
    /\ WF_allVars(Market(TimePasses))

-----------------------------------------------------------------------------

\* Every part keeps its types and its bounds: sizes of the stored files, slots
\* and entries of a plan.  Where the backtests are compared no limit cuts a
\* size, which EngineAndPortfolioAgree of Backtest_proofs supposes.
TypeOK ==
    /\ MarketTypeOK /\ ListTypeOK /\ EngineTypeOK /\ PortfolioTypeOK
    /\ WalkTypeOK /\ RecordsTypeOK
    /\ SizesUncut
=============================================================================
