------------------------------- MODULE Watchlist -------------------------------
(***************************************************************************)
(* Which symbols a cycle looks at: _refresh_watchlist_async (a screening,  *)
(* or the fallback list when it fails), _apply_attention_watchlist_async   *)
(* (downtrends, symbols carried over from earlier days, surges in the      *)
(* ranking by turnover) and logs/turnover_ranks.json, which has to carry   *)
(* rankings and carried symbols over nights and crashes.                   *)
(*                                                                         *)
(* ENABLE_ATTENTION_WATCHLIST is set here, so that its path is walked; the *)
(* flags DROP_STRUGGLING_SYMBOLS, KEEP_UNTRADEABLE_SYMBOLS_IN_WATCHLIST    *)
(* and ENABLE_GROWTH_SWING are as well, and CONCENTRATED_SYMBOL is None.   *)
(***************************************************************************)
EXTENDS Integers, Sequences, SequencesExt, FiniteSets

CONSTANTS
    Fixed,              \* WATCHLIST, a sequence of symbols
    Growth,             \* GROWTH_WATCHLIST, a sequence of symbols
    Candidates,         \* what the market cap scan returns
    Slots,              \* MAX_WATCHLIST_SIZE
    GrowthSlots,        \* GROWTH_WATCHLIST_SLOTS
    MaxPEFailures,      \* max_consecutive_pe_failures
    RankCeiling, MinImprovement, HistoryWindow, AbsentRank, \* AttentionConfig
    MaxHistoryDays,     \* MAX_HISTORY_DAYS
    Rankings,           \* bound: rankings a scan may return, symbol -> rank
    Worlds,             \* bound: what the bars may say, see Bars
    Holdings,           \* bound: sets of symbols held
    LastListDay         \* bound: trading days

ListSymbols == ToSet(Fixed) \cup ToSet(Growth) \cup ToSet(Candidates)
           \cup UNION {DOMAIN r : r \in Rankings}

\* What the daily bars say: in the price band and an uptrend; out of the band;
\* a downtrend; too few bars; no bars (a timeout, a symbol without data); or
\* the request raised.
Bars == {"ok", "out", "down", "short", "empty", "error"}

ASSUME WatchlistAssumption ==
    /\ Slots \in Nat /\ GrowthSlots \in 0..Slots
    /\ MaxPEFailures \in Nat \ {0} /\ HistoryWindow \in Nat \ {0}
    /\ MaxHistoryDays \in Nat \ {0} /\ LastListDay \in Nat \ {0}
    /\ Worlds # {} /\ Worlds \subseteq [ListSymbols -> Bars]
    /\ {Fixed, Growth, Candidates} \subseteq Seq(ListSymbols)
    /\ \A r \in Rankings : /\ IsFiniteSet(DOMAIN r) /\ IsInjective(r)
                           /\ r \in [DOMAIN r -> Nat \ {0}]
    /\ {RankCeiling, MinImprovement, AbsentRank} \subseteq Nat

VARIABLES
    listDay,
    point,          \* "top", "attend", "scan", "add", "cycle"
    watchlist,
    fallback,       \* fallback_watchlist
    screenedOn,     \* last_screened_date, 0 for None
    waiting,        \* next_screening_attempt_at lies ahead
    everScreened,   \* history: a screening succeeded since the start
    world,          \* the bars of the symbols, as the last refresh found them
    file,           \* turnover_ranks.json
    kept,           \* kept, surviving_carried and surges of
    surviving,      \*   _apply_attention_watchlist_async
    surges,
    judged          \* history: the carried symbols that survived or were
                    \*   dropped when last judged, once that is saved, and
                    \*   whether they were unreadable to a write since then

applyVars == <<kept, surviving, surges>>
listVars == <<listDay, point, watchlist, fallback, screenedOn, waiting,
              everScreened, world, file, applyVars, judged>>

NoFile == [days |-> <<>>, symbols |-> <<>>]
NotJudged == [survived |-> {}, dropped |-> {}, unread |-> FALSE]

ListTypeOK ==
    /\ listDay \in 1..LastListDay
    /\ point \in {"top", "attend", "scan", "add", "cycle"}
    /\ watchlist \in Seq(ListSymbols) /\ fallback \in Seq(ListSymbols)
    /\ screenedOn \in 0..LastListDay /\ waiting \in BOOLEAN
    /\ everScreened \in BOOLEAN
    /\ world \in Worlds
    /\ file.days \in Seq([date : 1..LastListDay, ranks : Rankings])
    /\ file.symbols \in Seq(ListSymbols)
    /\ kept \in Seq(ListSymbols) /\ surviving \in Seq(ListSymbols)
    /\ surges \in Seq(ListSymbols)
    /\ judged \in [survived : SUBSET ListSymbols, dropped : SUBSET ListSymbols,
                   unread : BOOLEAN]

ListInit ==
    /\ listDay = 1 /\ point = "top" /\ watchlist = Fixed /\ fallback = Fixed
    /\ screenedOn = 0 /\ waiting = FALSE /\ everScreened = FALSE
    /\ world = (CHOOSE w \in Worlds : TRUE) /\ file = NoFile
    /\ kept = <<>> /\ surviving = <<>> /\ surges = <<>>
    /\ judged = NotJudged

-----------------------------------------------------------------------------
(* Helpers *)

First(n, s) == SubSeq(s, 1, IF n < Len(s) THEN n ELSE Len(s))
LastOf(n, s) == SubSeq(s, IF n < Len(s) THEN Len(s) - n + 1 ELSE 1, Len(s))

\* The function returns; its locals are gone.
Returns == point' = "cycle" /\ kept' = <<>> /\ surviving' = <<>> /\ surges' = <<>>

\* What stands in s at the indices in D, in the order of s.
Picked(s, D) ==
    [i \in 1..Cardinality(D) |->
        s[CHOOSE j \in D : Cardinality({k \in D : k <= j}) = i]]

\* dict.fromkeys: the first occurrence of each.
Distinct(s) == Picked(s, {i \in DOMAIN s : \A j \in 1..(i - 1) : s[j] # s[i]})

\* _filter_symbols_by_price_band_async; without equity there is no band.
InBand(w, banded, symbols) ==
    IF banded
    THEN Picked(symbols, {i \in DOMAIN symbols : w[symbols[i]] \in {"ok", "down", "short"}})
    ELSE symbols

\* _growth_watchlist_async; the growth symbols have a band of their own.
GrowthWatchlist(w, banded) == First(GrowthSlots, InBand(w, banded, Growth))

\* _screen_watchlist_symbols_async: held symbols are not judged, and one
\* whose request raised is let pass; all stay on the list.
Untradeable(s, held) == s \notin held /\ world[s] \in {"down", "short", "empty"}

\* screen_value_stocks_async: pe[i] is what the i-th request for a PE ratio
\* gives.  After MaxPEFailures in a row the rest is given up, and what was
\* selected so far is returned.
Screened(pe) ==
    LET GivenUp(i) == \E j \in 1..(i - MaxPEFailures) :
                        \A k \in j..(j + MaxPEFailures - 1) : pe[k] = "fails"
        Passes(i) == /\ pe[i] = "low" /\ ~GivenUp(i)
                     /\ world'[Candidates[i]] \in {"ok", "short"}
    IN  Picked(Candidates, {i \in DOMAIN pe : Passes(i)})

\* The members of S, sorted: each one behind those that are ahead of it.
Ranked(S, ahead) ==
    [i \in 1..Cardinality(S) |-> CHOOSE s \in S : Cardinality(ahead[s]) = i - 1]

\* baseline_rank, doubled: the middle value, or the two middle ones.
BaselineRank2(s, days) ==
    LET window == LastOf(HistoryWindow, days)
        rank == [i \in DOMAIN window |->
                    IF s \in DOMAIN window[i].ranks THEN window[i].ranks[s]
                    ELSE AbsentRank]
        ordered == Ranked(DOMAIN rank, [i \in DOMAIN rank |->
                    {j \in DOMAIN rank : \/ rank[j] < rank[i]
                                         \/ rank[j] = rank[i] /\ j < i}])
        n == Len(window)
    IN  IF n = 0 THEN 2 * AbsentRank
        ELSE rank[ordered[(n + 1) \div 2]] + rank[ordered[(n + 2) \div 2]]

\* detect_rank_surges: the largest improvement first.
RankSurges(today, days) ==
    LET Improvement2(s) == BaselineRank2(s, days) - 2 * today[s]
        risers == {s \in DOMAIN today : /\ today[s] <= RankCeiling
                                        /\ Improvement2(s) >= 2 * MinImprovement}
        Before(s, t) == \/ Improvement2(s) > Improvement2(t)
                        \/ Improvement2(s) = Improvement2(t) /\ today[s] < today[t]
    IN  Ranked(risers, [s \in risers |-> {t \in risers : Before(t, s)}])

HasEnoughHistory(days) ==
    Len(days) >= (IF HistoryWindow < 2 THEN 1 ELSE HistoryWindow \div 2)

RowsOfOtherDays(f, date) == Picked(f.days, {i \in DOMAIN f.days : f.days[i].date # date})

\* Mutants of WithRanks: rows are appended without a look at their date.
WithRanksTwice(f, date, ranks) ==
    [f EXCEPT !.days = LastOf(MaxHistoryDays,
        Append(f.days, [date |-> date, ranks |-> ranks]))]

\* ... or the ranking is written without the symbols that share the file.
WithRanksAlone(f, date, ranks) ==
    [NoFile EXCEPT !.days = LastOf(MaxHistoryDays,
        Append(RowsOfOtherDays(f, date),
               [date |-> date, ranks |-> ranks]))]

\* RankHistoryStore.append: one row a day, the last MaxHistoryDays of them.
WithRanks(f, date, ranks) ==
    [f EXCEPT !.days = LastOf(MaxHistoryDays,
        Append(RowsOfOtherDays(f, date),
               [date |-> date, ranks |-> ranks]))]

WithSymbols(f, symbols) == [f EXCEPT !.symbols = symbols]

\* load_days and load_attention_symbols open the file each for themselves, and
\* what cannot be read is taken for empty.
AsRead(f) == {f, [f EXCEPT !.days = <<>>], [f EXCEPT !.symbols = <<>>], NoFile}

\* append writes the row of the day and what it could read of the rest back,
\* or fails to.
AppendRanks(ranks) ==
    \/ UNCHANGED <<file, judged>>
    \/ \E f \in AsRead(file) :
        /\ file' = WithRanks(f, listDay, ranks)
        /\ judged' = IF f.symbols = file.symbols THEN judged
                     ELSE [judged EXCEPT !.unread = TRUE]

-----------------------------------------------------------------------------
(* Mutants: the code as a plausible slip would have it, used by no action. *)

\* The fallback list is what was left of it the last time.
FallBackKeepingFiltered ==
    \E banded \in BOOLEAN :
        LET growth == GrowthWatchlist(world', banded)
            band == InBand(world', banded, fallback)
            left == First(Slots - Len(growth), band)
        IN  /\ watchlist' = (IF band = <<>> THEN <<>> ELSE left \o growth)
            /\ fallback' = (IF band = <<>> THEN fallback ELSE left)
            /\ waiting' = TRUE
            /\ UNCHANGED <<screenedOn, everScreened>>

\* The length of the fixed list is trusted.
FallBackUncut ==
    \E banded \in BOOLEAN :
        LET growth == GrowthWatchlist(world', banded)
            band == InBand(world', banded, fallback)
        IN  /\ watchlist' = (IF band = <<>> THEN <<>> ELSE band \o growth)
            /\ waiting' = TRUE
            /\ UNCHANGED <<fallback, screenedOn, everScreened>>

\* The surviving symbols are recorded after the scan, and not before it.
RecordedAfterScan(f, symbols) == f

-----------------------------------------------------------------------------
(* A turn of the main loop in which a screening is due *)

Screen ==
    \E pe \in [DOMAIN Candidates -> {"fails", "high", "low"}], banded \in BOOLEAN :
        LET growth == GrowthWatchlist(world', banded)
            selected == Screened(pe)
            list == First(Slots - Len(growth), selected) \o growth
        IN  /\ selected # <<>>
            /\ watchlist' = list /\ fallback' = list
            /\ screenedOn' = listDay /\ everScreened' = TRUE
            /\ waiting' = FALSE

\* The scan or the screening raised or selected nothing.
FallBack ==
    \E banded \in BOOLEAN :
        LET growth == GrowthWatchlist(world', banded)
            band == InBand(world', banded, fallback)
        IN  /\ watchlist' = IF band = <<>> THEN <<>>
                            ELSE First(Slots - Len(growth), band) \o growth
            /\ waiting' = TRUE
            /\ UNCHANGED <<fallback, screenedOn, everScreened>>

\* _refresh_watchlist_async
Refresh ==
    /\ point = "top" /\ screenedOn # listDay /\ ~waiting /\ point' = "attend"
    /\ world' \in Worlds
    /\ Screen \/ FallBack
    /\ UNCHANGED <<listDay, file, applyVars, judged>>

\* Screened today, or the next attempt is not due yet.
KeepList ==
    /\ point = "top" /\ point' = "cycle"
    /\ screenedOn = listDay \/ waiting
    /\ UNCHANGED <<listDay, watchlist, fallback, screenedOn, waiting, everScreened,
                   world, file, applyVars, judged>>

\* What the judgement leaves is recorded before the scan, which may fail.
Recorded(f, symbols) == WithSymbols(f, symbols)

\* The list and the carried symbols, as far as they can be read, are judged,
\* cut, and recorded.
Carry ==
    /\ point = "attend" /\ point' = "scan"
    /\ \E held \in Holdings, written \in BOOLEAN, f \in AsRead(file) :
        /\ kept' = First(Slots, Distinct(watchlist \o f.symbols))
        /\ surviving' = Picked(kept', {i \in DOMAIN kept' :
                /\ Contains(f.symbols, kept'[i])
                /\ ~Untradeable(kept'[i], held)})
        /\ file' = IF written THEN Recorded(f, surviving') ELSE file
        /\ judged' = IF ~written THEN NotJudged
                     ELSE [survived |-> ToSet(surviving'),
                           dropped |-> {s \in ToSet(f.symbols) :
                                            Untradeable(s, held)},
                           unread |-> FALSE]
    /\ surges' = <<>>
    /\ UNCHANGED <<listDay, watchlist, fallback, screenedOn, waiting, everScreened, world>>

\* Both scans answer; the ranking is recorded, and surges count once there is
\* a history that can be read to compare with.
Scan ==
    /\ point = "scan"
    /\ \E today \in Rankings, history \in {file.days, <<>>} :
        /\ AppendRanks(today)
        /\ IF HasEnoughHistory(history)
           THEN /\ point' = "add" /\ surges' = RankSurges(today, history)
                /\ UNCHANGED <<watchlist, kept, surviving>>
           ELSE Returns /\ watchlist' = kept
    /\ UNCHANGED <<listDay, fallback, screenedOn, waiting, everScreened, world>>

\* A scan raised, or both came back empty.
ScanFails ==
    /\ point = "scan" /\ Returns /\ watchlist' = kept
    /\ UNCHANGED <<listDay, fallback, screenedOn, waiting, everScreened,
                   world, file, judged>>

AddSurges ==
    /\ point = "add" /\ Returns
    /\ \E banded \in BOOLEAN :
        LET fresh == Picked(surges, {i \in DOMAIN surges : ~Contains(kept, surges[i])})
            added == InBand(world, banded, First(Slots - Len(kept), fresh))
        IN  /\ watchlist' = kept \o added
            /\ file' \in {file} \cup {WithSymbols(f, surviving \o added) : f \in AsRead(file)}
    /\ UNCHANGED <<listDay, fallback, screenedOn, waiting, everScreened,
                   world, judged>>

\* An exception: the list of the refresh stays.
ApplyFails ==
    /\ point \in {"attend", "scan", "add"} /\ Returns
    /\ UNCHANGED <<listDay, watchlist, fallback, screenedOn, waiting,
                   everScreened, world, file, judged>>

\* The cycle, the sleep and perhaps the night.
RunCycle ==
    /\ point = "cycle" /\ point' = "top"
    /\ listDay' \in {listDay, listDay + 1} \cap 1..LastListDay
    /\ waiting' \in {waiting, FALSE}
    /\ UNCHANGED <<watchlist, fallback, screenedOn, everScreened, world, file,
                   applyVars, judged>>

\* The process ends anywhere and begins again.
RestartBot ==
    /\ point' = "top" /\ watchlist' = Fixed /\ fallback' = Fixed
    /\ screenedOn' = 0 /\ waiting' = FALSE /\ everScreened' = FALSE
    /\ kept' = <<>> /\ surviving' = <<>> /\ surges' = <<>>
    /\ listDay' \in {listDay, listDay + 1} \cap 1..LastListDay
    /\ UNCHANGED <<world, file, judged>>

\* rank_turnover.py, after the close or by hand: it writes the row of the day
\* once more, from another source, beside the symbols in the file.
RankTurnover ==
    /\ \E ranks \in Rankings : AppendRanks(ranks)
    /\ UNCHANGED <<listDay, point, watchlist, fallback, screenedOn, waiting,
                   everScreened, world, applyVars>>

ListNext ==
    \/ Refresh \/ KeepList \/ Carry \/ Scan \/ ScanFails \/ AddSurges
    \/ ApplyFails \/ RunCycle \/ RestartBot \/ RankTurnover

ListSpec == ListInit /\ [][ListNext]_listVars

-----------------------------------------------------------------------------
(* Properties *)

\* A cycle never looks at more symbols than the request budget allows, however
\* the list came about: screened, fallen back, carried over, added to, or left
\* as it was after an exception (MAX_WATCHLIST_SIZE).
ListWithinBudget == point = "cycle" => Len(watchlist) <= Slots

\* However many screenings have failed, a symbol of the fixed list that can be
\* traded is looked at again as long as slots are left: failures do not wear
\* the fallback list down (main() replaces it after a success only).
FallbackRecovers ==
    point = "attend" /\ ~everScreened /\ Len(watchlist) < Slots =>
        \A s \in ToSet(Fixed) : world[s] = "ok" => Contains(watchlist, s)

\* A carried symbol that was judged untradeable is not on record any more,
\* although the scan may fail or the process end right after the judgement.
DroppedStayDropped == judged.dropped \cap ToSet(file.symbols) = {}

\* A carried symbol that survived stays on record until it is judged again:
\* rankings and symbols share a file and neither write may lose the other,
\* except that append writes symbols it could not read back as none
\* (RankHistoryStore.append, save_attention_symbols).
SurvivorsStayOnRecord ==
    ~judged.unread => judged.survived \subseteq ToSet(file.symbols)

\* Each trading day has one row, rows stand in the order of days, and their
\* number is bounded, although a day may be scanned again and again.  That no
\* row is lost is not said: days that cannot be read are written back as none
\* (RankHistoryStore.append).
OneRowPerDay ==
    /\ Len(file.days) <= MaxHistoryDays
    /\ \A i, j \in DOMAIN file.days : i < j => file.days[i].date < file.days[j].date
===============================================================================
