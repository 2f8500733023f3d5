------------------------------- MODULE Records -------------------------------
(***************************************************************************)
(* The files a trading day leaves behind and the jobs around them: the     *)
(* fill log that the bot appends to (fill_log.py), the journal that only   *)
(* grows, the dated snapshots (backup_records.py), the ranking of the day  *)
(* (rank_turnover.py) and the daily report that finds the days on which    *)
(* the bot never started (daily_report.py), in the order in which          *)
(* start_bot.sh and after_close.sh run them.                               *)
(***************************************************************************)
EXTENDS Integers, Sequences, SequencesExt, FiniteSetsExt

CONSTANTS RecordDays,    \* calendar days
          KeepSnapshots, \* --keep: snapshots that the pruning leaves
          MaxFills,      \* bound on the fills that are noted
          MaxRows        \* bound on the rows of the journal

ASSUME RecordsAssumption ==
    {RecordDays, KeepSnapshots, MaxFills, MaxRows} \subseteq Nat \ {0}

VARIABLES date,          \* today, counted in calendar days
          step,          \* how far the day's jobs have come
          tradingDays,   \* the days so far with a session
          logged,        \* the days with a line in the bot's log
          fills,         \* the lines of fills.jsonl and whether the last is ended
          appended,      \* how many fills the bot tried to note
          noted,         \* the fills for which record_* returned a record
          journal,       \* rows of trade_journal.csv
          saved,         \* date -> the snapshot's directory
          verified,      \* history: a copy that was read back as equal, any
                         \*   one of them: its date and rows, and whether the
                         \*   tool has since written over it on the same date
          runs,          \* the dates for which backup_records ran
          reported       \* what the report of today warned about

recordVars == <<date, step, tradingDays, logged, fills, appended, noted, journal,
                saved, verified, runs, reported>>

RecordsInit ==
    /\ date = 1
    /\ step = "morning"
    /\ tradingDays = {} /\ logged = {}
    /\ fills = [lines |-> <<>>, ended |-> TRUE]
    /\ appended = 0 /\ noted = {}
    /\ journal = 0
    /\ saved = <<>> /\ verified = {} /\ runs = {}
    /\ reported = {}

-----------------------------------------------------------------------------
\* fill_log.py

\* What an append leaves when it follows an ended line, or one that was cut.
\* A cut line without its line end swallows the next record.
Appended(file, id, whole) ==
    IF file.ended
    THEN Append(file.lines, [ids |-> {id}, readable |-> whole])
    ELSE [file.lines EXCEPT ![Len(file.lines)] =
             [ids |-> @.ids \cup {id}, readable |-> FALSE]]

\* Unreadable lines are skipped.
Loaded(file) == UNION {line.ids : line \in {l \in ToSet(file.lines) : l.readable}}

RecordFill ==
    /\ step = "session" /\ appended < MaxFills
    /\ appended' = appended + 1
    /\ fills' = [lines |-> Appended(fills, appended', TRUE), ended |-> TRUE]
    /\ noted' = noted \cup {appended'}
    /\ UNCHANGED <<date, step, tradingDays, logged, journal, saved, verified,
                   runs, reported>>

\* The process dies or the disk is full in the middle of the line: part of it
\* is written, perhaps all but its end.  The error is swallowed.
CutFill ==
    /\ step = "session" /\ appended < MaxFills
    /\ appended' = appended + 1
    /\ \E allButEnd \in BOOLEAN :
           fills' = [lines |-> Appended(fills, appended', allButEnd), ended |-> FALSE]
    /\ UNCHANGED <<date, step, tradingDays, logged, noted, journal, saved,
                   verified, runs, reported>>

\* A closed trade adds a row to the journal.
RecordTrade ==
    /\ step = "session" /\ journal < MaxRows
    /\ journal' = journal + 1
    /\ UNCHANGED <<date, step, tradingDays, logged, fills, appended, noted,
                   saved, verified, runs, reported>>

\* Somebody deletes the journal or cuts it off.
DamageJournal ==
    /\ journal' \in 0..(journal - 1)
    /\ UNCHANGED <<date, step, tradingDays, logged, fills, appended, noted,
                   saved, verified, runs, reported>>

-----------------------------------------------------------------------------
\* start_bot.sh and after_close.sh

\* The bot starts only on a trading day; it may fail to start, and somebody
\* may start it by hand on a holiday.
Morning ==
    /\ step = "morning"
    /\ \E trading, starts \in BOOLEAN :
          /\ tradingDays' = IF trading THEN tradingDays \cup {date} ELSE tradingDays
          /\ logged' = IF starts THEN logged \cup {date} ELSE logged
          /\ step' = IF starts THEN "session" ELSE "idle"
    /\ UNCHANGED <<date, fills, appended, noted, journal, saved, verified, runs,
                   reported>>

\* The bot is stopped on every day; a holiday, or a day that could not be
\* judged, ends the jobs here.
AfterClose ==
    /\ step \in {"session", "idle"}
    /\ step' \in {"done"} \cup (IF date \in tradingDays THEN {"backup"} ELSE {})
    /\ UNCHANGED <<date, tradingDays, logged, fills, appended, noted, journal,
                   saved, verified, runs, reported>>

-----------------------------------------------------------------------------
\* backup_records.py

\* How the copy of the journal ends.
Outcomes == {"copied", "cut", "untouched"}

\* Mutants: the pruning keeps the oldest snapshots.
OldestKept(dates) == {d \in dates : Cardinality({e \in dates : e < d}) < KeepSnapshots}

\* ... or one snapshot too many.
NewestAndOneMore(dates) == {d \in dates : Cardinality({e \in dates : e > d}) <= KeepSnapshots}

\* The newest snapshots survive the pruning.
NewestKept(dates) == {d \in dates : Cardinality({e \in dates : e > d}) < KeepSnapshots}

\* The journal is copied to the directory of today and read back; a copy that
\* fails leaves what it has written, or what lay there when it wrote nothing.
\* A journal that does not exist yet is left out.  The pruning counts the
\* directories, whatever is in them.
CopyJournal(outcome) ==
    LET dates == NewestKept(DOMAIN saved \cup {date})
        kept  == IF date \in DOMAIN saved THEN saved[date] ELSE {}
        wrote == journal > 0 /\ outcome # "untouched"
        today == IF ~wrote THEN kept ELSE IF outcome = "copied" THEN {journal} ELSE {}
    IN  /\ saved' = [d \in dates |-> IF d = date THEN today ELSE saved[d]]
        /\ \/ verified' = {[c EXCEPT !.over = @ \/ (wrote /\ c.date = date)] :
                                c \in verified}
           \/ /\ verified = {} /\ wrote /\ outcome = "copied"
              /\ verified' = {[date |-> date, rows |-> journal, over |-> FALSE]}
        /\ runs' = runs \cup {date}

Backup ==
    /\ step = "backup"
    /\ step' = "ranking"
    /\ \E outcome \in Outcomes : CopyJournal(outcome)
    /\ UNCHANGED <<date, tradingDays, logged, fills, appended, noted, journal,
                   reported>>

\* The tool is also run by hand, at any time of the day.
BackupByHand ==
    /\ step # "morning"
    /\ \E outcome \in Outcomes : CopyJournal(outcome)
    /\ UNCHANGED <<date, step, tradingDays, logged, fills, appended, noted,
                   journal, reported>>

-----------------------------------------------------------------------------
\* rank_turnover.py and daily_report.py

\* The ranking may be left out or fail and changes only its own file, see
\* RankTurnover of Watchlist; the report comes after it all the same.
Rank ==
    /\ step = "ranking"
    /\ step' = "report"
    /\ UNCHANGED <<date, tradingDays, logged, fills, appended, noted, journal,
                   saved, verified, runs, reported>>

\* Mutant: the day that has just closed does not count yet.
LastClosedBefore == Max({0} \cup {d \in tradingDays : d < date})

\* The report runs after the close.
LastClosedDay == Max({0} \cup tradingDays)

LatestLoggedDay == Max({0} \cup logged)

\* Without a single line the report ends with an error; a journal that cannot
\* be read ends it before anything is printed, the warning included.
Report ==
    /\ step = "report"
    /\ step' = "done"
    /\ reported' \in {{}, IF logged = {} THEN {"no log"}
                         ELSE IF LatestLoggedDay < LastClosedDay THEN {"not started"}
                         ELSE {"summary"}}
    /\ UNCHANGED <<date, tradingDays, logged, fills, appended, noted, journal,
                   saved, verified, runs>>

NextDate ==
    /\ step = "done" /\ date < RecordDays
    /\ date' = date + 1
    /\ step' = "morning"
    /\ reported' = {}
    /\ UNCHANGED <<tradingDays, logged, fills, appended, noted, journal, saved,
                   verified, runs>>

RecordsNext ==
    \/ RecordFill \/ CutFill \/ RecordTrade \/ DamageJournal
    \/ Morning \/ AfterClose \/ Backup \/ BackupByHand \/ Rank \/ Report \/ NextDate

RecordsSpec == RecordsInit /\ [][RecordsNext]_recordVars

RecordsTypeOK ==
    /\ date \in 1..RecordDays
    /\ step \in {"morning", "session", "idle", "backup", "ranking", "report", "done"}
    /\ tradingDays \cup logged \cup runs \subseteq 1..date
    /\ noted \subseteq 1..appended /\ appended \in 0..MaxFills
    /\ UNION {line.ids : line \in ToSet(fills.lines)} = 1..appended
    /\ journal \in 0..MaxRows
    /\ verified \subseteq [date : 1..date, rows : 1..MaxRows, over : BOOLEAN]
    /\ DOMAIN saved \subseteq runs /\ Cardinality(DOMAIN saved) <= KeepSnapshots
    /\ reported \subseteq {"no log", "not started", "summary"}

-----------------------------------------------------------------------------
\* A copy of the journal that was read back as equal is still there, with the
\* rows it had, through damage to the journal and through failed runs of later
\* dates, with two exceptions: the tool writes over it when it runs once more
\* on the same date, and it is pruned once as many newer dates as --keep were
\* backed up, well or badly (backup_records and _prune).
RecentDaysRecoverable ==
    \A c \in verified :
        ~c.over /\ Cardinality({e \in runs : e > c.date}) < KeepSnapshots =>
            c.date \in DOMAIN saved /\ saved[c.date] = {c.rows}

\* A trading day on which the bot wrote no line never gets the summary of an
\* earlier day without the warning, whatever days lie before it (main of
\* daily_report.py, after the start-up job that stayed disabled in 2026-08).
MissedDayIsReported ==
    date \in tradingDays \ logged => "summary" \notin reported

\* fill_log.py:290-291: when the bot stops while writing, only the last line
\* can break.  Every fill whose record was returned can be loaded.
OnlyTheCutLineIsLost == noted \subseteq Loaded(fills)
=============================================================================
