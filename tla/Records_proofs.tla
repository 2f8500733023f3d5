---------------------------- MODULE Records_proofs ----------------------------
(***************************************************************************)
(* Theorems about the records of a trading day: the copies of the journal  *)
(* survive, and a day on which the bot never started is reported, for any  *)
(* number of days, snapshots, fills and rows.                              *)
(***************************************************************************)
EXTENDS Records, FiniteSetTheorems, WellFoundedInduction, TLAPS

-----------------------------------------------------------------------------
(* The last day of a set of days *)

\* A non-empty set of naturals with a bound has a greatest element: its least
\* upper bound belongs to it.
LEMMA GreatestDay ==
    ASSUME NEW S \in SUBSET Nat, NEW n \in Nat, \A d \in S : d <= n, S # {}
    PROVE  \E d \in S : \A e \in S : d >= e
<1>. DEFINE Bounds == {m \in Nat : \A d \in S : d <= m}
<1>1. Bounds \subseteq Nat /\ n \in Bounds
  OBVIOUS
<1>2. PICK b \in Bounds : \A m \in Bounds : ~(<<m, b>> \in OpToRel(<, Nat))
  <2>1. Bounds # {}
    BY <1>1
  <2>. HIDE DEF Bounds
  <2>. QED  BY <1>1, <2>1, NatLessThanWellFounded, WFMin
<1>3. b \in Nat /\ (\A d \in S : d <= b)
  BY <1>2
<1>4. \A m \in Bounds : m >= b
  <2>. SUFFICES ASSUME NEW m \in Bounds, m < b PROVE FALSE
    BY <1>3
  <2>1. <<m, b>> \in OpToRel(<, Nat)
    BY <1>3 DEF OpToRel
  <2>. QED  BY <1>2, <2>1
<1>5. b \in S
  <2>. SUFFICES ASSUME b \notin S PROVE FALSE
    OBVIOUS
  <2>1. PICK d \in S : TRUE
    OBVIOUS
  <2>2. \A e \in S : e \in Nat /\ e <= b - 1
    BY <1>3
  <2>3. b - 1 \in Nat
    BY <1>3, <2>1, <2>2
  <2>4. b - 1 \in Bounds
    BY <2>2, <2>3
  <2>5. b - 1 >= b
    BY <1>4, <2>4
  <2>. QED  BY <1>3, <2>5
<1>. QED  BY <1>3, <1>5

\* The least element of a set of days, as the greatest above.
LEMMA FirstDay ==
    ASSUME NEW S \in SUBSET Nat, S # {}
    PROVE  \E d \in S : \A e \in S : d <= e
<1>1. PICK d \in S : \A e \in S : ~(<<e, d>> \in OpToRel(<, Nat))
  BY NatLessThanWellFounded, WFMin
<1>2. \A e \in S : d <= e
  <2>. SUFFICES ASSUME NEW e \in S, e < d PROVE FALSE
    OBVIOUS
  <2>1. <<e, d>> \in OpToRel(<, Nat)
    BY DEF OpToRel
  <2>. QED  BY <1>1, <2>1
<1>. QED  BY <1>2

\* A bounded set of days that is not empty has a last one.
LEMMA MaxOfDays ==
    ASSUME NEW S \in SUBSET Nat, NEW n \in Nat, \A d \in S : d <= n, S # {}
    PROVE  Max(S) \in S /\ \A e \in S : Max(S) >= e
BY GreatestDay DEF Max

\* The log of earlier days never reaches a day that has closed without a line.
LEMMA MissedDayShows ==
    ASSUME date \in Nat, tradingDays \subseteq 1..date, logged \subseteq 1..date,
           date \in tradingDays \ logged
    PROVE  LatestLoggedDay < LastClosedDay
<1>1. /\ {0} \cup tradingDays \in SUBSET Nat /\ {0} \cup logged \in SUBSET Nat
      /\ \A d \in {0} \cup tradingDays : d <= date
      /\ \A d \in {0} \cup logged : d <= date
  OBVIOUS
<1>2. LastClosedDay = date
  <2>1. /\ LastClosedDay \in {0} \cup tradingDays
        /\ \A e \in {0} \cup tradingDays : LastClosedDay >= e
    BY <1>1, MaxOfDays DEF LastClosedDay
  <2>. QED  BY <1>1, <2>1
<1>3. LatestLoggedDay < date
  <2>1. LatestLoggedDay \in {0} \cup logged
    BY <1>1, MaxOfDays DEF LatestLoggedDay
  <2>2. LatestLoggedDay # date /\ date \in Nat \ {0}
    BY <2>1
  <2>. QED  BY <1>1, <2>1, <2>2
<1>. QED  BY <1>2, <1>3

-----------------------------------------------------------------------------
(* The snapshots *)

\* A day that fewer than KeepSnapshots dates of a larger set follow is not
\* pruned.
LEMMA NewestSurvive ==
    ASSUME NEW n \in Nat, NEW R \in SUBSET (1..n), NEW D \in SUBSET R, NEW d \in D,
           Cardinality({e \in R : e > d}) < KeepSnapshots
    PROVE  d \in NewestKept(D)
<1>. DEFINE after(S) == {e \in S : e > d}
<1>1. IsFiniteSet(1..n)
  BY FS_Interval
<1>2. IsFiniteSet(after(R))
  BY <1>1, FS_Subset
<1>3. Cardinality(after(D)) \in Nat /\ Cardinality(after(R)) \in Nat
      /\ Cardinality(after(D)) <= Cardinality(after(R))
  <2>1. after(D) \in SUBSET after(R)
    OBVIOUS
  <2>. HIDE DEF after
  <2>2. IsFiniteSet(after(D))
    BY <1>2, <2>1, FS_Subset
  <2>. QED  BY <1>2, <2>1, <2>2, FS_Subset, FS_CardinalityType
<1>4. KeepSnapshots \in Nat
  BY RecordsAssumption DEF RecordsAssumption
<1>5. Cardinality(after(D)) < KeepSnapshots
  BY <1>3, <1>4
<1>. QED  BY <1>5 DEF NewestKept

\* The pruning leaves at most KeepSnapshots dates: the first one it leaves has
\* fewer than KeepSnapshots after it, and all the others are among those.
LEMMA PruningLeavesFew ==
    ASSUME NEW n \in Nat, NEW D \in SUBSET (1..n)
    PROVE  Cardinality(NewestKept(D)) <= KeepSnapshots
<1>. DEFINE K == NewestKept(D)
            after(m) == {e \in D : e > m}
<1>1. KeepSnapshots \in Nat
  BY RecordsAssumption DEF RecordsAssumption
<1>2. K \subseteq D /\ D \subseteq Nat /\ IsFiniteSet(D)
  <2>1. IsFiniteSet(1..n)
    BY FS_Interval
  <2>2. IsFiniteSet(D)
    BY <2>1, FS_Subset
  <2>. QED  BY <2>2 DEF NewestKept
<1>3. CASE K = {}
  BY <1>1, <1>3, FS_EmptySet
<1>4. CASE K # {}
  <2>1. PICK m \in K : \A e \in K : m <= e
    <3>. HIDE DEF K
    <3>. QED  BY <1>2, <1>4, FirstDay
  <2>2. Cardinality(after(m)) < KeepSnapshots
    BY <2>1 DEF NewestKept
  <2>3. K \in SUBSET (after(m) \cup {m})
    <3>. SUFFICES ASSUME NEW e \in K, e # m PROVE e > m
      BY <1>2
    <3>. HIDE DEF K
    <3>. QED  BY <1>2, <2>1
  <2>4. IsFiniteSet(after(m)) /\ m \notin after(m)
    <3>1. after(m) \in SUBSET D /\ m \in Nat
      BY <1>2, <2>1
    <3>2. IsFiniteSet(after(m))
      BY <1>2, <3>1, FS_Subset
    <3>. QED  BY <3>1, <3>2
  <2>. HIDE DEF K, after
  <2>5. /\ IsFiniteSet(after(m) \cup {m})
        /\ Cardinality(after(m) \cup {m}) = Cardinality(after(m)) + 1
    BY <2>4, FS_AddElement
  <2>6. Cardinality(K) <= Cardinality(after(m) \cup {m}) /\ Cardinality(K) \in Nat
    <3>1. IsFiniteSet(K)
      BY <2>3, <2>5, FS_Subset
    <3>. QED  BY <2>3, <2>5, <3>1, FS_Subset, FS_CardinalityType
  <2>7. Cardinality(after(m)) \in Nat
    BY <2>4, FS_CardinalityType
  <2>8. Cardinality(K) <= KeepSnapshots
    BY <1>1, <2>2, <2>5, <2>6, <2>7
  <2>. QED  BY <2>8 DEF K
<1>. QED  BY <1>3, <1>4

\* The number of later dates does not shrink when another date is backed up.
LEMMA LaterDates ==
    ASSUME NEW n \in Nat, NEW R \in SUBSET (1..n), NEW Q \in SUBSET R, NEW d,
           Cardinality({e \in R : e > d}) < KeepSnapshots
    PROVE  Cardinality({e \in Q : e > d}) < KeepSnapshots
<1>. DEFINE after(S) == {e \in S : e > d}
<1>1. IsFiniteSet(1..n)
  BY FS_Interval
<1>2. IsFiniteSet(after(R))
  BY <1>1, FS_Subset
<1>3. Cardinality(after(Q)) \in Nat /\ Cardinality(after(R)) \in Nat
      /\ Cardinality(after(Q)) <= Cardinality(after(R))
  <2>1. after(Q) \in SUBSET after(R)
    OBVIOUS
  <2>. HIDE DEF after
  <2>2. IsFiniteSet(after(Q))
    BY <1>2, <2>1, FS_Subset
  <2>. QED  BY <1>2, <2>1, <2>2, FS_Subset, FS_CardinalityType
<1>4. KeepSnapshots \in Nat
  BY RecordsAssumption DEF RecordsAssumption
<1>. QED  BY <1>3, <1>4

-----------------------------------------------------------------------------
(***************************************************************************)
(* The inductive invariant.  Snapshots and verified copies exist only for  *)
(* dates on which the tool ran, none of which lies ahead; that makes the   *)
(* snapshot of today the newest one, which the pruning never takes, and    *)
(* makes every date that the pruning counts one that the property counts.  *)
(* Outside the hours between the report and the next morning nothing is    *)
(* reported.                                                               *)
(***************************************************************************)
SnapshotInv ==
    /\ date \in Nat \ {0} /\ journal \in Nat
    /\ runs \subseteq 1..date
    /\ DOMAIN saved \subseteq runs
    /\ verified \subseteq [date : runs, rows : Nat, over : BOOLEAN]
    /\ RecentDaysRecoverable

ReportInv ==
    /\ date \in Nat \ {0}
    /\ tradingDays \subseteq 1..date
    /\ logged \subseteq 1..date
    /\ step # "done" => reported = {}
    /\ MissedDayIsReported

\* At first no run has to be recoverable.
LEMMA SnapshotsAtStart == RecordsInit => SnapshotInv
BY DEF RecordsInit, SnapshotInv, RecentDaysRecoverable

\* At first no trading day has passed.
LEMMA ReportAtStart == RecordsInit => ReportInv
BY DEF RecordsInit, ReportInv, MissedDayIsReported

\* Whether a run writes over the copy of the same date.
Wrote(outcome) == journal > 0 /\ outcome # "untouched"

\* What is known of the copies read back, after a run: each one is of before,
\* and over if the run wrote on its date, or it is of this run.
LEMMA CopiesKnown ==
    ASSUME SnapshotInv, NEW outcome \in Outcomes, CopyJournal(outcome)
    PROVE  /\ verified' \subseteq [date : runs \cup {date}, rows : Nat, over : BOOLEAN]
           /\ \A c \in verified' : ~c.over =>
                 \/ /\ c \in verified
                    /\ c.date = date => ~Wrote(outcome)
                 \/ /\ c.date = date /\ c.rows = journal
                    /\ Wrote(outcome) /\ outcome = "copied"
<1>. DEFINE wrote == Wrote(outcome)
            marked == {[c EXCEPT !.over = @ \/ (wrote /\ c.date = date)] : c \in verified}
<1>1. verified \subseteq [date : runs, rows : Nat, over : BOOLEAN] /\ journal \in Nat
  BY DEF SnapshotInv
<1>2. \/ verified' = marked
      \/ /\ wrote /\ outcome = "copied"
         /\ verified' = {[date |-> date, rows |-> journal, over |-> FALSE]}
  BY Zenon DEF CopyJournal, Wrote
<1>3. ASSUME NEW c \in verified,
             NEW new, new = [c EXCEPT !.over = @ \/ (wrote /\ c.date = date)]
      PROVE  /\ new \in [date : runs \cup {date}, rows : Nat, over : BOOLEAN]
             /\ ~new.over => new = c /\ (c.date = date => ~wrote)
  <2>1. c = [date |-> c.date, rows |-> c.rows, over |-> c.over]
        /\ c.date \in runs /\ c.rows \in Nat /\ c.over \in BOOLEAN
    BY <1>1
  <2>. HIDE DEF wrote
  <2>2. CASE wrote /\ c.date = date
    BY <1>3, <2>1, <2>2
  <2>3. CASE ~(wrote /\ c.date = date)
    BY <1>3, <2>1, <2>3
  <2>. QED  BY <2>2, <2>3
<1>4. CASE verified' = marked
  BY <1>3, <1>4
<1>5. CASE /\ wrote /\ outcome = "copied"
           /\ verified' = {[date |-> date, rows |-> journal, over |-> FALSE]}
  BY <1>1, <1>5
<1>. QED  BY <1>2, <1>4, <1>5

\* A copy of the journal, by the job or by hand, at any time of the day.
LEMMA CopyKeepsSnapshots ==
    ASSUME SnapshotInv, NEW outcome \in Outcomes, CopyJournal(outcome),
           date' = date, journal' = journal
    PROVE  SnapshotInv'
<1>. DEFINE R == runs \cup {date}
            D == DOMAIN saved \cup {date}
            today == IF ~Wrote(outcome)
                     THEN (IF date \in DOMAIN saved THEN saved[date] ELSE {})
                     ELSE IF outcome = "copied" THEN {journal} ELSE {}
<1>1. date \in Nat \ {0} /\ journal \in Nat /\ R \in SUBSET (1..date) /\ D \in SUBSET R
  BY DEF SnapshotInv
<1>2. NewestKept(D) \subseteq D
  BY DEF NewestKept
<1>3. runs' = R /\ saved' = [d \in NewestKept(D) |-> IF d = date THEN today ELSE saved[d]]
  BY DEF CopyJournal, Wrote
<1>4. verified' \subseteq [date : R, rows : Nat, over : BOOLEAN]
  BY CopiesKnown
<1>5. RecentDaysRecoverable'
  <2>. SUFFICES ASSUME NEW c \in verified', ~c.over,
                       Cardinality({e \in R : e > c.date}) < KeepSnapshots
                PROVE  c.date \in DOMAIN saved' /\ saved'[c.date] = {c.rows}
    BY <1>3 DEF RecentDaysRecoverable
  <2>1. c.date \in R
    BY <1>4
  <2>. HIDE DEF R, D, today
  <2>2. runs \in SUBSET R /\ DOMAIN saved \subseteq D /\ date \in D
    BY DEF R, D
  <2>3. Cardinality({e \in runs : e > c.date}) < KeepSnapshots
    BY <1>1, <2>1, <2>2, LaterDates
  <2>4. c.date \in D => c.date \in NewestKept(D)
    BY <1>1, <2>1, NewestSurvive
  <2>5. CASE c \in verified /\ (c.date = date => ~Wrote(outcome))
    <3>1. c.date \in DOMAIN saved /\ saved[c.date] = {c.rows}
      BY <2>3, <2>5 DEF SnapshotInv, RecentDaysRecoverable
    <3>2. c.date = date => today = saved[date]
      BY <2>5, <3>1 DEF today
    <3>. QED  BY <1>3, <2>2, <2>4, <3>1, <3>2
  <2>6. CASE /\ c.date = date /\ c.rows = journal
             /\ Wrote(outcome) /\ outcome = "copied"
    <3>1. today = {journal}
      BY <2>6 DEF today
    <3>. QED  BY <1>3, <2>2, <2>4, <2>6, <3>1
  <2>. QED  BY <2>5, <2>6, CopiesKnown
<1>. QED  BY <1>1, <1>2, <1>3, <1>4, <1>5 DEF SnapshotInv

\* Every step keeps the newest copies.
LEMMA StepKeepsSnapshots ==
    ASSUME SnapshotInv, [RecordsNext]_recordVars
    PROVE  SnapshotInv'
<1>1. CASE Backup
  <2>1. PICK outcome \in Outcomes : CopyJournal(outcome)
    BY <1>1 DEF Backup
  <2>. QED  BY <1>1, <2>1, CopyKeepsSnapshots DEF Backup
<1>2. CASE BackupByHand
  <2>1. PICK outcome \in Outcomes : CopyJournal(outcome)
    BY <1>2 DEF BackupByHand
  <2>. QED  BY <1>2, <2>1, CopyKeepsSnapshots DEF BackupByHand
<1>3. CASE RecordTrade
  BY <1>3 DEF RecordTrade, SnapshotInv, RecentDaysRecoverable
<1>4. CASE DamageJournal
  <2>1. journal' \in Nat
    BY <1>4 DEF DamageJournal, SnapshotInv
  <2>. QED  BY <1>4, <2>1 DEF DamageJournal, SnapshotInv, RecentDaysRecoverable
<1>5. CASE NextDate
  <2>1. date' \in Nat \ {0} /\ runs' \subseteq 1..date'
    BY <1>5 DEF NextDate, SnapshotInv
  <2>. QED  BY <1>5, <2>1 DEF NextDate, SnapshotInv, RecentDaysRecoverable
<1>6. CASE RecordFill \/ CutFill \/ Morning \/ AfterClose \/ Rank \/ Report
  <2>1. UNCHANGED <<date, journal, runs, saved, verified>>
    BY <1>6 DEF RecordFill, CutFill, Morning, AfterClose, Rank, Report
  <2>. QED  BY <2>1 DEF SnapshotInv, RecentDaysRecoverable
<1>7. CASE UNCHANGED recordVars
  BY <1>7 DEF recordVars, SnapshotInv, RecentDaysRecoverable
<1>. QED  BY <1>1, <1>2, <1>3, <1>4, <1>5, <1>6, <1>7 DEF RecordsNext

\* Every step keeps what is needed to notice a missed day.
LEMMA StepKeepsReport ==
    ASSUME ReportInv, [RecordsNext]_recordVars
    PROVE  ReportInv'
<1>1. CASE Report
  <2>1. UNCHANGED <<date, tradingDays, logged>> /\ step' = "done"
    BY <1>1 DEF Report
  <2>2. MissedDayIsReported'
    <3>. SUFFICES ASSUME date \in tradingDays \ logged PROVE "summary" \notin reported'
      BY <2>1 DEF MissedDayIsReported
    <3>1. LatestLoggedDay < LastClosedDay
      BY MissedDayShows DEF ReportInv
    <3>2. reported' = {} \/ reported' = {"no log"} \/ reported' = {"not started"}
      BY <1>1, <3>1, Zenon DEF Report
    <3>3. "summary" # "no log" /\ "summary" # "not started"
      OBVIOUS
    <3>. QED  BY <3>2, <3>3
  <2>. QED  BY <2>1, <2>2 DEF ReportInv
<1>2. CASE Morning
  <2>1. reported' = {} /\ date' = date
    BY <1>2 DEF Morning, ReportInv
  <2>2. tradingDays' \subseteq 1..date /\ logged' \subseteq 1..date
    BY <1>2 DEF Morning, ReportInv
  <2>. QED  BY <2>1, <2>2 DEF ReportInv, MissedDayIsReported
<1>3. CASE NextDate
  <2>1. date' \in Nat \ {0} /\ tradingDays' \subseteq 1..date' /\ logged' \subseteq 1..date'
    BY <1>3 DEF NextDate, ReportInv
  <2>. QED  BY <1>3, <2>1 DEF NextDate, ReportInv, MissedDayIsReported
<1>4. CASE \/ RecordFill \/ CutFill \/ RecordTrade \/ DamageJournal \/ AfterClose
           \/ Backup \/ BackupByHand \/ Rank
  <2>1. UNCHANGED <<date, tradingDays, logged, reported>>
    BY <1>4 DEF RecordFill, CutFill, RecordTrade, DamageJournal, AfterClose, Backup,
                BackupByHand, Rank
  <2>2. step = "done" => step' = "done"
    BY <1>4 DEF RecordFill, CutFill, RecordTrade, DamageJournal, AfterClose, Backup,
                BackupByHand, Rank
  <2>3. step' # "done" => reported' = {}
    BY <2>1, <2>2 DEF ReportInv
  <2>. QED  BY <2>1, <2>3 DEF ReportInv, MissedDayIsReported
<1>5. CASE UNCHANGED recordVars
  BY <1>5 DEF recordVars, ReportInv, MissedDayIsReported
<1>. QED  BY <1>1, <1>2, <1>3, <1>4, <1>5 DEF RecordsNext

-----------------------------------------------------------------------------
(***************************************************************************)
(* The types.  The lines of the fill log hold what was appended and        *)
(* nothing else; a line that is not ended is a line of the file, so that   *)
(* there is one for the next record to run into.                           *)
(***************************************************************************)
Lines == Seq([ids : SUBSET Nat, readable : BOOLEAN])

Holds(lines, n) == \A id : (\E i \in DOMAIN lines : id \in lines[i].ids) <=> id \in 1..n

LogInv ==
    /\ appended \in Nat /\ appended <= MaxFills
    /\ noted \subseteq 1..appended
    /\ fills \in [lines : Lines, ended : BOOLEAN]
    /\ ~fills.ended => fills.lines # <<>>
    /\ Holds(fills.lines, appended)

\* The copies that can have been read back up to a day.
Copies(day) == [date : 1..day, rows : 1..MaxRows, over : BOOLEAN]

DaysInv ==
    /\ date \in Nat \ {0} /\ date <= RecordDays
    /\ step \in {"morning", "session", "idle", "backup", "ranking", "report", "done"}
    /\ tradingDays \subseteq 1..date /\ logged \subseteq 1..date
    /\ runs \subseteq 1..date /\ verified \subseteq Copies(date)
    /\ journal \in Nat /\ journal <= MaxRows
    /\ DOMAIN saved \subseteq runs /\ Cardinality(DOMAIN saved) <= KeepSnapshots
    /\ reported \subseteq {"no log", "not started", "summary"}

\* The constants are numbers above zero.
LEMMA RecordsBounds ==
    /\ RecordDays \in Nat \ {0} /\ KeepSnapshots \in Nat \ {0}
    /\ MaxFills \in Nat \ {0} /\ MaxRows \in Nat \ {0}
BY RecordsAssumption, Zenon DEF RecordsAssumption

\* Whether the file was ended or not, an append adds one record to its lines.
LEMMA AppendAddsOne ==
    ASSUME NEW file \in [lines : Lines, ended : BOOLEAN], NEW n \in Nat,
           NEW whole \in BOOLEAN,
           ~file.ended => file.lines # <<>>, Holds(file.lines, n)
    PROVE  /\ Appended(file, n + 1, whole) \in Lines \ {<<>>}
           /\ Holds(Appended(file, n + 1, whole), n + 1)
<1>. DEFINE s == file.lines
            t == Appended(file, n + 1, whole)
            k == Len(s)
<1>1. /\ s \in Lines /\ k \in Nat /\ DOMAIN s = 1..k
      /\ \A i \in 1..k : s[i] \in [ids : SUBSET Nat, readable : BOOLEAN]
  <2>1. s \in Lines
    OBVIOUS
  <2>2. ASSUME NEW L, NEW q \in Seq(L)
        PROVE  /\ Len(q) \in Nat /\ DOMAIN q = 1..Len(q)
               /\ \A i \in 1..Len(q) : q[i] \in L
    OBVIOUS
  <2>. HIDE DEF s
  <2>. QED  BY <2>1, <2>2, Zenon DEF Lines, k
<1>2. CASE file.ended
  <2>1. t = Append(s, [ids |-> {n + 1}, readable |-> whole])
    BY <1>2 DEF Appended
  <2>2. [ids |-> {n + 1}, readable |-> whole] \in [ids : SUBSET Nat, readable : BOOLEAN]
    OBVIOUS
  <2>. HIDE DEF t, s
  <2>3. /\ t \in Lines \ {<<>>} /\ DOMAIN t = 1..(k + 1)
        /\ \A i \in 1..k : t[i] = s[i]
        /\ t[k + 1] = [ids |-> {n + 1}, readable |-> whole]
    BY <1>1, <2>1, <2>2 DEF Lines
  <2>4. \A id : (\E i \in DOMAIN t : id \in t[i].ids)
                 <=> (\E i \in DOMAIN s : id \in s[i].ids) \/ id = n + 1
    BY <1>1, <2>3
  <2>5. Holds(t, n + 1)
    <3>1. 1..(n + 1) = 1..n \cup {n + 1}
      OBVIOUS
    <3>2. \A id : (\E i \in DOMAIN s : id \in s[i].ids) <=> id \in 1..n
      BY DEF Holds, s
    <3>. QED  BY <2>4, <3>1, <3>2, Zenon DEF Holds
  <2>. QED  BY <2>3, <2>5 DEF t
<1>3. CASE ~file.ended
  <2>1. k \in 1..k /\ k > 0
    BY <1>1, <1>3
  <2>2. t = [s EXCEPT ![k] = [ids |-> s[k].ids \cup {n + 1}, readable |-> FALSE]]
    BY <1>1, <1>3, <2>1 DEF Appended
  <2>3. [ids |-> s[k].ids \cup {n + 1}, readable |-> FALSE]
            \in [ids : SUBSET Nat, readable : BOOLEAN]
    BY <1>1, <2>1
  <2>. HIDE DEF t, s
  <2>4. /\ t \in Lines /\ DOMAIN t = 1..k
        /\ \A i \in 1..k : t[i] = IF i = k THEN [ids |-> s[k].ids \cup {n + 1},
                                               readable |-> FALSE]
                                  ELSE s[i]
    BY <1>1, <2>1, <2>2, <2>3 DEF Lines
  <2>5. t # <<>>
    BY <2>1, <2>4
  <2>6. \A id : (\E i \in DOMAIN t : id \in t[i].ids)
                 <=> (\E i \in DOMAIN s : id \in s[i].ids) \/ id = n + 1
    <3>1. t[k].ids = s[k].ids \cup {n + 1}
      BY <2>1, <2>4
    <3>2. \A i \in 1..k : i # k => t[i].ids = s[i].ids
      BY <2>4
    <3>. QED  BY <1>1, <2>1, <2>4, <3>1, <3>2, Zenon
  <2>7. Holds(t, n + 1)
    <3>1. 1..(n + 1) = 1..n \cup {n + 1}
      OBVIOUS
    <3>2. \A id : (\E i \in DOMAIN s : id \in s[i].ids) <=> id \in 1..n
      BY DEF Holds, s
    <3>. QED  BY <2>6, <3>1, <3>2, Zenon DEF Holds
  <2>. QED  BY <2>4, <2>5, <2>7 DEF t
<1>. QED  BY <1>2, <1>3

\* At first the log is empty.
LEMMA LogAtStart == RecordsInit => LogInv
<1>. SUFFICES ASSUME RecordsInit PROVE LogInv
  OBVIOUS
<1>1. fills = [lines |-> <<>>, ended |-> TRUE] /\ appended = 0 /\ noted = {}
  BY DEF RecordsInit
<1>2. Holds(<<>>, 0)
  BY DEF Holds
<1>3. <<>> \in Lines
  BY DEF Lines
<1>. QED  BY <1>1, <1>2, <1>3, RecordsBounds DEF LogInv

\* At first no day has left anything.
LEMMA DaysAtStart == RecordsInit => DaysInv
<1>. SUFFICES ASSUME RecordsInit PROVE DaysInv
  OBVIOUS
<1>1. DOMAIN saved = {} /\ Cardinality({}) = 0
  BY FS_EmptySet DEF RecordsInit
<1>. QED  BY <1>1, RecordsBounds DEF RecordsInit, DaysInv

\* Every step keeps the types of the log.
LEMMA StepKeepsLog ==
    ASSUME LogInv, [RecordsNext]_recordVars
    PROVE  LogInv'
<1>1. ASSUME NEW whole \in BOOLEAN, NEW ended \in BOOLEAN, appended < MaxFills,
             appended' = appended + 1, noted' \subseteq noted \cup {appended'},
             fills' = [lines |-> Appended(fills, appended', whole), ended |-> ended]
      PROVE  LogInv'
  <2>1. /\ appended' \in Nat /\ appended' <= MaxFills /\ noted' \subseteq 1..appended'
    BY <1>1, RecordsBounds DEF LogInv
  <2>2. /\ Appended(fills, appended', whole) \in Lines \ {<<>>}
        /\ Holds(Appended(fills, appended', whole), appended')
    BY <1>1, AppendAddsOne DEF LogInv
  <2>3. /\ fills' \in [lines : Lines, ended : BOOLEAN]
        /\ fills'.lines # <<>> /\ Holds(fills'.lines, appended')
    BY <1>1, <2>2
  <2>. QED  BY <2>1, <2>3 DEF LogInv
<1>2. CASE RecordFill
  <2>1. /\ appended < MaxFills /\ appended' = appended + 1
        /\ noted' \subseteq noted \cup {appended'}
        /\ fills' = [lines |-> Appended(fills, appended', TRUE), ended |-> TRUE]
    BY <1>2 DEF RecordFill
  <2>. QED  BY <1>1, <2>1
<1>3. CASE CutFill
  <2>1. PICK whole \in BOOLEAN :
            fills' = [lines |-> Appended(fills, appended', whole), ended |-> FALSE]
    BY <1>3 DEF CutFill
  <2>2. /\ appended < MaxFills /\ appended' = appended + 1
        /\ noted' \subseteq noted \cup {appended'}
    BY <1>3 DEF CutFill
  <2>. QED  BY <1>1, <2>1, <2>2
<1>4. CASE \/ RecordTrade \/ DamageJournal \/ Morning \/ AfterClose \/ Backup
           \/ BackupByHand \/ Rank \/ Report \/ NextDate
  <2>1. UNCHANGED <<fills, appended, noted>>
    BY <1>4 DEF RecordTrade, DamageJournal, Morning, AfterClose, Backup, BackupByHand,
                Rank, Report, NextDate
  <2>. QED  BY <2>1 DEF LogInv
<1>5. CASE UNCHANGED recordVars
  BY <1>5 DEF recordVars, LogInv
<1>. QED  BY <1>2, <1>3, <1>4, <1>5 DEF RecordsNext

\* A copy adds today to the runs and leaves what the pruning leaves.
LEMMA CopyKeepsDays ==
    ASSUME DaysInv, NEW outcome \in Outcomes, CopyJournal(outcome)
    PROVE  /\ runs' \subseteq 1..date /\ DOMAIN saved' \subseteq runs'
           /\ Cardinality(DOMAIN saved') <= KeepSnapshots
           /\ verified' \subseteq Copies(date)
<1>. DEFINE D == DOMAIN saved \cup {date}
<1>1. date \in Nat \ {0} /\ runs \subseteq 1..date /\ DOMAIN saved \subseteq runs
  BY DEF DaysInv
<1>2. runs' = runs \cup {date} /\ DOMAIN saved' = NewestKept(D)
  BY DEF CopyJournal
<1>3. D \in SUBSET (1..date)
  <2>1. date \in 1..date
    BY <1>1
  <2>. QED  BY <1>1, <2>1
<1>. HIDE DEF D
<1>4. NewestKept(D) \subseteq D
  BY DEF NewestKept
<1>5. Cardinality(NewestKept(D)) <= KeepSnapshots
  BY <1>1, <1>3, PruningLeavesFew
<1>6. verified' \subseteq Copies(date)
  <2>1. verified \subseteq Copies(date)
    BY Zenon DEF DaysInv
  <2>2. CASE verified' = {[date |-> date, rows |-> journal, over |-> FALSE]} /\ journal > 0
    <3>1. date \in 1..date
      BY <1>1
    <3>2. journal \in Nat /\ journal <= MaxRows
      BY Zenon DEF DaysInv
    <3>3. journal \in 1..MaxRows
      BY <2>2, <3>2, RecordsBounds
    <3>. QED  BY <2>2, <3>1, <3>3 DEF Copies
  <2>. DEFINE wrote == Wrote(outcome)
  <2>. HIDE DEF wrote
  <2>3. CASE verified' = {[c EXCEPT !.over = @ \/ (wrote /\ c.date = date)] : c \in verified}
    <3>1. ASSUME NEW c \in Copies(date)
          PROVE  [c EXCEPT !.over = @ \/ (wrote /\ c.date = date)] \in Copies(date)
      <4>1. (c.over \/ (wrote /\ c.date = date)) \in BOOLEAN
        BY Zenon
      <4>2. [c EXCEPT !.over = (c.over \/ (wrote /\ c.date = date))]
                = [c EXCEPT !.over = @ \/ (wrote /\ c.date = date)]
        BY Zenon
      <4>3. ASSUME NEW b \in BOOLEAN PROVE [c EXCEPT !.over = b] \in Copies(date)
        BY DEF Copies
      <4>. QED  BY <4>1, <4>2, <4>3, Zenon
    <3>. QED  BY <2>1, <2>3, <3>1, Zenon
  <2>4. \/ verified' = {[c EXCEPT !.over = @ \/ (wrote /\ c.date = date)] : c \in verified}
        \/ verified' = {[date |-> date, rows |-> journal, over |-> FALSE]} /\ journal > 0
    BY Zenon DEF CopyJournal, wrote, Wrote
  <2>. QED  BY <2>2, <2>3, <2>4, Zenon
<1>. QED  BY <1>1, <1>2, <1>3, <1>4, <1>5, <1>6 DEF D

\* Every step keeps the types of the rest.
LEMMA StepKeepsDays ==
    ASSUME DaysInv, [RecordsNext]_recordVars
    PROVE  DaysInv'
<1>1. CASE RecordFill \/ CutFill
  BY <1>1 DEF RecordFill, CutFill, DaysInv
<1>2. CASE RecordTrade \/ DamageJournal
  <2>1. /\ journal \in Nat /\ journal <= MaxRows /\ MaxRows \in Nat
        /\ \/ journal' = journal + 1 /\ journal < MaxRows
           \/ journal' \in 0..(journal - 1)
    BY <1>2, RecordsBounds DEF RecordTrade, DamageJournal, DaysInv
  <2>2. journal' \in Nat /\ journal' <= MaxRows
    BY <2>1
  <2>. QED  BY <1>2, <2>2 DEF RecordTrade, DamageJournal, DaysInv
<1>3. CASE Morning
  <2>1. /\ tradingDays' \subseteq 1..date /\ logged' \subseteq 1..date
        /\ step' \in {"session", "idle"}
    <3>1. date \in Nat \ {0} /\ tradingDays \subseteq 1..date /\ logged \subseteq 1..date
      BY DEF DaysInv
    <3>2. /\ tradingDays' \subseteq tradingDays \cup {date}
          /\ logged' \subseteq logged \cup {date} /\ step' \in {"session", "idle"}
      BY <1>3 DEF Morning
    <3>. QED  BY <3>1, <3>2
  <2>. QED  BY <1>3, <2>1 DEF Morning, DaysInv
<1>4. CASE AfterClose
  <2>1. step' \in {"done", "backup"}
    BY <1>4 DEF AfterClose
  <2>. QED  BY <1>4, <2>1 DEF AfterClose, DaysInv
<1>5. CASE Backup
  <2>1. PICK outcome \in Outcomes : CopyJournal(outcome)
    BY <1>5 DEF Backup
  <2>2. /\ runs' \subseteq 1..date /\ DOMAIN saved' \subseteq runs'
        /\ Cardinality(DOMAIN saved') <= KeepSnapshots /\ verified' \subseteq Copies(date)
    BY <2>1, CopyKeepsDays
  <2>. QED  BY <1>5, <2>2 DEF Backup, DaysInv
<1>6. CASE BackupByHand
  <2>1. PICK outcome \in Outcomes : CopyJournal(outcome)
    BY <1>6 DEF BackupByHand
  <2>2. /\ runs' \subseteq 1..date /\ DOMAIN saved' \subseteq runs'
        /\ Cardinality(DOMAIN saved') <= KeepSnapshots /\ verified' \subseteq Copies(date)
    BY <2>1, CopyKeepsDays
  <2>. QED  BY <1>6, <2>2 DEF BackupByHand, DaysInv
<1>7. CASE Rank
  BY <1>7 DEF Rank, DaysInv
<1>8. CASE Report
  <2>1. reported' \subseteq {"no log", "not started", "summary"}
    BY <1>8, Zenon DEF Report
  <2>. QED  BY <1>8, <2>1 DEF Report, DaysInv
<1>9. CASE NextDate
  <2>1. date' \in Nat \ {0} /\ date' <= RecordDays /\ 1..date \subseteq 1..date'
    <3>1. date \in Nat \ {0} /\ RecordDays \in Nat
      BY RecordsBounds DEF DaysInv
    <3>2. date < RecordDays /\ date' = date + 1
      BY <1>9 DEF NextDate
    <3>. QED  BY <3>1, <3>2
  <2>2. verified' \subseteq Copies(date')
    BY <1>9, <2>1 DEF NextDate, DaysInv, Copies
  <2>. QED  BY <1>9, <2>1, <2>2 DEF NextDate, DaysInv
<1>10. CASE UNCHANGED recordVars
  BY <1>10 DEF recordVars, DaysInv
<1>. QED
  BY <1>1, <1>2, <1>3, <1>4, <1>5, <1>6, <1>7, <1>8, <1>9, <1>10
     DEF RecordsNext

-----------------------------------------------------------------------------

\* A copy of the journal that was read back stays recoverable until the tool
\* writes over it on the same date or has run for --keep newer dates, well or
\* badly, whatever damage, failing copies of other dates and pruning lie
\* between (backup_records and _prune).
THEOREM CopiesSurvive == RecordsSpec => []RecentDaysRecoverable
<1>1. SnapshotInv => RecentDaysRecoverable
  BY DEF SnapshotInv
<1>. QED  BY <1>1, SnapshotsAtStart, StepKeepsSnapshots, PTL DEF RecordsSpec

\* A trading day without a line in the log is never summarised as if an
\* earlier day were the last one (main of daily_report.py).
THEOREM MissedDaysAreReported == RecordsSpec => []MissedDayIsReported
<1>1. ReportInv => MissedDayIsReported
  BY DEF ReportInv
<1>. QED  BY <1>1, ReportAtStart, StepKeepsReport, PTL DEF RecordsSpec

\* No more snapshots than --keep are left on disk, each of a date the tool ran
\* for; every fill stands in the log's lines, readable or not, and nothing else
\* does; no list of days runs ahead of the calendar.
THEOREM RecordsTypeCorrect == RecordsSpec => []RecordsTypeOK
<1>1. LogInv /\ DaysInv => RecordsTypeOK
  <2>. SUFFICES ASSUME LogInv, DaysInv PROVE RecordsTypeOK
    OBVIOUS
  <2>1. UNION {line.ids : line \in ToSet(fills.lines)} = 1..appended
    <3>. DEFINE s == fills.lines
    <3>1. \A id : (\E i \in DOMAIN s : id \in s[i].ids) <=> id \in 1..appended
      BY DEF LogInv, Holds
    <3>. HIDE DEF s
    <3>2. UNION {line.ids : line \in ToSet(s)} = 1..appended
      BY <3>1, Zenon DEF ToSet
    <3>. QED  BY <3>2 DEF s
  <2>2. date \in 1..RecordDays /\ appended \in 0..MaxFills /\ journal \in 0..MaxRows
    <3>1. /\ date \in Nat \ {0} /\ date <= RecordDays
          /\ appended \in Nat /\ appended <= MaxFills
          /\ journal \in Nat /\ journal <= MaxRows
      BY DEF LogInv, DaysInv
    <3>. QED  BY <3>1, RecordsBounds
  <2>. QED  BY <2>1, <2>2 DEF LogInv, DaysInv, RecordsTypeOK, Copies
<1>. QED
  BY <1>1, LogAtStart, DaysAtStart, StepKeepsLog, StepKeepsDays, PTL DEF RecordsSpec
=============================================================================
