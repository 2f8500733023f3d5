----------------------------- MODULE WalkForward -----------------------------
(***************************************************************************)
(* backtest/walk_forward.py and multi_symbol.py: the windows of training   *)
(* and test bars that slide over the data of one symbol after the other,   *)
(* and the setting chosen from the training bars.  How a setting scores is *)
(* left open: a score is a number or, as NaN, missing.  Bars are counted   *)
(* from 0, as in the source.                                               *)
(***************************************************************************)
EXTENDS Integers, Sequences, SequencesExt, FiniteSetsExt

CONSTANTS Frames,      \* the sequence of symbols, each with its number of bars
          Spans,       \* [train, test, step]: step is a set of at most one value
          Metrics,     \* [trades, score, total] that a setting may reach
          Settings,    \* the grid, in its order
          MinTrades

ASSUME WalkAssumption ==
    /\ MinTrades \in Nat
    /\ Frames \in Seq(Nat)
    /\ \A s \in Spans : /\ {s.train, s.test} \cup s.step \subseteq Nat \ {0}
                        /\ \A n, m \in s.step : n = m

VARIABLES span, frame, start, windows, skipped, outcomes

walkVars == <<span, frame, start, windows, skipped, outcomes>>

WalkInit ==
    /\ span \in Spans
    /\ frame = 1
    /\ start = 0
    /\ windows = <<>>
    /\ skipped = 0
    /\ outcomes = <<>>

\* Without a step the windows advance by the test bars.
Step == IF span.step = {} THEN span.test ELSE Max(span.step)

\* Mutant: the test bars begin with the last bar of the training.
TestFromLastTrainingBar(first) == first + span.train - 1

TestFrom(first) == first + span.train

Eligible(metrics) == {c \in DOMAIN metrics : metrics[c].trades >= MinTrades
                                            /\ metrics[c].score # {}}

\* Higher score, then higher total return; the earlier setting keeps a tie.
Better(metrics, c, d) ==
    LET a == Max(metrics[c].score)
        b == Max(metrics[d].score)
    IN  \/ a > b
        \/ a = b /\ metrics[c].total > metrics[d].total
        \/ a = b /\ metrics[c].total = metrics[d].total /\ c < d

Best(metrics) ==
    {c \in Eligible(metrics) : \A d \in Eligible(metrics) \ {c} : Better(metrics, c, d)}

\* A window is trained, then tested with the setting chosen, or skipped when
\* no setting traded often enough.
JudgeWindow ==
    /\ frame <= Len(Frames)
    /\ start + span.train + span.test <= Frames[frame]
    /\ \E metrics \in [Settings -> Metrics] :
          IF Best(metrics) = {}
          THEN skipped' = skipped + 1 /\ UNCHANGED windows
          ELSE /\ windows' = Append(windows,
                     [train |-> start .. (start + span.train - 1),
                      test  |-> TestFrom(start) .. (start + span.train + span.test - 1)])
               /\ UNCHANGED skipped
    /\ start' = start + Step
    /\ UNCHANGED <<span, frame, outcomes>>

\* The symbol's windows are exhausted: its outcome joins the report.
NextSymbol ==
    /\ frame <= Len(Frames)
    /\ start + span.train + span.test > Frames[frame]
    /\ outcomes' = Append(outcomes, [windows |-> Len(windows), skipped |-> skipped])
    /\ frame' = frame + 1
    /\ start' = 0
    /\ windows' = <<>>
    /\ skipped' = 0
    /\ UNCHANGED span

\* The data of one symbol raises: the symbol is left out, the others go on.
SymbolFails ==
    /\ frame <= Len(Frames)
    /\ frame' = frame + 1
    /\ start' = 0
    /\ windows' = <<>>
    /\ skipped' = 0
    /\ UNCHANGED <<span, outcomes>>

WalkNext == JudgeWindow \/ NextSymbol \/ SymbolFails

WalkSpec == WalkInit /\ [][WalkNext]_walkVars

WalkTypeOK ==
    /\ span \in Spans
    /\ frame \in 1..(Len(Frames) + 1)
    /\ start \in Nat /\ skipped \in Nat
    /\ \A w \in ToSet(windows) : w.train \subseteq Nat /\ w.test \subseteq Nat
    /\ Len(outcomes) < frame

\* No result is measured on a bar that chose the setting, none lies outside
\* the data, and with the default step no bar is tested twice, so adding the
\* windows' trades up counts nothing double (the module's docstring).
TestedOnceAndUnseen ==
    /\ \A w \in ToSet(windows) :
          w.train \cap w.test = {} /\ w.test \subseteq 0..(Frames[frame] - 1)
    /\ span.step = {} =>
          \A i, j \in DOMAIN windows : i # j => windows[i].test \cap windows[j].test = {}
=============================================================================
