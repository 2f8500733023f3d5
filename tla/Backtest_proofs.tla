--------------------------- MODULE Backtest_proofs ---------------------------
(***************************************************************************)
(* Theorems about the backtests: the windows of the walk-forward, the      *)
(* engine and the portfolio, for any data, any grid and any length.        *)
(***************************************************************************)
EXTENDS WalkForward, BacktestParity, FiniteSetTheorems, SequenceTheorems,
        WellFoundedInduction, TLAPS

-----------------------------------------------------------------------------
(* Greatest and least of few values *)

\* The greatest of one integer.
LEMMA MaxOfOne == ASSUME NEW a \in Int PROVE Max({a}) = a
BY DEF Max

\* The greatest of two integers is one of them and below neither.
LEMMA MaxOfTwo ==
    ASSUME NEW a \in Int, NEW b \in Int
    PROVE  Max({a, b}) \in {a, b} /\ Max({a, b}) >= a /\ Max({a, b}) >= b
<1>1. \E x \in {a, b} : \A y \in {a, b} : x >= y
  <2>1. a >= b \/ b >= a
    OBVIOUS
  <2>. QED  BY <2>1
<1>. QED  BY <1>1 DEF Max

\* The least of one integer.
LEMMA MinOfOne == ASSUME NEW a \in Int PROVE Min({a}) = a
BY DEF Min

\* The least of two integers is one of them and above neither.
LEMMA MinOfTwo ==
    ASSUME NEW a \in Int, NEW b \in Int
    PROVE  Min({a, b}) \in {a, b} /\ Min({a, b}) <= a /\ Min({a, b}) <= b
<1>1. \E x \in {a, b} : \A y \in {a, b} : x =< y
  <2>1. a =< b \/ b =< a
    OBVIOUS
  <2>. QED  BY <2>1
<1>. QED  BY <1>1 DEF Min

-----------------------------------------------------------------------------
(***************************************************************************)
(* The windows of the walk-forward.  With the default step the next test   *)
(* begins where the last one ended: every bar tested so far lies before    *)
(* the bars that the next window tests.                                    *)
(***************************************************************************)
Window(w) == w.train \cap w.test = {} /\ w.test \subseteq 0..(Frames[frame] - 1)

WalkInv ==
    /\ span \in Spans
    /\ frame \in Nat \ {0} /\ start \in Nat
    /\ windows \in Seq([train : SUBSET Nat, test : SUBSET Nat])
    /\ \A i \in DOMAIN windows : Window(windows[i])
    /\ span.step = {} =>
          /\ \A i \in DOMAIN windows : \A n \in windows[i].test : n < start + span.train
          /\ \A i, j \in DOMAIN windows :
                i # j => windows[i].test \cap windows[j].test = {}

\* A span is counted in bars, and the default step is the length of a test.
LEMMA SpanNumbers ==
    ASSUME WalkInv
    PROVE  /\ span.train \in Nat \ {0} /\ span.test \in Nat \ {0} /\ Step \in Nat \ {0}
           /\ span.step = {} => Step = span.test
<1>1. /\ {span.train, span.test} \cup span.step \subseteq Nat \ {0}
      /\ \A n, m \in span.step : n = m
  BY WalkAssumption DEF WalkAssumption, WalkInv
<1>2. ASSUME span.step # {} PROVE Step \in Nat \ {0}
  <2>1. PICK n \in span.step : span.step = {n}
    BY <1>1, <1>2
  <2>2. Max(span.step) = n
    BY <1>1, <2>1, MaxOfOne
  <2>. QED  BY <1>1, <1>2, <2>1, <2>2 DEF Step
<1>. QED  BY <1>1, <1>2 DEF Step

\* Windows are made of bar numbers.
LEMMA WindowAt ==
    ASSUME WalkInv, NEW i \in DOMAIN windows
    PROVE  windows[i].train \subseteq Nat /\ windows[i].test \subseteq Nat
<1>. DEFINE W == [train : SUBSET Nat, test : SUBSET Nat]
<1>1. windows \in Seq(W) /\ i \in 1..Len(windows)
  BY DEF WalkInv
<1>2. windows[i] \in W
  <2>. HIDE DEF W
  <2>. QED  BY <1>1, ElementOfSeq
<1>. QED  BY <1>2

\* No symbol has been walked through at first.
LEMMA WalkStart == WalkInit => WalkInv
BY DEF WalkInit, WalkInv

\* A symbol that is finished or left out takes its windows with it.
LEMMA FreshSymbol ==
    ASSUME WalkInv, UNCHANGED span, frame' = frame + 1, start' = 0, windows' = <<>>
    PROVE  WalkInv'
BY DEF WalkInv

\* The next window lies in the data, after what trains it and what was tested.
LEMMA JudgedWindow ==
    ASSUME WalkInv, JudgeWindow
    PROVE  WalkInv'
<1>. DEFINE new == [train |-> start .. (start + span.train - 1),
                    test |-> TestFrom(start) .. (start + span.train + span.test - 1)]
<1>1. /\ UNCHANGED <<span, frame>> /\ start' = start + Step
      /\ frame <= Len(Frames) /\ start + span.train + span.test <= Frames[frame]
      /\ windows' = windows \/ windows' = Append(windows, new)
  BY DEF JudgeWindow
<1>2. /\ span.train \in Nat \ {0} /\ span.test \in Nat \ {0} /\ Step \in Nat \ {0}
      /\ span.step = {} => Step = span.test
  BY SpanNumbers
<1>3. Frames[frame] \in Nat
  BY <1>1, WalkAssumption DEF WalkAssumption, WalkInv
<1>4. /\ span \in Spans /\ frame \in Nat \ {0} /\ start \in Nat
      /\ windows \in Seq([train : SUBSET Nat, test : SUBSET Nat])
  BY DEF WalkInv
<1>5. /\ new.train = start .. (start + span.train - 1)
      /\ new.test = (start + span.train) .. (start + span.train + span.test - 1)
  BY DEF TestFrom
<1>6. new \in [train : SUBSET Nat, test : SUBSET Nat] /\ Window(new)
  <2>1. /\ start .. (start + span.train - 1) \subseteq Nat
        /\ (start + span.train) .. (start + span.train + span.test - 1) \subseteq Nat
    BY <1>2, <1>4
  <2>2. (start .. (start + span.train - 1))
            \cap ((start + span.train) .. (start + span.train + span.test - 1)) = {}
    BY <1>2, <1>4
  <2>3. (start + span.train) .. (start + span.train + span.test - 1)
            \subseteq 0..(Frames[frame] - 1)
    <3>1. start + span.train + span.test <= Frames[frame]
      BY <1>1
    <3>. QED  BY <1>2, <1>3, <1>4, <3>1
  <2>4. new \in [train : SUBSET Nat, test : SUBSET Nat]
    BY <2>1 DEF TestFrom
  <2>. HIDE DEF new
  <2>. QED  BY <1>5, <2>2, <2>3, <2>4 DEF Window
<1>7. start' \in Nat /\ start' + span.train >= start + span.train
  BY <1>1, <1>2, <1>4
<1>8. CASE windows' = windows
  <2>1. ASSUME span.step = {}, NEW i \in DOMAIN windows, NEW n \in windows[i].test
        PROVE  n < start' + span.train
    <3>1. n < start + span.train
      BY <2>1 DEF WalkInv
    <3>2. n \in Nat
      BY <2>1, WindowAt
    <3>. QED  BY <1>1, <1>2, <1>4, <3>1, <3>2
  <2>. QED  BY <1>1, <1>4, <1>7, <1>8, <2>1 DEF WalkInv, Window
<1>9. CASE windows' = Append(windows, new)
  <2>. HIDE DEF new
  <2>1. /\ windows' \in Seq([train : SUBSET Nat, test : SUBSET Nat])
        /\ DOMAIN windows' = DOMAIN windows \cup {Len(windows) + 1}
        /\ Len(windows) + 1 \notin DOMAIN windows
        /\ \A i \in DOMAIN windows : windows'[i] = windows[i]
        /\ windows'[Len(windows) + 1] = new
    BY <1>4, <1>6, <1>9
  <2>2. \A i \in DOMAIN windows' : Window(windows'[i])
    BY <1>6, <2>1 DEF WalkInv
  <2>3. ASSUME span.step = {}, NEW i \in DOMAIN windows, NEW n \in windows[i].test
        PROVE  n < start + span.train /\ n \in Nat
    <3>1. n < start + span.train
      BY <2>3 DEF WalkInv
    <3>. QED  BY <2>3, <3>1, WindowAt
  <2>4. \A n \in new.test : n \in Nat /\ start + span.train <= n
                            /\ n < start + span.test + span.train
    BY <1>2, <1>4, <1>5
  <2>5. ASSUME span.step = {}, NEW i \in DOMAIN windows', NEW n \in windows'[i].test
        PROVE  n < start' + span.train
    BY <1>1, <1>2, <1>4, <2>1, <2>3, <2>4, <2>5
  <2>6. ASSUME span.step = {}, NEW i \in DOMAIN windows
        PROVE  windows[i].test \cap new.test = {}
    BY <1>2, <1>4, <2>3, <2>4, <2>6
  <2>7. ASSUME span.step = {}, NEW i \in DOMAIN windows', NEW j \in DOMAIN windows', i # j
        PROVE  windows'[i].test \cap windows'[j].test = {}
    BY <2>1, <2>6, <2>7 DEF WalkInv
  <2>. QED  BY <1>1, <1>4, <1>7, <2>1, <2>2, <2>5, <2>7 DEF WalkInv, Window
<1>. QED  BY <1>1, <1>8, <1>9

\* Every step of the walk-forward keeps its invariant.
LEMMA WalkStep == WalkInv /\ [WalkNext]_walkVars => WalkInv'
<1>1. ASSUME WalkInv, NextSymbol \/ SymbolFails PROVE WalkInv'
  BY <1>1, FreshSymbol DEF NextSymbol, SymbolFails
<1>2. ASSUME WalkInv, UNCHANGED walkVars PROVE WalkInv'
  BY <1>2 DEF walkVars, WalkInv, Window
<1>. QED  BY <1>1, <1>2, JudgedWindow DEF WalkNext

\* No window is tested on a bar that chose its setting or outside the data,
\* and with the default step no bar is tested twice (run_walk_forward).
THEOREM WindowsAreHonest == WalkSpec => []TestedOnceAndUnseen
<1>1. WalkInv => TestedOnceAndUnseen
  BY DEF WalkInv, Window, TestedOnceAndUnseen, ToSet
<1>. QED  BY <1>1, WalkStart, WalkStep, PTL DEF WalkSpec

\* Every symbol ends with one outcome at most, and its windows with it.
WalkTypeInv == WalkInv /\ WalkTypeOK /\ outcomes \in Seq([windows : Nat, skipped : Nat])

\* Every step of the walk keeps its types.
LEMMA WalkStepKeepsType == WalkTypeInv /\ [WalkNext]_walkVars => WalkTypeInv'
<1>. SUFFICES ASSUME WalkTypeInv, [WalkNext]_walkVars PROVE WalkTypeInv'
  OBVIOUS
<1>1. WalkInv'
  BY WalkStep DEF WalkTypeInv
<1>2. \A w \in ToSet(windows') : w.train \subseteq Nat /\ w.test \subseteq Nat
  <2>. DEFINE W == [train : SUBSET Nat, test : SUBSET Nat]
  <2>1. windows' \in Seq(W)
    BY <1>1 DEF WalkInv
  <2>2. \A i \in DOMAIN windows' : windows'[i] \in W
    <3>. HIDE DEF W
    <3>1. DOMAIN windows' = 1..Len(windows')
      BY <2>1
    <3>. QED  BY <2>1, <3>1, ElementOfSeq
  <2>3. \A w \in ToSet(windows') : w \in W
    <3>. HIDE DEF W
    <3>. QED  BY <2>2 DEF ToSet
  <2>. QED  BY <2>3
<1>3. Len(Frames) \in Nat /\ Len(windows) \in Nat /\ Step \in Nat
  BY WalkAssumption, SpanNumbers DEF WalkAssumption, WalkTypeInv, WalkInv
<1>4. span' = span
  BY DEF WalkTypeInv, WalkNext, JudgeWindow, NextSymbol, SymbolFails, walkVars
<1>5. /\ frame' \in 1..(Len(Frames) + 1) /\ start' \in Nat /\ skipped' \in Nat
      /\ outcomes' \in Seq([windows : Nat, skipped : Nat]) /\ Len(outcomes') < frame'
  <2>1. CASE JudgeWindow
    BY <1>3, <2>1 DEF JudgeWindow, WalkTypeInv, WalkTypeOK
  <2>2. CASE NextSymbol
    <3>1. [windows |-> Len(windows), skipped |-> skipped] \in [windows : Nat, skipped : Nat]
      BY <1>3 DEF WalkTypeInv, WalkTypeOK
    <3>2. /\ outcomes' \in Seq([windows : Nat, skipped : Nat])
          /\ Len(outcomes') = Len(outcomes) + 1
      BY <2>2, <3>1 DEF NextSymbol, WalkTypeInv
    <3>. QED  BY <1>3, <2>2, <3>2 DEF NextSymbol, WalkTypeInv, WalkTypeOK
  <2>3. CASE SymbolFails
    BY <1>3, <2>3 DEF SymbolFails, WalkTypeInv, WalkTypeOK
  <2>4. CASE UNCHANGED walkVars
    BY <2>4 DEF walkVars, WalkTypeInv, WalkTypeOK
  <2>. QED  BY <2>1, <2>2, <2>3, <2>4 DEF WalkNext
<1>. QED  BY <1>1, <1>2, <1>4, <1>5 DEF WalkTypeInv, WalkTypeOK

\* The walk keeps its types, and reports a symbol once at most
\* (run_multi_symbol_walk_forward).
THEOREM WalkTypeCorrect == WalkSpec => []WalkTypeOK
<1>1. WalkInit => WalkTypeInv
  <2>. SUFFICES ASSUME WalkInit PROVE WalkTypeInv
    OBVIOUS
  <2>1. Len(Frames) \in Nat
    BY WalkAssumption DEF WalkAssumption
  <2>2. Len(<<>>) = 0 /\ ToSet(<<>>) = {}
    BY DEF ToSet
  <2>. QED  BY <2>1, <2>2, WalkStart DEF WalkInit, WalkTypeInv, WalkTypeOK
<1>2. WalkTypeInv => WalkTypeOK
  BY DEF WalkTypeInv
<1>. QED  BY <1>1, <1>2, WalkStepKeepsType, PTL DEF WalkSpec

-----------------------------------------------------------------------------
(* Bars and fills *)

\* The ranges of the percentages and costs.
LEMMA RuleConstants ==
    /\ StopLossPct \in 1..99 /\ TakeProfitPct \in 1..99 /\ RiskPct \in 1..99
    /\ SlippageBp \in 0..10000 /\ CommissionPerShare \in Nat
    /\ MinCommission \in Nat /\ CommissionCapPct \in Nat
BY RulesAssumption DEF RulesAssumption

\* A bar as the backtests read it keeps the order of the row's prices.
LEMMA BarInOrder ==
    ASSUME NEW row, IsRow(row), NEW bar, bar = BarAt(row)
    PROVE  /\ bar.low \in Nat /\ bar.high \in Nat /\ bar.close \in Nat
           /\ bar.low <= bar.close /\ bar.close <= bar.high
           /\ bar.open = {} \/ \E o \in Nat : /\ bar.open = {o}
                                              /\ bar.low <= o /\ o <= bar.high
<1>1. row.close \in Nat
  BY DEF IsRow
<1>2. /\ bar.open = row.open /\ bar.close = row.close
      /\ bar.high = IF row.high = {} THEN row.close ELSE Max(row.high)
      /\ bar.low = IF row.low = {} THEN row.close ELSE Min(row.low)
  BY DEF BarAt
<1>3. bar.high \in Nat /\ row.close <= bar.high
      /\ (row.high # {} => row.high = {bar.high})
  <2>1. CASE row.high = {}
    BY <1>1, <1>2, <2>1
  <2>2. CASE row.high # {}
    <3>1. PICK h \in Nat : row.high = {h}
      BY <2>2 DEF IsRow
    <3>2. Max(row.high) = h
      BY <3>1, MaxOfOne
    <3>3. row.close <= h
      BY <3>1 DEF IsRow
    <3>. QED  BY <1>2, <2>2, <3>1, <3>2, <3>3
  <2>. QED  BY <2>1, <2>2
<1>4. bar.low \in Nat /\ bar.low <= row.close
      /\ (row.low # {} => row.low = {bar.low})
  <2>1. CASE row.low = {}
    BY <1>1, <1>2, <2>1
  <2>2. CASE row.low # {}
    <3>1. PICK l \in Nat : row.low = {l}
      BY <2>2 DEF IsRow
    <3>2. Min(row.low) = l
      BY <3>1, MinOfOne
    <3>3. l <= row.close
      BY <3>1 DEF IsRow
    <3>. QED  BY <1>2, <2>2, <3>1, <3>2, <3>3
  <2>. QED  BY <2>1, <2>2
<1>5. ASSUME bar.open # {}
      PROVE  \E o \in Nat : bar.open = {o} /\ bar.low <= o /\ o <= bar.high
  <2>1. PICK o \in Nat : row.open = {o}
    BY <1>2, <1>5 DEF IsRow
  <2>2. row.high # {} /\ row.low # {}
    BY <1>2, <1>5 DEF IsRow
  <2>3. row.high = {bar.high} /\ row.low = {bar.low}
    BY <1>3, <1>4, <2>2
  <2>4. bar.low <= o /\ o <= bar.high
    BY <2>1, <2>3 DEF IsRow
  <2>. QED  BY <1>2, <2>1, <2>4
<1>. QED  BY <1>1, <1>2, <1>3, <1>4, <1>5

\* A sale at a higher price brings more, and never more than the price.
LEMMA SellFillBounds ==
    ASSUME NEW a \in Nat, NEW b \in Nat, a <= b
    PROVE  /\ SellFill(a) \in Nat /\ SellFill(b) \in Nat
           /\ SellFill(a) <= SellFill(b) /\ SellFill(b) <= b
<1>. DEFINE k == 10000 - SlippageBp
<1>1. k \in 0..10000
  BY RuleConstants
<1>2. SellFill(a) = (a * k) \div 10000 /\ SellFill(b) = (b * k) \div 10000
  BY DEF SellFill
<1>. HIDE DEF k
<1>3. /\ a * k \in Nat /\ b * k \in Nat
      /\ a * k <= b * k /\ b * k <= b * 10000
  BY <1>1
<1>4. \A x, y \in Nat : x \div 10000 \in Nat /\ (x <= y => x \div 10000 <= y \div 10000)
  OBVIOUS
<1>5. (b * 10000) \div 10000 = b
  OBVIOUS
<1>6. b * 10000 \in Nat
  OBVIOUS
<1>7. (a * k) \div 10000 <= (b * k) \div 10000
  BY <1>3, <1>4
<1>8. (b * k) \div 10000 <= (b * 10000) \div 10000
  BY <1>3, <1>4, <1>6
<1>. QED  BY <1>2, <1>3, <1>4, <1>5, <1>7, <1>8

\* What a bar allows a sale to bring.
Inside(fill, bar) ==
    /\ fill <= bar.high
    /\ bar.open # {} => fill >= SellFill(bar.low)

\* A market sale at the close is inside the bar.
LEMMA CloseIsInside ==
    ASSUME NEW row, IsRow(row)
    PROVE  Inside(SellFill(BarAt(row).close), BarAt(row))
<1>1. PICK bar : bar = BarAt(row)
  OBVIOUS
<1>2. /\ bar.low \in Nat /\ bar.high \in Nat /\ bar.close \in Nat
      /\ bar.low <= bar.close /\ bar.close <= bar.high
  BY <1>1, BarInOrder
<1>3. /\ SellFill(bar.low) <= SellFill(bar.close) /\ SellFill(bar.close) <= bar.close
      /\ SellFill(bar.low) \in Int /\ SellFill(bar.close) \in Int
  BY <1>2, SellFillBounds
<1>4. Inside(SellFill(bar.close), bar)
  BY <1>2, <1>3 DEF Inside
<1>. QED  BY <1>1, <1>4

\* A resting order fills inside the bar, the stop before its slippage.
LEMMA RestingIsInside ==
    ASSUME NEW row, IsRow(row), NEW stop \in Nat, NEW target \in Nat,
           NEW r \in RestingExit(stop, target, BarAt(row))
    PROVE  /\ r = [reason |-> r.reason, fill |-> r.fill]
           /\ r.reason \in {"STOP_LOSS", "TAKE_PROFIT"}
           /\ r.fill \in Nat
           /\ r.reason = "STOP_LOSS" => /\ Inside(SellFill(r.fill), BarAt(row))
                                        /\ r.fill >= BarAt(row).low
           /\ r.reason = "TAKE_PROFIT" => /\ Inside(r.fill, BarAt(row))
                                          /\ r.fill >= target
<1>1. PICK bar : bar = BarAt(row)
  OBVIOUS
<1>2. /\ bar.low \in Nat /\ bar.high \in Nat /\ bar.low <= bar.high
      /\ bar.open = {} \/ \E o \in Nat : /\ bar.open = {o}
                                         /\ bar.low <= o /\ o <= bar.high
  <2>1. /\ bar.low \in Nat /\ bar.high \in Nat /\ bar.close \in Nat
        /\ bar.low <= bar.close /\ bar.close <= bar.high
    BY <1>1, BarInOrder
  <2>2. bar.open = {} \/ \E o \in Nat : bar.open = {o} /\ bar.low <= o /\ o <= bar.high
    BY <1>1, BarInOrder
  <2>. QED  BY <2>1, <2>2
<1>. DEFINE stopFill == IF bar.open = {} THEN Min({stop, bar.low})
                        ELSE Min({stop} \cup bar.open)
            targetFill == Max({target} \cup bar.open)
<1>3. \/ bar.low <= stop /\ r = [reason |-> "STOP_LOSS", fill |-> stopFill]
      \/ /\ bar.low > stop /\ bar.high >= target
         /\ r = [reason |-> "TAKE_PROFIT", fill |-> targetFill]
  BY <1>1 DEF RestingExit
<1>4. r = [reason |-> r.reason, fill |-> r.fill]
  BY <1>3
<1>5. ASSUME bar.low <= stop
      PROVE  /\ stopFill \in Nat /\ stopFill <= bar.high
             /\ stopFill >= bar.low
  <2>1. CASE bar.open = {}
    <3>1. stopFill = Min({stop, bar.low})
      BY <2>1
    <3>. HIDE DEF stopFill
    <3>2. Min({stop, bar.low}) \in {stop, bar.low} /\ Min({stop, bar.low}) <= bar.low
      <4>1. bar.low \in Int /\ stop \in Int
        BY <1>2
      <4>. QED  BY <4>1, MinOfTwo
    <3>3. stopFill = bar.low
      BY <1>2, <1>5, <3>1, <3>2
    <3>. QED  BY <1>2, <2>1, <3>3
  <2>2. CASE bar.open # {}
    <3>1. PICK o \in Nat : bar.open = {o} /\ bar.low <= o /\ o <= bar.high
      BY <1>2, <2>2
    <3>2. stopFill = Min({stop, o})
      <4>1. {stop} \cup bar.open = {stop, o}
        BY <3>1
      <4>. QED  BY <2>2, <4>1
    <3>. HIDE DEF stopFill
    <3>3. Min({stop, o}) \in {stop, o} /\ Min({stop, o}) <= o
      BY MinOfTwo
    <3>. QED  BY <1>2, <1>5, <3>1, <3>2, <3>3
  <2>. QED  BY <2>1, <2>2
<1>6. ASSUME bar.low > stop, bar.high >= target
      PROVE  /\ targetFill \in Nat /\ targetFill <= bar.high
             /\ bar.open # {} => targetFill >= bar.low
             /\ targetFill >= target
  <2>1. CASE bar.open = {}
    <3>1. {target} \cup bar.open = {target}
      BY <2>1
    <3>2. targetFill = target
      BY <3>1, MaxOfOne
    <3>. QED  BY <1>6, <2>1, <3>2
  <2>2. CASE bar.open # {}
    <3>1. PICK o \in Nat : bar.open = {o} /\ bar.low <= o /\ o <= bar.high
      BY <1>2, <2>2
    <3>2. targetFill = Max({target, o})
      <4>1. {target} \cup bar.open = {target, o}
        BY <3>1
      <4>. QED  BY <4>1
    <3>. HIDE DEF targetFill
    <3>3. /\ Max({target, o}) \in {target, o}
          /\ Max({target, o}) >= o /\ Max({target, o}) >= target
      BY MaxOfTwo
    <3>. QED  BY <1>2, <1>6, <3>1, <3>2, <3>3
  <2>. QED  BY <2>1, <2>2
<1>. HIDE DEF stopFill, targetFill
<1>7. CASE bar.low <= stop
  <2>1. r.reason = "STOP_LOSS" /\ r.fill = stopFill
    BY <1>2, <1>3, <1>7
  <2>2. /\ stopFill \in Nat /\ stopFill <= bar.high
        /\ stopFill >= bar.low
    BY <1>5, <1>7
  <2>3. /\ SellFill(stopFill) \in Int /\ SellFill(stopFill) <= stopFill
    BY <2>2, SellFillBounds
  <2>4. SellFill(stopFill) >= SellFill(bar.low) /\ SellFill(bar.low) \in Int
    BY <1>2, <2>2, SellFillBounds
  <2>5. Inside(SellFill(stopFill), bar)
    BY <1>2, <2>2, <2>3, <2>4 DEF Inside
  <2>. QED  BY <1>1, <1>4, <2>1, <2>2, <2>5
<1>8. CASE ~(bar.low <= stop)
  <2>1. r.reason = "TAKE_PROFIT" /\ r.fill = targetFill /\ bar.low > stop /\ bar.high >= target
    BY <1>3, <1>8
  <2>2. /\ targetFill \in Nat /\ targetFill <= bar.high
        /\ bar.open # {} => targetFill >= bar.low
        /\ targetFill >= target
    BY <1>6, <2>1
  <2>3. SellFill(bar.low) \in Int /\ SellFill(bar.low) <= bar.low
    BY <1>2, SellFillBounds
  <2>4. Inside(targetFill, bar)
    BY <1>2, <2>2, <2>3 DEF Inside
  <2>. QED  BY <1>1, <1>4, <2>1, <2>2, <2>4
<1>. QED  BY <1>7, <1>8

-----------------------------------------------------------------------------
(***************************************************************************)
(* The engine.  The last bar of a day never leaves a position behind, the  *)
(* one it found is sold and none is opened; and the orders of a position   *)
(* stand at prices that exist, which bounds what they bring.               *)
(***************************************************************************)
EngineInv ==
    /\ \A p \in position : /\ p.stop \in Nat /\ p.target \in Nat
                           /\ setup.flatten => p.day = today
    /\ FillsInsideTheBar

\* The orders that an entry places have prices.
LEMMA EntryOrders ==
    ASSUME NEW price \in Nat, NEW quantity, NEW d
    PROVE  LET p == NewPosition(quantity, BuyFill(price), d)
           IN  p.stop \in Nat /\ p.target \in Nat /\ p.day = d
<1>. DEFINE p == NewPosition(quantity, BuyFill(price), d)
<1>1. BuyFill(price) \in Nat
  <2>1. price * (10000 + SlippageBp) \in Nat
    BY RuleConstants
  <2>. QED  BY <2>1 DEF BuyFill
<1>2. \A x \in Nat : x \div 100 \in Nat
  OBVIOUS
<1>3. BuyFill(price) * (100 - StopLossPct) \in Nat
      /\ BuyFill(price) * (100 + TakeProfitPct) \in Nat
  BY <1>1, RuleConstants
<1>4. StopPrice(BuyFill(price)) \in Nat /\ TakeProfitPrice(BuyFill(price)) \in Nat
  BY <1>2, <1>3 DEF StopPrice, TakeProfitPrice
<1>5. /\ p.stop = StopPrice(BuyFill(price)) /\ p.target = TakeProfitPrice(BuyFill(price))
      /\ p.day = d
  BY DEF NewPosition
<1>. QED  BY <1>4, <1>5

\* Whatever sells, it sells inside the bar.
LEMMA ExitIsInside ==
    ASSUME NEW p, p.stop \in Nat, p.target \in Nat, NEW row, IsRow(row),
           NEW last, NEW sessionEnd, NEW s \in EngineExit(p, BarAt(row), last, sessionEnd)
    PROVE  Inside(s.fill, BarAt(row))
<1>. DEFINE bar == BarAt(row)
            resting == RestingExit(p.stop, p.target, bar)
            bot == BotExit(p.entry, bar.close, Max({p.highest, bar.high}))
            market(reason) == {[reason |-> reason, fill |-> SellFill(bar.close)]}
<1>1. CASE resting # {}
  <2>1. PICK r \in resting :
            s = IF r.reason = "STOP_LOSS" THEN [r EXCEPT !.fill = SellFill(@)] ELSE r
    BY <1>1 DEF EngineExit
  <2>2. /\ r = [reason |-> r.reason, fill |-> r.fill]
        /\ r.reason \in {"STOP_LOSS", "TAKE_PROFIT"}
        /\ r.reason = "STOP_LOSS" => Inside(SellFill(r.fill), bar)
        /\ r.reason = "TAKE_PROFIT" => Inside(r.fill, bar)
    BY RestingIsInside
  <2>. HIDE DEF resting, bar
  <2>3. r.reason = "STOP_LOSS" => s.fill = SellFill(r.fill)
    BY <2>1, <2>2
  <2>. QED  BY <2>1, <2>2, <2>3 DEF bar
<1>2. CASE resting = {}
  <2>1. \E reason : s \in market(reason)
    <3>1. CASE bot # {}
      <4>1. s \in UNION {market(reason) : reason \in bot}
        BY <1>2, <3>1 DEF EngineExit
      <4>. QED  BY <4>1
    <3>2. CASE bot = {}
      BY <1>2, <3>2 DEF EngineExit
    <3>. QED  BY <3>1, <3>2
  <2>2. s.fill = SellFill(bar.close)
    BY <2>1
  <2>. QED  BY <2>2, CloseIsInside
<1>. QED  BY <1>1, <1>2

\* The session's end leaves nothing unsold.
LEMMA SessionEndSells ==
    ASSUME NEW p, NEW bar, NEW last \in BOOLEAN, NEW sessionEnd, sessionEnd
    PROVE  EngineExit(p, bar, last, sessionEnd) # {}
<1>. DEFINE resting == RestingExit(p.stop, p.target, bar)
            bot == BotExit(p.entry, bar.close, Max({p.highest, bar.high}))
            market(reason) == {[reason |-> reason, fill |-> SellFill(bar.close)]}
<1>1. CASE resting # {}
  <2>1. PICK r : r \in resting
    BY <1>1
  <2>2. (IF r.reason = "STOP_LOSS" THEN [r EXCEPT !.fill = SellFill(@)] ELSE r)
            \in EngineExit(p, bar, last, sessionEnd)
    BY <1>1, <2>1 DEF EngineExit
  <2>. QED  BY <2>2
<1>2. CASE resting = {} /\ bot # {}
  <2>1. PICK reason : reason \in bot
    BY <1>2
  <2>2. EngineExit(p, bar, last, sessionEnd) = UNION {market(x) : x \in bot}
    BY <1>2 DEF EngineExit
  <2>3. [reason |-> reason, fill |-> SellFill(bar.close)] \in market(reason)
    OBVIOUS
  <2>. HIDE DEF bot, resting, market
  <2>. QED  BY <2>1, <2>2, <2>3
<1>3. CASE resting = {} /\ bot = {}
  <2>1. EngineExit(p, bar, last, sessionEnd) = market("SESSION_END")
        \/ EngineExit(p, bar, last, sessionEnd) = market("END_OF_DATA")
    BY <1>3 DEF EngineExit
  <2>. QED  BY <2>1
<1>. QED  BY <1>1, <1>2, <1>3

\* The engine begins with no trade recorded and nothing held.
LEMMA EngineStart == EngineInit => EngineInv
BY DEF EngineInit, StartEngine, EngineInv, FillsInsideTheBar

\* A bar keeps the invariant of the engine, whichever bar it is.
LEMMA BarKeepsEngine ==
    ASSUME EngineInv, NEW row, IsRow(row), NEW endsDay \in BOOLEAN,
           NEW last \in BOOLEAN, JudgeBar(row, endsDay, last)
    PROVE  EngineInv'
<1>. DEFINE bar == BarAt(row)
            remembered == Remember(history, row.close)
            sessionEnd == setup.flatten /\ (last \/ endsDay)
            sales == UNION {EngineExit(p, bar, last, sessionEnd) : p \in position}
            raised(p) == [p EXCEPT !.highest = Max({@, bar.high})]
<1>1. /\ today' = IF endsDay THEN today + 1 ELSE today
      /\ position' = CASE position = {} -> EngineEntry(remembered, row, sessionEnd)
                       [] sales # {}    -> {}
                       [] OTHER -> {raised(p) : p \in position}
      /\ trade' = {[reason |-> s.reason, exit |-> s.fill, bar |-> bar] : s \in sales}
      /\ setup' = setup
  BY DEF JudgeBar
<1>2. \A p \in position : /\ p.stop \in Nat /\ p.target \in Nat
                          /\ setup.flatten => p.day = today
  BY DEF EngineInv
<1>3. \A s \in sales : Inside(s.fill, bar)
  BY <1>2, ExitIsInside
<1>4. FillsInsideTheBar'
  <2>. SUFFICES ASSUME NEW s \in sales,
                       NEW t, t = [reason |-> s.reason, exit |-> s.fill, bar |-> bar]
                PROVE  /\ t.exit <= t.bar.high
                       /\ t.bar.open # {} => t.exit >= SellFill(t.bar.low)
    <3>. HIDE DEF sales, bar
    <3>. QED  BY <1>1 DEF FillsInsideTheBar
  <2>. HIDE DEF sales, bar
  <2>1. Inside(s.fill, bar) /\ t.exit = s.fill /\ t.bar = bar
    BY <1>3
  <2>. QED  BY <2>1 DEF Inside
<1>5. ASSUME NEW p \in position'
      PROVE  /\ p.stop \in Nat /\ p.target \in Nat
             /\ setup.flatten => p.day = today'
  <2>1. CASE position = {}
    <3>1. p \in EngineEntry(remembered, row, sessionEnd)
      BY <1>1, <1>5, <2>1
    <3>2. PICK quantity : /\ p = NewPosition(quantity, BuyFill(row.close), today)
                          /\ ~sessionEnd
      BY <3>1 DEF EngineEntry, MayEnter, EntryBar
    <3>3. row.close \in Nat
      BY DEF IsRow
    <3>4. p.stop \in Nat /\ p.target \in Nat /\ p.day = today
      BY <3>2, <3>3, EntryOrders
    <3>. QED  BY <1>1, <3>2, <3>4
  <2>2. CASE position # {} /\ sales # {}
    BY <1>1, <1>5, <2>2
  <2>3. CASE position # {} /\ sales = {}
    <3>1. PICK q \in position : p = raised(q)
      <4>. HIDE DEF sales, raised
      <4>. QED  BY <1>1, <1>5, <2>3
    <3>2. ~sessionEnd
      <4>1. EngineExit(q, bar, last, sessionEnd) = {}
        BY <2>3
      <4>. QED  BY <4>1, SessionEndSells
    <3>3. p.stop = q.stop /\ p.target = q.target /\ p.day = q.day
      BY <3>1
    <3>. QED  BY <1>1, <1>2, <3>2, <3>3
  <2>. QED  BY <2>1, <2>2, <2>3
<1>. QED  BY <1>1, <1>4, <1>5 DEF EngineInv

\* Every step of the engine keeps its invariant.
LEMMA EngineStep == EngineInv /\ [EngineNext]_engineVars => EngineInv'
<1>1. ASSUME EngineInv, EngineNext PROVE EngineInv'
  <2>1. PICK row \in EngineRows, endsDay \in BOOLEAN :
            JudgeBar(row, endsDay, barNo + 1 = EngineBars)
    BY <1>1 DEF EngineNext
  <2>2. IsRow(row)
    BY EngineRowsAssumption DEF EngineRowsAssumption
  <2>3. (barNo + 1 = EngineBars) \in BOOLEAN
    OBVIOUS
  <2>. QED  BY <1>1, <2>1, <2>2, <2>3, BarKeepsEngine
<1>2. ASSUME EngineInv, UNCHANGED engineVars PROVE EngineInv'
  BY <1>2 DEF engineVars, EngineInv, FillsInsideTheBar
<1>. QED  BY <1>1, <1>2

\* With the flattening on, no position lives through the end of its day
\* (is_session_end in run_backtest).
THEOREM NothingHeldOvernight == EngineSpec => []FlatOvernight
<1>1. EngineInv => FlatOvernight
  BY DEF EngineInv, FlatOvernight
<1>. QED  BY <1>1, EngineStart, EngineStep, PTL DEF EngineSpec

\* No exit of the engine is better than the bar, or worse than it by more than
\* the slippage (detect_resting_order_exit and the sales of run_backtest).
THEOREM FillsAreReal == EngineSpec => []FillsInsideTheBar
<1>1. EngineInv => FillsInsideTheBar
  BY DEF EngineInv
<1>. QED  BY <1>1, EngineStart, EngineStep, PTL DEF EngineSpec

-----------------------------------------------------------------------------
(***************************************************************************)
(* Sums over finite sets.  MapThenSumSet takes the elements of a set in an *)
(* order of its own choosing.  A partial sum is a function on the subsets  *)
(* that obeys the same recursion: there is one, its values are integers,   *)
(* and any element may be the one that is added last.                      *)
(***************************************************************************)
Pick(s) == CHOOSE x \in s : TRUE

PartialSums(F, S, g) ==
    g = [s \in SUBSET S |-> IF s = {} THEN 0 ELSE F[Pick(s)] + g[s \ {Pick(s)}]]

\* Numbers have a least one: the induction of the lemmas below.
LEMMA LeastOf ==
    ASSUME NEW T \in SUBSET Nat, T # {}
    PROVE  \E n \in T : \A m \in T : n <= m
<1>1. PICK n \in T : \A m \in T : ~(<<m, n>> \in OpToRel(<, Nat))
  BY NatLessThanWellFounded, WFMin
<1>2. ASSUME NEW m \in T, m < n PROVE FALSE
  <2>1. <<m, n>> \in OpToRel(<, Nat)
    BY <1>2 DEF OpToRel
  <2>. QED  BY <1>1, <2>1
<1>. QED  BY <1>2

\* A subset without one of its elements is smaller by one.
LEMMA WithoutOne ==
    ASSUME NEW S, IsFiniteSet(S), NEW s \in SUBSET S, NEW x \in s
    PROVE  /\ s \ {x} \in SUBSET S
           /\ Cardinality(s) \in Nat \ {0} /\ Cardinality(s \ {x}) = Cardinality(s) - 1
<1>1. IsFiniteSet(s)
  BY FS_Subset
<1>. QED  BY <1>1, FS_RemoveElement, FS_CardinalityType, FS_EmptySet

\* The element that a sum takes next is one of the set.
LEMMA Picked == ASSUME NEW s, s # {} PROVE Pick(s) \in s
BY DEF Pick

\* There are partial sums: they are built up by the size of the subset.
LEMMA SumsExist ==
    ASSUME NEW S, IsFiniteSet(S), NEW F
    PROVE  \E g : PartialSums(F, S, g)
<1>. DEFINE Part(n) == {s \in SUBSET S : Cardinality(s) <= n}
            Obeys(n, g) == g = [s \in Part(n) |->
                                   IF s = {} THEN 0 ELSE F[Pick(s)] + g[s \ {Pick(s)}]]
            Bad == {n \in Nat : ~ \E g : Obeys(n, g)}
<1>1. \A s \in SUBSET S : Cardinality(s) \in Nat /\ (Cardinality(s) = 0 => s = {})
                          /\ Cardinality(s) <= Cardinality(S)
  BY FS_Subset, FS_CardinalityType, FS_EmptySet
<1>2. \E g : Obeys(0, g)
  <2>1. \A s \in Part(0) : s = {}
    BY <1>1
  <2>2. [s \in Part(0) |-> 0] = [s \in Part(0) |-> IF s = {} THEN 0
            ELSE F[Pick(s)] + [t \in Part(0) |-> 0][s \ {Pick(s)}]]
    BY <2>1
  <2>3. Obeys(0, [s \in Part(0) |-> 0])
    BY <2>2
  <2>. HIDE DEF Obeys
  <2>. QED  BY <2>3
<1>3. ASSUME NEW n \in Nat, NEW h, Obeys(n, h)
      PROVE  \E g : Obeys(n + 1, g)
  <2>. DEFINE g == [s \in Part(n + 1) |-> IF s = {} THEN 0
                       ELSE F[Pick(s)] + h[s \ {Pick(s)}]]
  <2>1. \A s \in Part(n) : h[s] = IF s = {} THEN 0 ELSE F[Pick(s)] + h[s \ {Pick(s)}]
    BY <1>3
  <2>2. Part(n) \subseteq Part(n + 1)
    BY <1>1
  <2>3. \A s \in Part(n) : g[s] = h[s]
    BY <2>1, <2>2
  <2>4. ASSUME NEW s \in Part(n + 1), s # {} PROVE s \ {Pick(s)} \in Part(n)
    <3>1. Pick(s) \in s
      BY <2>4, Picked
    <3>2. /\ s \ {Pick(s)} \in SUBSET S /\ Cardinality(s) \in Nat
          /\ Cardinality(s \ {Pick(s)}) = Cardinality(s) - 1
      BY <3>1, WithoutOne
    <3>. QED  BY <3>2
  <2>5. g = [s \in Part(n + 1) |-> IF s = {} THEN 0
                ELSE F[Pick(s)] + g[s \ {Pick(s)}]]
    <3>1. \A s \in Part(n + 1) : s # {} => h[s \ {Pick(s)}] = g[s \ {Pick(s)}]
      BY <2>3, <2>4
    <3>. QED  BY <3>1
  <2>6. Obeys(n + 1, g)
    BY <2>5
  <2>. HIDE DEF Obeys, g
  <2>. QED  BY <2>6
<1>4. Bad = {}
  <2>. SUFFICES ASSUME Bad # {} PROVE FALSE
    OBVIOUS
  <2>1. PICK n \in Bad : \A m \in Bad : n <= m
    <3>1. Bad \in SUBSET Nat
      OBVIOUS
    <3>. HIDE DEF Bad
    <3>. QED  BY <3>1, LeastOf
  <2>. HIDE DEF Obeys
  <2>2. n \in Nat /\ n # 0
    BY <1>2, <2>1
  <2>3. n - 1 \in Nat /\ n - 1 \notin Bad
    BY <2>1, <2>2
  <2>4. PICK h : Obeys(n - 1, h)
    BY <2>3
  <2>5. \E g : Obeys((n - 1) + 1, g)
    BY <1>3, <2>3, <2>4
  <2>6. (n - 1) + 1 = n
    BY <2>2
  <2>7. \E g : Obeys(n, g)
    BY <2>5, <2>6
  <2>. QED  BY <2>1, <2>7
<1>5. PICK g : Obeys(Cardinality(S), g)
  <2>1. Cardinality(S) \in Nat
    BY FS_CardinalityType
  <2>. HIDE DEF Obeys
  <2>. QED  BY <1>4, <2>1
<1>6. Part(Cardinality(S)) = SUBSET S
  BY <1>1
<1>7. PartialSums(F, S, g)
  BY <1>5, <1>6 DEF PartialSums
<1>. QED  BY <1>7

\* Partial sums over two sets agree on what the sets and summands share.
LEMMA SumsAgree ==
    ASSUME NEW S, IsFiniteSet(S), NEW F, NEW g, PartialSums(F, S, g),
           NEW U, NEW G, NEW h, PartialSums(G, U, h),
           NEW s \in SUBSET S, s \subseteq U, \A x \in s : F[x] = G[x]
    PROVE  g[s] = h[s]
<1>. DEFINE Bad == {n \in Nat : \E t \in SUBSET s : Cardinality(t) = n /\ g[t] # h[t]}
<1>1. /\ \A t \in SUBSET S :
              g[t] = IF t = {} THEN 0 ELSE F[Pick(t)] + g[t \ {Pick(t)}]
      /\ \A t \in SUBSET U :
              h[t] = IF t = {} THEN 0 ELSE G[Pick(t)] + h[t \ {Pick(t)}]
  BY DEF PartialSums
<1>2. Bad = {}
  <2>. SUFFICES ASSUME Bad # {} PROVE FALSE
    OBVIOUS
  <2>1. PICK n \in Bad : \A m \in Bad : n <= m
    <3>1. Bad \in SUBSET Nat
      OBVIOUS
    <3>. HIDE DEF Bad
    <3>. QED  BY <3>1, LeastOf
  <2>2. PICK t \in SUBSET s : Cardinality(t) = n /\ g[t] # h[t]
    BY <2>1
  <2>3. t \in SUBSET S /\ t \in SUBSET U
    BY <2>2
  <2>4. t # {}
    <3>1. t = {} => g[t] = 0 /\ h[t] = 0
      BY <2>3, <1>1
    <3>. QED  BY <2>2, <3>1
  <2>. DEFINE x == Pick(t)
              u == t \ {x}
  <2>5. x \in t
    BY <2>4, Picked
  <2>6. u \in SUBSET S /\ Cardinality(t) \in Nat \ {0} /\ Cardinality(u) = Cardinality(t) - 1
    BY <2>3, <2>5, WithoutOne
  <2>7. g[t] = F[x] + g[u] /\ h[t] = G[x] + h[u]
    BY <2>3, <2>4, <1>1
  <2>8. g[u] # h[u]
    BY <2>2, <2>5, <2>7
  <2>9. u \in SUBSET s /\ Cardinality(u) \in Nat
    BY <2>6
  <2>. HIDE DEF u, x
  <2>10. Cardinality(u) \in Bad
    BY <2>8, <2>9
  <2>. QED  BY <2>1, <2>2, <2>6, <2>10
<1>3. Cardinality(s) \in Nat
  BY FS_Subset, FS_CardinalityType
<1>. QED  BY <1>2, <1>3

\* Integers add up to an integer.
LEMMA SumsAreInts ==
    ASSUME NEW S, IsFiniteSet(S), NEW F, NEW g, PartialSums(F, S, g),
           \A x \in S : F[x] \in Int, NEW s \in SUBSET S
    PROVE  g[s] \in Int
<1>. DEFINE Bad == {n \in Nat : \E t \in SUBSET S : Cardinality(t) = n /\ g[t] \notin Int}
<1>1. \A t \in SUBSET S :
          g[t] = IF t = {} THEN 0 ELSE F[Pick(t)] + g[t \ {Pick(t)}]
  BY DEF PartialSums
<1>2. Bad = {}
  <2>. SUFFICES ASSUME Bad # {} PROVE FALSE
    OBVIOUS
  <2>1. PICK n \in Bad : \A m \in Bad : n <= m
    <3>1. Bad \in SUBSET Nat
      OBVIOUS
    <3>. HIDE DEF Bad
    <3>. QED  BY <3>1, LeastOf
  <2>2. PICK t \in SUBSET S : Cardinality(t) = n /\ g[t] \notin Int
    BY <2>1
  <2>3. t # {}
    <3>1. t = {} => g[t] = 0
      BY <1>1
    <3>. QED  BY <2>2, <3>1
  <2>. DEFINE x == Pick(t)
              u == t \ {x}
  <2>4. x \in t
    BY <2>3, Picked
  <2>5. u \in SUBSET S /\ Cardinality(t) \in Nat \ {0} /\ Cardinality(u) = Cardinality(t) - 1
    BY <2>4, WithoutOne
  <2>6. g[t] = F[x] + g[u]
    BY <2>3, <1>1
  <2>7. F[x] \in Int
    BY <2>2, <2>4
  <2>. HIDE DEF u, x
  <2>8. g[u] \notin Int
    BY <2>2, <2>6, <2>7
  <2>9. Cardinality(u) \in Bad
    BY <2>5, <2>8
  <2>. QED  BY <2>1, <2>2, <2>5, <2>9
<1>3. Cardinality(s) \in Nat
  BY FS_Subset, FS_CardinalityType
<1>. QED  BY <1>2, <1>3

\* Any element may be added last.
LEMMA SumsAnyLast ==
    ASSUME NEW S, IsFiniteSet(S), NEW F, NEW g, PartialSums(F, S, g),
           \A x \in S : F[x] \in Int, NEW s \in SUBSET S, NEW z \in s
    PROVE  g[s] = F[z] + g[s \ {z}]
<1>. DEFINE Bad == {n \in Nat : \E t \in SUBSET S : \E x \in t :
                                   Cardinality(t) = n /\ g[t] # F[x] + g[t \ {x}]}
<1>1. \A t \in SUBSET S :
          g[t] = IF t = {} THEN 0 ELSE F[Pick(t)] + g[t \ {Pick(t)}]
  BY DEF PartialSums
<1>2. Bad = {}
  <2>. SUFFICES ASSUME Bad # {} PROVE FALSE
    OBVIOUS
  <2>1. PICK n \in Bad : \A m \in Bad : n <= m
    <3>1. Bad \in SUBSET Nat
      OBVIOUS
    <3>. HIDE DEF Bad
    <3>. QED  BY <3>1, LeastOf
  <2>2. PICK t \in SUBSET S : \E x \in t : Cardinality(t) = n /\ g[t] # F[x] + g[t \ {x}]
    BY <2>1
  <2>3. PICK x \in t : Cardinality(t) = n /\ g[t] # F[x] + g[t \ {x}]
    BY <2>2
  <2>. DEFINE y == Pick(t)
              u == t \ {y}
              v == t \ {x}
              w == u \ {x}
  <2>4. y \in t
    BY <2>3, Picked
  <2>5. g[t] = F[y] + g[u]
    BY <2>3, <1>1
  <2>6. x # y
    BY <2>3, <2>5
  <2>7. /\ u \in SUBSET S /\ Cardinality(t) \in Nat \ {0}
        /\ Cardinality(u) = Cardinality(t) - 1
    BY <2>4, WithoutOne
  <2>8. v \in SUBSET S /\ Cardinality(v) = Cardinality(t) - 1
    BY <2>3, WithoutOne
  <2>9. x \in u /\ y \in v /\ w = v \ {y} /\ w \in SUBSET S
    BY <2>3, <2>4, <2>6
  <2>10. {F[x], F[y], g[u], g[v], g[w]} \subseteq Int
    <3>. HIDE DEF u, v, w, y
    <3>1. x \in S /\ y \in S
      BY <2>3, <2>4
    <3>2. g[u] \in Int /\ g[v] \in Int /\ g[w] \in Int
      BY <2>7, <2>8, <2>9, SumsAreInts
    <3>. QED  BY <3>1, <3>2
  <2>. HIDE DEF u, v, y
  <2>11. Cardinality(t) - 1 \in Nat /\ Cardinality(t) - 1 \notin Bad
    <3>. HIDE DEF Bad
    <3>. QED  BY <2>1, <2>3, <2>7
  <2>12. g[u] = F[x] + g[w]
    BY <2>7, <2>9, <2>11
  <2>13. g[v] = F[y] + g[v \ {y}]
    BY <2>8, <2>9, <2>11
  <2>14. g[v] = F[y] + g[w]
    BY <2>9, <2>13
  <2>15. g[t] = F[x] + g[v]
    <3>. HIDE DEF w
    <3>. QED  BY <2>5, <2>10, <2>12, <2>14
  <2>. QED  BY <2>3, <2>15 DEF v
<1>3. Cardinality(s) \in Nat
  BY FS_Subset, FS_CardinalityType
<1>. QED  BY <1>2, <1>3

-----------------------------------------------------------------------------
(* The portfolio's sums *)

\* What a day earns is such a partial sum.
LEMMA EarnedSum ==
    ASSUME IsFiniteSet(Sold)
    PROVE  \E g : /\ PartialSums([s \in Sold |-> Earned(s)], Sold, g)
                  /\ MapThenSumSet(Earned, Sold) = g[Sold]
<1>. DEFINE F == [s \in Sold |-> Earned(s)]
            Iter(g) == g = [s \in SUBSET Sold |->
                               IF s = {} THEN 0
                               ELSE Earned(CHOOSE x \in s : TRUE)
                                    + g[s \ {CHOOSE x \in s : TRUE}]]
            iter == CHOOSE g : Iter(g)
<1>1. \A g : Iter(g) <=> PartialSums(F, Sold, g)
  <2>. SUFFICES ASSUME NEW g PROVE Iter(g) <=> PartialSums(F, Sold, g)
    OBVIOUS
  <2>1. ASSUME NEW s \in SUBSET Sold, s # {}
        PROVE  F[Pick(s)] = Earned(CHOOSE x \in s : TRUE)
    <3>1. Pick(s) \in Sold
      BY <2>1, Picked
    <3>. QED  BY <3>1 DEF Pick
  <2>2. [s \in SUBSET Sold |-> IF s = {} THEN 0 ELSE F[Pick(s)] + g[s \ {Pick(s)}]]
        = [s \in SUBSET Sold |-> IF s = {} THEN 0
              ELSE Earned(CHOOSE x \in s : TRUE) + g[s \ {CHOOSE x \in s : TRUE}]]
    <3>. HIDE DEF F
    <3>. QED  BY <2>1 DEF Pick
  <2>. QED  BY <2>2 DEF PartialSums
<1>2. \E g : PartialSums(F, Sold, g)
  BY SumsExist
<1>3. Iter(iter)
  <2>1. \E g : Iter(g)
    <3>. HIDE DEF Iter, F
    <3>. QED  BY <1>1, <1>2
  <2>. HIDE DEF Iter
  <2>. QED  BY <2>1
<1>4. MapThenSumSet(Earned, Sold) = iter[Sold]
  BY DEF MapThenSumSet, MapThenFoldSet
<1>. HIDE DEF Iter, iter, F
<1>5. PartialSums(F, Sold, iter)
  BY <1>1, <1>3
<1>. QED  BY <1>4, <1>5 DEF F

-----------------------------------------------------------------------------
(* What the portfolio buys and sells *)

\* A quotient, taken as often as the divisor says, is not more than it was.
LEMMA Quotients ==
    ASSUME NEW x \in Int, NEW p \in Nat \ {0}
    PROVE  /\ x \div p \in Int /\ (x \div p) * p <= x
           /\ x <= 0 => x \div p <= 0
           /\ \A n \in Int : n <= x \div p => n * p <= x
<1>1. x \div p \in Int /\ (x \div p) * p <= x
  OBVIOUS
<1>2. ASSUME x <= 0 PROVE x \div p <= 0
  <2>. SUFFICES ASSUME x \div p >= 1 PROVE FALSE
    BY <1>1
  <2>1. (x \div p) * p >= p
    BY <1>1
  <2>. QED  BY <1>1, <1>2, <2>1
<1>3. ASSUME NEW n \in Int, n <= x \div p PROVE n * p <= x
  <2>1. n * p <= (x \div p) * p
    BY <1>1, <1>3
  <2>. QED  BY <1>1, <2>1
<1>. QED  BY <1>1, <1>2, <1>3

\* A price is never rounded down to nothing.
LEMMA BuyFillAbove ==
    ASSUME NEW price \in Nat \ {0}
    PROVE  BuyFill(price) \in Nat \ {0}
<1>. DEFINE x == price * (10000 + SlippageBp)
<1>1. x \in Nat /\ x >= 10000
  <2>1. \A n, m \in Nat : n >= 1 => n * (10000 + m) \in Nat /\ n * (10000 + m) >= 10000
    OBVIOUS
  <2>2. SlippageBp \in Nat
    BY RuleConstants
  <2>. QED  BY <2>1, <2>2
<1>2. \A y \in Nat : y >= 10000 => y \div 10000 \in Nat \ {0}
  OBVIOUS
<1>. HIDE DEF x
<1>3. x \div 10000 \in Nat \ {0}
  BY <1>1, <1>2
<1>. QED  BY <1>3 DEF BuyFill, x

\* Of an account that is worth nothing no share is bought.
LEMMA SizeOfNothing ==
    ASSUME NEW worth \in Int, NEW price \in Nat \ {0}, plan \in Plans
    PROVE  /\ Clamped(PositionSize(worth, price), price) \in Int
           /\ worth <= 0 => Clamped(PositionSize(worth, price), price) <= 0
<1>. DEFINE x == (worth * RiskPct) \div (price * StopLossPct)
            some == Min({PositionSize(worth, price), plan.maxSize})
<1>1. /\ price * StopLossPct \in Nat \ {0} /\ worth * RiskPct \in Int
      /\ worth <= 0 => worth * RiskPct <= 0
  <2>1. \A n, m \in Nat \ {0} : n * m \in Nat \ {0}
    OBVIOUS
  <2>2. \A n \in Int, m \in Nat : n * m \in Int /\ (n <= 0 => n * m <= 0)
    OBVIOUS
  <2>3. StopLossPct \in Nat \ {0} /\ RiskPct \in Nat
    BY RuleConstants
  <2>. QED  BY <2>1, <2>2, <2>3
<1>2. x \in Int /\ (worth <= 0 => x <= 0)
  BY <1>1, Quotients
<1>3. PositionSize(worth, price) = Max({0, x})
  BY DEF PositionSize
<1>. HIDE DEF x
<1>4. /\ PositionSize(worth, price) \in Nat
      /\ worth <= 0 => PositionSize(worth, price) = 0
  BY <1>2, <1>3, MaxOfTwo
<1>5. plan.maxSize \in Nat /\ plan.maxNotional \in Nat
  BY PortfolioAssumption DEF PortfolioAssumption
<1>6. /\ some \in Nat
      /\ worth <= 0 => some = 0
  <2>1. some \in {PositionSize(worth, price), plan.maxSize}
        /\ some <= PositionSize(worth, price)
    <3>1. PositionSize(worth, price) \in Int /\ plan.maxSize \in Int
      BY <1>4, <1>5
    <3>. QED  BY <3>1, MinOfTwo
  <2>. HIDE DEF some
  <2>. QED  BY <1>4, <1>5, <2>1
<1>7. Clamped(PositionSize(worth, price), price) =
          IF some * price > plan.maxNotional THEN plan.maxNotional \div price ELSE some
  BY DEF Clamped
<1>. HIDE DEF some
<1>8. plan.maxNotional \div price \in Int
  BY <1>5, Quotients
<1>. QED  BY <1>5, <1>6, <1>7, <1>8

\* What is paid for at most a given amount are at most so many whole pieces.
LEMMA WholeTimes ==
    ASSUME NEW x \in Int, NEW p \in Nat \ {0}
    PROVE  x \div p \in Int /\ \A n \in Nat : n * p <= x => n <= x \div p
<1>1. x \div p \in Int /\ x < (x \div p + 1) * p
  OBVIOUS
<1>2. ASSUME NEW n \in Nat, n * p <= x, n >= x \div p + 1 PROVE FALSE
  <2>1. n * p >= (x \div p + 1) * p
    BY <1>1, <1>2
  <2>. QED  BY <1>1, <1>2, <2>1
<1>. QED  BY <1>1, <1>2

\* A size is a natural number, whatever the account is worth.
LEMMA SizeIsNat ==
    ASSUME NEW worth \in Int, NEW price \in Nat \ {0}
    PROVE  PositionSize(worth, price) \in Nat
           /\ (PositionSize(worth, price) = 0 /\ plan \in Plans
                   => Clamped(PositionSize(worth, price), price) <= 0)
<1>. DEFINE x == (worth * RiskPct) \div (price * StopLossPct)
<1>1. price * StopLossPct \in Nat \ {0} /\ worth * RiskPct \in Int
  <2>1. \A n, m \in Nat \ {0} : n * m \in Nat \ {0}
    OBVIOUS
  <2>. QED  BY <2>1, RuleConstants
<1>2. x \in Int
  BY <1>1, Quotients
<1>3. PositionSize(worth, price) = Max({0, x})
  BY DEF PositionSize
<1>. HIDE DEF x
<1>4. PositionSize(worth, price) \in Nat
  BY <1>2, <1>3, MaxOfTwo
<1>5. ASSUME PositionSize(worth, price) = 0, plan \in Plans
      PROVE  Clamped(0, price) <= 0
  <2>1. plan.maxSize \in Nat /\ plan.maxNotional \in Nat
    BY <1>5, PortfolioAssumption DEF PortfolioAssumption
  <2>2. Min({0, plan.maxSize}) = 0
    <3>1. Min({0, plan.maxSize}) \in {0, plan.maxSize} /\ Min({0, plan.maxSize}) <= 0
      <4>1. plan.maxSize \in Int /\ 0 \in Int
        BY <2>1
      <4>. QED  BY <4>1, MinOfTwo
    <3>. QED  BY <2>1, <3>1
  <2>3. 0 * price = 0
    OBVIOUS
  <2>. QED  BY <2>1, <2>2, <2>3 DEF Clamped
<1>. QED  BY <1>4, <1>5

\* The cut to the cash that is left bounds what an entry costs.
LEMMA EntryFits ==
    ASSUME plan \in Plans, equity \in Int, Deployed \in Int, NEW s, IsRow(rows[s])
    PROVE  /\ Quantity(s) \in Int
           /\ equity <= 0 => Quantity(s) <= 0
           /\ Quantity(s) * BuyFill(rows[s].close) <= equity - Deployed
<1>. DEFINE fill == BuyFill(rows[s].close)
            a == Clamped(PositionSize(equity, fill), fill)
            b == (equity - Deployed) \div fill
<1>1. fill \in Nat \ {0}
  BY BuyFillAbove DEF IsRow
<1>2. Quantity(s) = Min({a, b})
  BY DEF Quantity
<1>. HIDE DEF fill
<1>3. a \in Int /\ (equity <= 0 => a <= 0)
  BY <1>1, SizeOfNothing
<1>4. /\ equity - Deployed \in Int /\ b \in Int
      /\ \A n \in Int : n <= b => n * fill <= equity - Deployed
  BY <1>1, Quotients
<1>. HIDE DEF a, b
<1>5. Quantity(s) \in {a, b} /\ Quantity(s) <= a /\ Quantity(s) <= b
  BY <1>2, <1>3, <1>4, MinOfTwo
<1>6. Quantity(s) \in Int /\ (equity <= 0 => Quantity(s) <= 0)
  BY <1>3, <1>4, <1>5
<1>7. Quantity(s) * fill <= equity - Deployed
  BY <1>4, <1>5, <1>6
<1>. QED  BY <1>6, <1>7 DEF fill

\* A position as an entry opens it, whatever its highest price has become.
Held(p) ==
    /\ p.quantity \in Nat \ {0} /\ p.entry \in Nat \ {0} /\ p.day \in Nat
    /\ p.stop \in Nat /\ p.target \in Nat /\ p.entry <= p.target
    /\ p.commission = Commission(p.quantity, p.entry)
    /\ \E row \in Rows : p.entry = BuyFill(row.close)

\* What an entry opens is a position as it is held.
LEMMA EntryIsHeld ==
    ASSUME NEW row \in Rows, NEW quantity \in Nat \ {0}, NEW d \in Nat
    PROVE  /\ Held(NewPosition(quantity, BuyFill(row.close), d))
           /\ NewPosition(quantity, BuyFill(row.close), d).day = d
<1>. DEFINE fill == BuyFill(row.close)
            p == NewPosition(quantity, fill, d)
<1>1. row.close \in Nat \ {0}
  BY PortfolioAssumption DEF PortfolioAssumption, IsRow
<1>2. fill \in Nat \ {0}
  BY <1>1, BuyFillAbove
<1>3. /\ p.quantity = quantity /\ p.entry = fill /\ p.day = d
      /\ p.commission = Commission(quantity, fill)
      /\ p.stop = StopPrice(fill) /\ p.target = TakeProfitPrice(fill)
  BY DEF NewPosition
<1>4. p.stop \in Nat /\ p.target \in Nat
  BY <1>1, EntryOrders
<1>5. fill <= TakeProfitPrice(fill)
  <2>. HIDE DEF fill
  <2>1. fill * 100 <= fill * (100 + TakeProfitPct) /\ fill * (100 + TakeProfitPct) \in Nat
    BY <1>2, RuleConstants
  <2>2. \A x, y \in Nat : x * 100 <= y => x <= y \div 100
    OBVIOUS
  <2>. QED  BY <1>2, <2>1, <2>2 DEF TakeProfitPrice
<1>6. \E r \in Rows : p.entry = BuyFill(r.close)
  BY <1>3
<1>. HIDE DEF p, fill
<1>7. Held(p)
  BY <1>2, <1>3, <1>4, <1>5, <1>6 DEF Held
<1>. QED  BY <1>3, <1>7 DEF p, fill

\* A sale brings the take-profit price or what the worst price of the bar does.
LEMMA SaleFill ==
    ASSUME NEW s, Held(open[s]), IsRow(rows[s]), NEW sale \in Sale(s)
    PROVE  /\ sale.fill \in Nat
           /\ \/ sale.fill >= SellFill(BarAt(rows[s]).low)
              \/ sale.fill >= open[s].entry
<1>. DEFINE p == open[s]
            bar == BarAt(rows[s])
            resting == RestingExit(p.stop, p.target, bar)
<1>1. bar.low \in Nat /\ bar.close \in Nat /\ bar.low <= bar.close
  BY BarInOrder
<1>2. CASE resting # {}
  <2>1. PICK r \in resting :
            sale = IF r.reason = "STOP_LOSS" THEN [r EXCEPT !.fill = SellFill(@)] ELSE r
    BY <1>2 DEF Sale
  <2>2. p.stop \in Nat /\ p.target \in Nat /\ p.entry <= p.target /\ p.entry \in Nat
    BY DEF Held
  <2>. HIDE DEF p
  <2>3. /\ r = [reason |-> r.reason, fill |-> r.fill] /\ r.fill \in Nat
        /\ r.reason \in {"STOP_LOSS", "TAKE_PROFIT"}
        /\ r.reason = "STOP_LOSS" => r.fill >= bar.low
        /\ r.reason = "TAKE_PROFIT" => r.fill >= p.target
    BY <2>2, RestingIsInside
  <2>. HIDE DEF resting, bar
  <2>4. CASE r.reason = "STOP_LOSS"
    <3>1. sale.fill = SellFill(r.fill)
      BY <2>1, <2>3, <2>4
    <3>2. SellFill(r.fill) \in Nat /\ SellFill(r.fill) >= SellFill(bar.low)
      <4>1. SellFill(r.fill) \in Nat /\ SellFill(bar.low) <= SellFill(r.fill)
            /\ SellFill(bar.low) \in Nat
        BY <1>1, <2>3, <2>4, SellFillBounds
      <4>. QED  BY <4>1
    <3>. QED  BY <3>1, <3>2 DEF bar
  <2>5. CASE r.reason # "STOP_LOSS"
    <3>1. sale.fill = r.fill /\ r.fill >= p.target
      BY <2>1, <2>3, <2>5
    <3>2. sale.fill \in Nat /\ sale.fill >= p.entry
      BY <2>2, <2>3, <3>1
    <3>. QED  BY <3>2 DEF p
  <2>. QED  BY <2>4, <2>5
<1>3. CASE resting = {}
  <2>1. sale.fill = SellFill(bar.close)
    BY <1>3 DEF Sale
  <2>2. /\ SellFill(bar.low) \in Nat /\ SellFill(bar.close) \in Nat
        /\ SellFill(bar.low) <= SellFill(bar.close)
    BY <1>1, SellFillBounds
  <2>. QED  BY <2>1, <2>2
<1>. QED  BY <1>2, <1>3

\* A commission never exceeds its share of the amount.
LEMMA CommissionBounds ==
    ASSUME NEW q \in Nat \ {0}, NEW price \in Nat
    PROVE  /\ Commission(q, price) \in Nat
           /\ CommissionCapPct > 0 =>
                  100 * Commission(q, price) <= (q * price) * CommissionCapPct
<1>. DEFINE cap == (q * price * CommissionCapPct) \div 100
            x == q * price * CommissionCapPct
            shares == (q * CommissionPerShare) \div 100
            fee == Max({shares, MinCommission})
<1>1. CommissionCapPct \in Nat /\ fee \in Nat
  <2>1. MinCommission \in Nat /\ CommissionCapPct \in Nat /\ q * CommissionPerShare \in Nat
    BY RuleConstants
  <2>2. shares \in Nat
    BY <2>1
  <2>. HIDE DEF shares
  <2>3. \E m \in {shares, MinCommission} : \A n \in {shares, MinCommission} : m >= n
    BY <2>1, <2>2
  <2>4. fee \in {shares, MinCommission}
    BY <2>3 DEF Max
  <2>. QED  BY <2>1, <2>2, <2>4
<1>2. q * price \in Nat /\ x \in Nat /\ x = (q * price) * CommissionCapPct
  BY <1>1
<1>3. cap \in Nat /\ 100 * cap <= x
  <2>. HIDE DEF x
  <2>1. x \div 100 \in Nat /\ 100 * (x \div 100) <= x
    BY <1>2
  <2>. QED  BY <2>1 DEF x
<1>4. Commission(q, price) = IF q <= 0 \/ price <= 0 THEN 0
                             ELSE IF CommissionCapPct = 0 THEN fee
                             ELSE Min({fee, cap})
  BY DEF Commission
<1>. HIDE DEF x, cap, fee
<1>5. Min({fee, cap}) \in {fee, cap} /\ Min({fee, cap}) <= cap
  <2>1. fee \in Int /\ cap \in Int
    BY <1>1, <1>3
  <2>. QED  BY <2>1, MinOfTwo
<1>6. CASE q <= 0 \/ price <= 0
  BY <1>2, <1>4, <1>6
<1>7. CASE ~(q <= 0 \/ price <= 0) /\ CommissionCapPct = 0
  BY <1>1, <1>4, <1>7
<1>8. CASE ~(q <= 0 \/ price <= 0) /\ CommissionCapPct # 0
  BY <1>1, <1>2, <1>3, <1>4, <1>5, <1>8
<1>. QED  BY <1>6, <1>7, <1>8

\* A sale earns an integer: its fill less cost and commissions.
LEMMA EarnedIsInt ==
    ASSUME NEW s, Held(open[s]), IsRow(rows[s]), Sale(s) # {}
    PROVE  \E fill \in Nat :
               /\ Earned(s) = (fill - open[s].entry) * open[s].quantity
                                 - open[s].commission - Commission(open[s].quantity, fill)
               /\ Earned(s) \in Int
               /\ \/ fill >= SellFill(BarAt(rows[s]).low)
                  \/ fill >= open[s].entry
<1>. DEFINE sale == CHOOSE x \in Sale(s) : TRUE
            fill == sale.fill
            q == open[s].quantity
            e == open[s].entry
<1>1. sale \in Sale(s)
  OBVIOUS
<1>. HIDE DEF sale
<1>2. /\ fill \in Nat
      /\ fill >= SellFill(BarAt(rows[s]).low) \/ fill >= e
  BY <1>1, SaleFill
<1>3. Earned(s) = (fill - e) * q - open[s].commission - Commission(q, fill)
  BY DEF Earned, Pnl, sale
<1>4. q \in Nat \ {0} /\ e \in Nat /\ open[s].commission = Commission(q, e)
  BY DEF Held
<1>5. Commission(q, fill) \in Nat /\ Commission(q, e) \in Nat
  BY <1>2, <1>4, CommissionBounds
<1>. HIDE DEF fill, q, e
<1>6. Earned(s) \in Int
  BY <1>2, <1>3, <1>4, <1>5
<1>. QED  BY <1>2, <1>3, <1>6 DEF q, e

-----------------------------------------------------------------------------
(* The engine's types *)

\* What the engine holds: one position with a size, bought today or earlier.
Holding(p) ==
    /\ p.quantity \in Nat \ {0} /\ p.entry \in Nat /\ p.commission \in Nat
    /\ p.stop \in Nat /\ p.target \in Nat
    /\ p.day \in 1..today

EngineTypes ==
    /\ setup \in EngineSetups
    /\ history \in Seq(Nat) /\ Len(history) <= Max({MAWindow, LongWindow})
    /\ barNo \in Nat /\ today \in Nat \ {0} /\ soldOn \in Nat /\ balance \in Int
    /\ \A p \in position : Holding(p)
    /\ \A p, q \in position : p = q

\* The closes that are kept are never more than a window needs.
LEMMA RememberedCloses ==
    ASSUME NEW known \in Seq(Nat), NEW close \in Nat
    PROVE  /\ Remember(known, close) \in Seq(Nat)
           /\ Len(Remember(known, close)) <= Max({MAWindow, LongWindow})
<1>. DEFINE all == Append(known, close)
            n == Max({MAWindow, LongWindow})
<1>1. n \in Nat \ {0}
  <2>1. MAWindow \in Nat \ {0} /\ LongWindow \in Nat \ {0}
    BY RulesAssumption DEF RulesAssumption
  <2>2. n \in {MAWindow, LongWindow}
    <3>1. MAWindow \in Int /\ LongWindow \in Int
      BY <2>1
    <3>. QED  BY <3>1, MaxOfTwo
  <2>. QED  BY <2>1, <2>2
<1>2. all \in Seq(Nat) /\ Len(all) \in Nat
  OBVIOUS
<1>3. Remember(known, close) = IF Len(all) > n THEN SubSeq(all, Len(all) - n + 1, Len(all))
                               ELSE all
  BY DEF Remember, LatestBars
<1>. HIDE DEF all, n
<1>4. ASSUME Len(all) > n
      PROVE  /\ SubSeq(all, Len(all) - n + 1, Len(all)) \in Seq(Nat)
             /\ Len(SubSeq(all, Len(all) - n + 1, Len(all))) = n
  <2>1. /\ Len(all) - n + 1 \in 1..(Len(all) + 1) /\ Len(all) \in (Len(all) - n)..Len(all)
        /\ Len(all) - n + 1 <= Len(all)
    BY <1>1, <1>2, <1>4
  <2>2. SubSeq(all, Len(all) - n + 1, Len(all)) \in Seq(Nat)
    BY <1>2, <2>1, SubSeqProperties
  <2>3. Len(SubSeq(all, Len(all) - n + 1, Len(all))) = Len(all) - (Len(all) - n + 1) + 1
    BY <1>2, <2>1, SubSeqProperties
  <2>. QED  BY <1>1, <1>2, <2>2, <2>3
<1>5. /\ Remember(known, close) \in Seq(Nat) /\ Len(Remember(known, close)) <= n
  BY <1>1, <1>2, <1>3, <1>4
<1>. QED  BY <1>5 DEF n

\* A sale fills at a price, whatever it earns.
LEMMA ExitHasPrice ==
    ASSUME NEW p, p.stop \in Nat, p.target \in Nat, NEW row, IsRow(row),
           NEW last, NEW sessionEnd, NEW s \in EngineExit(p, BarAt(row), last, sessionEnd)
    PROVE  s.fill \in Nat
<1>. DEFINE bar == BarAt(row)
            resting == RestingExit(p.stop, p.target, bar)
            bot == BotExit(p.entry, bar.close, Max({p.highest, bar.high}))
            market(reason) == {[reason |-> reason, fill |-> SellFill(bar.close)]}
<1>1. CASE resting # {}
  <2>1. PICK r \in resting :
            s = IF r.reason = "STOP_LOSS" THEN [r EXCEPT !.fill = SellFill(@)] ELSE r
    BY <1>1 DEF EngineExit
  <2>2. r = [reason |-> r.reason, fill |-> r.fill] /\ r.fill \in Nat
    BY RestingIsInside
  <2>3. s.fill = SellFill(r.fill) \/ s.fill = r.fill
    <3>. HIDE DEF resting
    <3>. QED  BY <2>1, <2>2
  <2>4. SellFill(r.fill) \in Nat
    <3>1. r.fill <= r.fill
      BY <2>2
    <3>. QED  BY <2>2, <3>1, SellFillBounds
  <2>. QED  BY <2>2, <2>3, <2>4
<1>2. CASE resting = {}
  <2>1. \E reason : s \in market(reason)
    <3>1. CASE bot # {}
      <4>1. s \in UNION {market(reason) : reason \in bot}
        BY <1>2, <3>1 DEF EngineExit
      <4>. QED  BY <4>1
    <3>2. CASE bot = {}
      BY <1>2, <3>2 DEF EngineExit
    <3>. QED  BY <3>1, <3>2
  <2>2. s.fill = SellFill(bar.close)
    BY <2>1
  <2>3. bar.close \in Nat /\ bar.close <= bar.close
    BY BarInOrder
  <2>. QED  BY <2>2, <2>3, SellFillBounds
<1>. QED  BY <1>1, <1>2

\* One bar judged by the engine keeps the types of its trade, its equity and
\* its counters.
LEMMA BarKeepsTypes ==
    ASSUME EngineTypes, NEW row, IsRow(row), NEW endsDay \in BOOLEAN,
           NEW last \in BOOLEAN, JudgeBar(row, endsDay, last)
    PROVE  EngineTypes'
<1>. DEFINE bar == BarAt(row)
            remembered == Remember(history, row.close)
            sessionEnd == setup.flatten /\ (last \/ endsDay)
            sales == UNION {EngineExit(p, bar, last, sessionEnd) : p \in position}
            raised(p) == [p EXCEPT !.highest = Max({@, bar.high})]
            seller == CHOOSE p \in position : TRUE
            sold == CHOOSE s \in sales : TRUE
<1>1. /\ today' = IF endsDay THEN today + 1 ELSE today
      /\ position' = CASE position = {} -> EngineEntry(remembered, row, sessionEnd)
                       [] sales # {}    -> {}
                       [] OTHER -> {raised(p) : p \in position}
      /\ balance' = IF sales = {} THEN balance ELSE balance + Pnl(seller, sold.fill)
      /\ soldOn' = IF sales = {} THEN soldOn ELSE today
      /\ setup' = setup /\ history' = remembered /\ barNo' = barNo + 1
  BY DEF JudgeBar
<1>2. row.close \in Nat \ {0} /\ today \in Nat \ {0} /\ balance \in Int
      /\ today' \in Nat \ {0} /\ today <= today'
  BY <1>1 DEF IsRow, EngineTypes
<1>3. balance' \in Int
  <2>1. CASE sales = {}
    BY <1>1, <1>2, <2>1
  <2>2. CASE sales # {}
    <3>1. sold \in sales /\ position # {}
      BY <2>2
    <3>2. seller \in position /\ Holding(seller)
      BY <3>1 DEF EngineTypes
    <3>3. sold.fill \in Nat
      <4>1. PICK p \in position : sold \in EngineExit(p, bar, last, sessionEnd)
        BY <3>1
      <4>2. p.stop \in Nat /\ p.target \in Nat
        BY <4>1 DEF EngineTypes, Holding
      <4>. HIDE DEF sold
      <4>. QED  BY <4>1, <4>2, ExitHasPrice
    <3>. HIDE DEF sold, seller
    <3>4. Commission(seller.quantity, sold.fill) \in Nat
      BY <3>2, <3>3, CommissionBounds DEF Holding
    <3>5. Pnl(seller, sold.fill) \in Int
      BY <3>2, <3>3, <3>4 DEF Pnl, Holding
    <3>. QED  BY <1>1, <1>2, <2>2, <3>5
  <2>. QED  BY <2>1, <2>2
<1>4. /\ \A p \in position' : Holding(p)'
      /\ \A p, q \in position' : p = q
  <2>1. CASE position = {}
    <3>. DEFINE fill == BuyFill(row.close)
                quantity == PositionSize(balance, fill)
    <3>1. position' = EngineEntry(remembered, row, sessionEnd)
      BY <1>1, <2>1
    <3>2. \A p \in position' : p = NewPosition(quantity, fill, today) /\ quantity > 0
      BY <3>1 DEF EngineEntry
    <3>3. fill \in Nat \ {0} /\ quantity \in Int
      <4>1. fill \in Nat \ {0}
        BY <1>2, BuyFillAbove
      <4>. HIDE DEF fill
      <4>2. quantity \in Nat
        BY <1>2, <4>1, SizeIsNat
      <4>. QED  BY <4>1, <4>2
    <3>4. ASSUME NEW p \in position' PROVE Holding(p)'
      <4>1. p.stop \in Nat /\ p.target \in Nat /\ p.day = today
        BY <1>2, <3>2, EntryOrders
      <4>2. p.quantity = quantity /\ p.entry = fill /\ p.commission = Commission(quantity, fill)
        BY <3>2 DEF NewPosition
      <4>. HIDE DEF fill, quantity
      <4>3. quantity \in Nat \ {0}
        BY <3>2, <3>3
      <4>4. Commission(quantity, fill) \in Nat
        BY <3>3, <4>3, CommissionBounds
      <4>. QED  BY <1>2, <3>3, <4>1, <4>2, <4>3, <4>4 DEF Holding
    <3>. HIDE DEF quantity, fill
    <3>. QED  BY <3>2, <3>4
  <2>2. CASE position # {} /\ sales # {}
    BY <1>1, <2>2
  <2>3. CASE position # {} /\ sales = {}
    <3>1. position' = {raised(p) : p \in position}
      <4>. HIDE DEF sales, raised
      <4>. QED  BY <1>1, <2>3
    <3>2. ASSUME NEW p \in position PROVE Holding(raised(p))'
      <4>1. Holding(p)
        BY DEF EngineTypes
      <4>2. /\ raised(p).quantity = p.quantity /\ raised(p).entry = p.entry
            /\ raised(p).commission = p.commission /\ raised(p).day = p.day
            /\ raised(p).stop = p.stop /\ raised(p).target = p.target
        OBVIOUS
      <4>. HIDE DEF raised
      <4>3. p.day \in 1..today'
        BY <1>2, <4>1 DEF Holding
      <4>4. PICK r : r = raised(p)
        OBVIOUS
      <4>5. Holding(r)'
        BY <4>1, <4>2, <4>3, <4>4 DEF Holding
      <4>. QED  BY <4>4, <4>5 DEF raised
    <3>3. \A p, q \in position : p = q
      BY DEF EngineTypes
    <3>. HIDE DEF raised
    <3>. QED  BY <3>1, <3>2, <3>3
  <2>. QED  BY <2>1, <2>2, <2>3
<1>5. history' \in Seq(Nat) /\ Len(history') <= Max({MAWindow, LongWindow})
  BY <1>1, <1>2, RememberedCloses DEF EngineTypes
<1>6. setup' \in EngineSetups /\ barNo' \in Nat /\ soldOn' \in Nat
  BY <1>1 DEF EngineTypes
<1>. QED  BY <1>2, <1>3, <1>4, <1>5, <1>6 DEF EngineTypes

\* The engine keeps its types: one position at most, and the closes that a
\* window can still reach (run_backtest).
THEOREM EngineTypeCorrect == EngineSpec => []EngineTypeOK
<1>1. EngineInit => EngineTypes
  BY EngineRowsAssumption DEF EngineRowsAssumption, EngineInit, StartEngine, EngineTypes
<1>2. EngineTypes /\ [EngineNext]_engineVars => EngineTypes'
  <2>1. ASSUME EngineTypes, EngineNext PROVE EngineTypes'
    <3>1. PICK row \in EngineRows, endsDay \in BOOLEAN :
              JudgeBar(row, endsDay, barNo + 1 = EngineBars)
      BY <2>1 DEF EngineNext
    <3>2. IsRow(row)
      BY EngineRowsAssumption DEF EngineRowsAssumption
    <3>3. (barNo + 1 = EngineBars) \in BOOLEAN
      OBVIOUS
    <3>. QED  BY <2>1, <3>1, <3>2, <3>3, BarKeepsTypes
  <2>2. ASSUME EngineTypes, UNCHANGED engineVars PROVE EngineTypes'
    BY <2>2 DEF engineVars, EngineTypes, Holding
  <2>. QED  BY <2>1, <2>2
<1>3. EngineTypes => EngineTypeOK
  BY DEF EngineTypes, EngineTypeOK, Holding
<1>. QED  BY <1>1, <1>2, <1>3, PTL DEF EngineSpec

-----------------------------------------------------------------------------
(***************************************************************************)
(* The portfolio's invariant.  A day begins with positions of earlier days *)
(* only; entries are the last thing that happens on it.  What the account  *)
(* is worth is what the day began with and what it has realized, so an     *)
(* account that is worth nothing buys nothing.                             *)
(***************************************************************************)
PortfolioInv ==
    /\ plan \in Plans /\ day \in Nat /\ IsFiniteSet(Symbols)
    /\ {equity, dayStart, realized} \subseteq Int /\ equity = dayStart + realized
    /\ DOMAIN open \subseteq Symbols /\ DOMAIN rows \subseteq Symbols
    /\ \A s \in DOMAIN rows : rows[s] \in Rows
    /\ \A s \in DOMAIN open : Held(open[s]) /\ open[s].day <= day
    /\ phase = "exits" => \A s \in DOMAIN open : open[s].day < day
    /\ NoEntryAfterBreaker
    /\ NoReentryOnTheDay

\* The portfolio begins with its listed symbols and nothing held.
LEMMA PortfolioStart == PortfolioInit => PortfolioInv
<1>. SUFFICES ASSUME PortfolioInit PROVE PortfolioInv
  OBVIOUS
<1>1. PICK listed \in Orders :
          order = SubSeq(listed, 1, Min({Len(listed), plan.watchlistSize}))
  BY DEF PortfolioInit
<1>2. /\ plan \in Plans /\ plan.watchlistSize \in Nat
      /\ listed \in Seq(DOMAIN Seeds) /\ Len(listed) \in Nat
  BY PortfolioAssumption DEF PortfolioInit, PortfolioAssumption
<1>3. PICK n \in 0..Len(listed) : order = SubSeq(listed, 1, n)
  <2>. DEFINE m == Min({Len(listed), plan.watchlistSize})
  <2>1. Len(listed) \in Int /\ plan.watchlistSize \in Int
    BY <1>2
  <2>2. m \in {Len(listed), plan.watchlistSize} /\ m <= Len(listed)
    BY <2>1, MinOfTwo
  <2>3. order = SubSeq(listed, 1, m)
    BY <1>1
  <2>. HIDE DEF m
  <2>. QED  BY <1>2, <2>2, <2>3
<1>4. IsFiniteSet(Symbols)
  <2>1. order \in Seq(DOMAIN Seeds)
    BY <1>2, <1>3, SubSeqProperties
  <2>2. IsFiniteSet(DOMAIN order)
    BY <2>1, FS_Interval
  <2>3. order \in Surjection(DOMAIN order, Symbols)
    <3>1. order \in [DOMAIN order -> Symbols]
      BY <2>1 DEF Symbols, ToSet
    <3>. QED  BY <3>1 DEF Surjection, Symbols, ToSet
  <2>. QED  BY <2>2, <2>3, FS_Surjection
<1>5. StartEquity \in Nat
  BY PortfolioAssumption DEF PortfolioAssumption
<1>6. /\ day = 0 /\ equity = StartEquity /\ dayStart = StartEquity /\ realized = 0
      /\ rows = <<>> /\ open = <<>> /\ phase = "closed"
  BY DEF PortfolioInit
<1>7. DOMAIN open = {} /\ DOMAIN rows = {}
  BY <1>6
<1>. QED  BY <1>2, <1>4, <1>5, <1>6, <1>7 DEF PortfolioInv, NoEntryAfterBreaker,
                                             NoReentryOnTheDay

\* What is sold today was held and has a bar.
LEMMA SoldPositions ==
    ASSUME PortfolioInv
    PROVE  /\ IsFiniteSet(DOMAIN open) /\ IsFiniteSet(Sold)
           /\ Sold \subseteq DOMAIN open \cap DOMAIN rows
           /\ \A s \in Sold : Held(open[s]) /\ IsRow(rows[s]) /\ Sale(s) # {}
<1>1. DOMAIN open \in SUBSET Symbols /\ IsFiniteSet(Symbols)
  BY DEF PortfolioInv
<1>2. Sold \in SUBSET DOMAIN open /\ Sold \subseteq DOMAIN rows
      /\ \A s \in Sold : Sale(s) # {}
  BY DEF Sold
<1>3. \A s \in Sold : Held(open[s]) /\ IsRow(rows[s])
  BY <1>2, PortfolioAssumption DEF PortfolioInv, PortfolioAssumption
<1>4. IsFiniteSet(DOMAIN open)
  BY <1>1, FS_Subset
<1>5. IsFiniteSet(Sold)
  BY <1>2, <1>4, FS_Subset
<1>. QED  BY <1>2, <1>3, <1>4, <1>5

\* A day earns an integer.
LEMMA EarningsAreInt ==
    ASSUME PortfolioInv
    PROVE  MapThenSumSet(Earned, Sold) \in Int
<1>. DEFINE F == [s \in Sold |-> Earned(s)]
<1>1. PICK g : PartialSums(F, Sold, g) /\ MapThenSumSet(Earned, Sold) = g[Sold]
  BY SoldPositions, EarnedSum
<1>2. \A s \in Sold : F[s] \in Int
  <2>1. \A s \in Sold : Earned(s) \in Int
    BY SoldPositions, EarnedIsInt
  <2>. QED  BY <2>1
<1>. HIDE DEF F
<1>3. g[Sold] \in Int
  BY <1>1, <1>2, SoldPositions, SumsAreInts
<1>. QED  BY <1>1, <1>3

\* A new day makes every open position one of an earlier day.
LEMMA OpenDayKeeps == ASSUME PortfolioInv, OpenDay PROVE PortfolioInv'
<1>1. /\ UNCHANGED <<plan, order, equity, open, lastExit, at>>
      /\ phase' = "exits" /\ day' = day + 1 /\ dayStart' = equity /\ realized' = 0
  BY DEF OpenDay
<1>2. PICK traded \in SUBSET Symbols : rows' \in [traded -> Rows]
  BY DEF OpenDay
<1>3. /\ plan' \in Plans /\ day' \in Nat /\ Symbols' = Symbols
      /\ {equity', dayStart', realized'} \subseteq Int /\ equity' = dayStart' + realized'
  BY <1>1 DEF PortfolioInv, Symbols
<1>4. /\ DOMAIN rows' \subseteq Symbols
      /\ \A s \in DOMAIN rows' : rows'[s] \in Rows
  BY <1>2
<1>5. \A s \in DOMAIN open : open[s].day \in Nat /\ open[s].day < day'
                             /\ Held(open[s]) /\ day \in Nat
  BY <1>1 DEF PortfolioInv, Held
<1>6. NoEntryAfterBreaker' /\ NoReentryOnTheDay'
  <2>1. \A s \in DOMAIN open : open[s].day # day'
    BY <1>3, <1>5
  <2>. QED  BY <1>1, <1>5, <2>1 DEF NoEntryAfterBreaker, NoReentryOnTheDay
<1>. QED  BY <1>1, <1>3, <1>4, <1>5, <1>6 DEF PortfolioInv, Held

\* The exits change the worth of the account by what they realize.
LEMMA CloseOutKeeps == ASSUME PortfolioInv, CloseOut PROVE PortfolioInv'
<1>. DEFINE earned == MapThenSumSet(Earned, Sold)
<1>1. /\ UNCHANGED <<plan, order, day, rows, dayStart>>
      /\ phase = "exits" /\ phase' = "entries"
      /\ equity' = equity + earned /\ realized' = realized + earned
      /\ open' = [s \in DOMAIN open \ Sold |->
                     IF s \in DOMAIN rows
                     THEN [open[s] EXCEPT !.highest = Highest(s)]
                     ELSE open[s]]
  BY DEF CloseOut
<1>2. earned \in Int
  BY EarningsAreInt
<1>. HIDE DEF earned
<1>3. /\ plan' \in Plans /\ day' \in Nat /\ Symbols' = Symbols /\ IsFiniteSet(Symbols)
      /\ {equity', dayStart', realized'} \subseteq Int /\ equity' = dayStart' + realized'
  BY <1>1, <1>2 DEF PortfolioInv, Symbols
<1>4. /\ DOMAIN rows' \subseteq Symbols /\ DOMAIN open' \subseteq Symbols
      /\ \A s \in DOMAIN rows' : rows'[s] \in Rows
  BY <1>1 DEF PortfolioInv
<1>5. ASSUME NEW s \in DOMAIN open'
      PROVE  /\ open'[s].quantity = open[s].quantity /\ open'[s].entry = open[s].entry
             /\ open'[s].day = open[s].day /\ open'[s].commission = open[s].commission
             /\ open'[s].stop = open[s].stop /\ open'[s].target = open[s].target
             /\ s \in DOMAIN open
  BY <1>1, <1>5
<1>6. /\ \A s \in DOMAIN open' : Held(open'[s])
      /\ \A s \in DOMAIN open' : open'[s].day < day /\ open'[s].day \in Nat
  BY <1>1, <1>5 DEF PortfolioInv, Held
<1>7. NoEntryAfterBreaker' /\ NoReentryOnTheDay'
  <2>1. \A s \in DOMAIN open' : open'[s].day # day
    <3>1. day \in Nat
      BY DEF PortfolioInv
    <3>2. \A s \in DOMAIN open' : open'[s].day < day /\ open'[s].day \in Nat
      BY <1>6
    <3>. QED  BY <3>1, <3>2
  <2>. QED  BY <1>1, <1>6, <2>1 DEF NoEntryAfterBreaker, NoReentryOnTheDay
<1>8. \A s \in DOMAIN open' : open'[s].day <= day'
  <2>1. day \in Nat /\ day' = day
    BY <1>1 DEF PortfolioInv
  <2>2. \A s \in DOMAIN open' : open'[s].day < day /\ open'[s].day \in Nat
    BY <1>6
  <2>. QED  BY <2>1, <2>2
<1>9. \A s \in DOMAIN open' : Held(open'[s]) /\ open'[s].day <= day'
  BY <1>6, <1>8
<1>. QED  BY <1>1, <1>3, <1>4, <1>7, <1>9 DEF PortfolioInv

\* What an entry needs: no symbol that was sold today, and an account that is
\* worth something on a day whose loss is not at its limit.
LEMMA EntryNeeds ==
    ASSUME PortfolioInv, EntriesGoOn, NEW s, Wanted(s), Quantity(s) > 0, Deployed \in Int
    PROVE  /\ s \in DOMAIN rows /\ s \notin DOMAIN open
           /\ Quantity(s) \in Nat \ {0}
           /\ Quantity(s) * BuyFill(rows[s].close) <= equity - Deployed
           /\ ~(plan.block /\ lastExit[s] = day)
           /\ ~(100 * realized <= -DailyLossPct * dayStart)
<1>1. s \in DOMAIN rows /\ s \notin DOMAIN open /\ ~(plan.block /\ lastExit[s] = day)
  BY DEF Wanted, SoldToday
<1>2. IsRow(rows[s]) /\ plan \in Plans /\ equity \in Int
  BY <1>1, PortfolioAssumption DEF PortfolioInv, PortfolioAssumption
<1>3. /\ Quantity(s) \in Int /\ (equity <= 0 => Quantity(s) <= 0)
      /\ Quantity(s) * BuyFill(rows[s].close) <= equity - Deployed
  BY <1>2, EntryFits
<1>4. equity > 0
  BY <1>2, <1>3
<1>5. ASSUME 100 * realized <= -DailyLossPct * dayStart PROVE FALSE
  <2>1. /\ realized \in Int /\ dayStart \in Int /\ equity = dayStart + realized
        /\ DailyLossPct \in 0..100
    BY PortfolioAssumption DEF PortfolioInv, PortfolioAssumption
  <2>2. ~(dayStart > 0 /\ realized * 100 <= -dayStart * DailyLossPct)
    BY DEF EntriesGoOn, BreakerTripped
  <2>3. dayStart <= 0
    <3>1. -dayStart * DailyLossPct = -DailyLossPct * dayStart
      BY <2>1
    <3>2. realized * 100 = 100 * realized
      BY <2>1
    <3>. QED  BY <1>5, <2>1, <2>2, <3>1, <3>2
  <2>4. \A n \in Nat, m \in 0..100 : m * n <= 100 * n
    OBVIOUS
  <2>5. -dayStart \in Nat /\ -DailyLossPct * dayStart = DailyLossPct * (-dayStart)
    BY <2>1, <2>3
  <2>6. DailyLossPct * (-dayStart) <= 100 * (-dayStart)
    BY <2>1, <2>4, <2>5
  <2>7. DailyLossPct * (-dayStart) \in Int
    BY <2>1, <2>5
  <2>8. 100 * realized <= 100 * (-dayStart)
    BY <1>5, <2>1, <2>5, <2>6, <2>7
  <2>. QED  BY <1>4, <2>1, <2>8
<1>. QED  BY <1>1, <1>3, <1>5

\* What positions cost, as a function of the positions.
CostOf(held) == MapThenSumSet(LAMBDA s : held[s].entry * held[s].quantity, DOMAIN held)

Costs(held) == [s \in DOMAIN held |-> held[s].entry * held[s].quantity]

\* The cost of the positions is a partial sum as well.
LEMMA CostSum ==
    ASSUME NEW held, IsFiniteSet(DOMAIN held)
    PROVE  \E g : /\ PartialSums(Costs(held), DOMAIN held, g)
                  /\ CostOf(held) = g[DOMAIN held]
<1>. DEFINE D == DOMAIN held
            Iter(g) == g = [s \in SUBSET D |->
                               IF s = {} THEN 0
                               ELSE held[CHOOSE x \in s : TRUE].entry
                                        * held[CHOOSE x \in s : TRUE].quantity
                                    + g[s \ {CHOOSE x \in s : TRUE}]]
            iter == CHOOSE g : Iter(g)
<1>1. \A g : Iter(g) <=> PartialSums(Costs(held), D, g)
  <2>. SUFFICES ASSUME NEW g PROVE Iter(g) <=> PartialSums(Costs(held), D, g)
    OBVIOUS
  <2>1. ASSUME NEW s \in SUBSET D, s # {}
        PROVE  Costs(held)[Pick(s)] = held[Pick(s)].entry * held[Pick(s)].quantity
    <3>1. Pick(s) \in D
      BY <2>1, Picked
    <3>. QED  BY <3>1 DEF Costs
  <2>2. [s \in SUBSET D |-> IF s = {} THEN 0 ELSE Costs(held)[Pick(s)] + g[s \ {Pick(s)}]]
        = [s \in SUBSET D |-> IF s = {} THEN 0
              ELSE held[Pick(s)].entry * held[Pick(s)].quantity + g[s \ {Pick(s)}]]
    <3>. HIDE DEF D
    <3>. QED  BY <2>1
  <2>. QED  BY <2>2 DEF PartialSums, Pick
<1>2. \E g : PartialSums(Costs(held), D, g)
  BY SumsExist
<1>3. Iter(iter)
  <2>1. \E g : Iter(g)
    <3>. HIDE DEF Iter, D
    <3>. QED  BY <1>1, <1>2
  <2>. HIDE DEF Iter
  <2>. QED  BY <2>1
<1>4. CostOf(held) = iter[D]
  BY DEF CostOf, MapThenSumSet, MapThenFoldSet
<1>. HIDE DEF Iter, iter, D
<1>5. PartialSums(Costs(held), D, iter)
  BY <1>1, <1>3
<1>. QED  BY <1>4, <1>5 DEF D

\* What is deployed is the cost of the open positions ...
LEMMA DeployedIsCost == Deployed = CostOf(open)
BY DEF Deployed, Cost, CostOf, MapThenSumSet, MapThenFoldSet

\* ... after a step too.
LEMMA DeployedIsCostNext == Deployed' = CostOf(open')
BY DEF Deployed, Cost, CostOf, MapThenSumSet, MapThenFoldSet

\* A held position costs a natural number ...
LEMMA CostsAreInts ==
    ASSUME NEW held, \A s \in DOMAIN held : Held(held[s])
    PROVE  \A s \in DOMAIN held : Costs(held)[s] \in Nat
                                  /\ Costs(held)[s] = held[s].entry * held[s].quantity
<1>. SUFFICES ASSUME NEW s \in DOMAIN held
              PROVE  Costs(held)[s] \in Nat
                     /\ Costs(held)[s] = held[s].entry * held[s].quantity
  OBVIOUS
<1>1. held[s].entry \in Nat /\ held[s].quantity \in Nat
  BY DEF Held
<1>. QED  BY <1>1 DEF Costs

\* ... and finitely many of them an integer.
LEMMA CostIsInt ==
    ASSUME NEW held, IsFiniteSet(DOMAIN held), \A s \in DOMAIN held : Held(held[s])
    PROVE  CostOf(held) \in Int
<1>1. PICK g : PartialSums(Costs(held), DOMAIN held, g) /\ CostOf(held) = g[DOMAIN held]
  BY CostSum
<1>2. \A s \in DOMAIN held : Costs(held)[s] \in Int
  BY CostsAreInts
<1>3. g[DOMAIN held] \in Int
  BY <1>1, <1>2, SumsAreInts
<1>. QED  BY <1>1, <1>3

\* An entry needs what keeps the breaker and the block in force.
LEMMA ConsiderKeeps == ASSUME PortfolioInv, Consider PROVE PortfolioInv'
<1>. DEFINE s == order[at]
            bought == Wanted(s) /\ Quantity(s) > 0
            p == NewPosition(Quantity(s), BuyFill(rows[s].close), day)
<1>1. /\ EntriesGoOn /\ phase = "entries"
      /\ UNCHANGED <<plan, order, phase, day, rows, equity, dayStart, realized, lastExit>>
      /\ open' = IF bought
                 THEN [t \in DOMAIN open \cup {s} |-> IF t = s THEN p ELSE open[t]]
                 ELSE open
  BY DEF Consider, EntriesGoOn
<1>2. CASE ~bought
  <2>1. UNCHANGED <<plan, order, phase, day, rows, equity, dayStart, realized, lastExit, open>>
    BY <1>1, <1>2
  <2>. QED  BY <2>1 DEF PortfolioInv, Symbols, NoEntryAfterBreaker, NoReentryOnTheDay
<1>3. CASE bought
  <2>1. Deployed \in Int
    BY SoldPositions, CostIsInt, DeployedIsCost DEF PortfolioInv
  <2>2. /\ s \in DOMAIN rows /\ s \notin DOMAIN open
        /\ Quantity(s) \in Nat \ {0}
        /\ ~(plan.block /\ lastExit[s] = day)
        /\ ~(100 * realized <= -DailyLossPct * dayStart)
    BY <1>1, <1>3, <2>1, EntryNeeds
  <2>3. Held(p) /\ p.day = day
    BY <2>2, EntryIsHeld DEF PortfolioInv
  <2>. HIDE DEF s, p
  <2>4. /\ DOMAIN open' = DOMAIN open \cup {s} /\ open'[s] = p
        /\ \A t \in DOMAIN open : open'[t] = open[t]
    BY <1>1, <1>3, <2>2
  <2>5. /\ plan' \in Plans /\ day' \in Nat /\ Symbols' = Symbols /\ IsFiniteSet(Symbols)
        /\ {equity', dayStart', realized'} \subseteq Int /\ equity' = dayStart' + realized'
        /\ DOMAIN open' \subseteq Symbols /\ DOMAIN rows' \subseteq Symbols
        /\ \A t \in DOMAIN rows' : rows'[t] \in Rows
    BY <1>1, <2>2, <2>4 DEF PortfolioInv, Symbols
  <2>6. \A t \in DOMAIN open' : Held(open'[t]) /\ open'[t].day <= day'
    <3>1. day \in Nat /\ day' = day /\ day <= day
      BY <1>1 DEF PortfolioInv
    <3>2. \A t \in DOMAIN open : Held(open[t]) /\ open[t].day <= day
      BY DEF PortfolioInv
    <3>. QED  BY <2>3, <2>4, <3>1, <3>2
  <2>7. NoEntryAfterBreaker'
    BY <1>1, <2>2 DEF NoEntryAfterBreaker
  <2>8. NoReentryOnTheDay'
    <3>1. plan.block => \A t \in DOMAIN open : ~(lastExit[t] = day /\ open[t].day = day)
      BY DEF PortfolioInv, NoReentryOnTheDay
    <3>. QED  BY <1>1, <2>2, <2>4, <3>1 DEF NoReentryOnTheDay
  <2>. QED  BY <1>1, <2>5, <2>6, <2>7, <2>8 DEF PortfolioInv
<1>. QED  BY <1>2, <1>3

\* Every step of the portfolio keeps its invariant.
LEMMA PortfolioStep == PortfolioInv /\ [PortfolioNext]_portfolioVars => PortfolioInv'
<1>1. ASSUME PortfolioInv, CloseDay PROVE PortfolioInv'
  <2>1. /\ UNCHANGED <<plan, order, day, equity, dayStart, realized, open, lastExit>>
        /\ rows' = <<>> /\ phase' = "closed"
    BY <1>1 DEF CloseDay
  <2>2. DOMAIN rows' = {}
    BY <2>1
  <2>. QED  BY <1>1, <2>1, <2>2 DEF PortfolioInv, Symbols, NoEntryAfterBreaker, NoReentryOnTheDay
<1>2. ASSUME PortfolioInv, UNCHANGED portfolioVars PROVE PortfolioInv'
  BY <1>2 DEF portfolioVars, PortfolioInv, Symbols, NoEntryAfterBreaker, NoReentryOnTheDay
<1>. QED  BY <1>1, <1>2, OpenDayKeeps, CloseOutKeeps, ConsiderKeeps DEF PortfolioNext

\* A day that has lost its limit opens nothing, even when the account was worth
\* nothing to begin with (the circuit breaker of run_portfolio_backtest).
THEOREM BreakerStopsEntries == PortfolioSpec => []NoEntryAfterBreaker
<1>1. PortfolioInv => NoEntryAfterBreaker
  BY DEF PortfolioInv
<1>. QED  BY <1>1, PortfolioStart, PortfolioStep, PTL DEF PortfolioSpec

\* What was sold today is not bought again today (block_same_day_reentry).
THEOREM SoldStaysSoldToday == PortfolioSpec => []NoReentryOnTheDay
<1>1. PortfolioInv => NoReentryOnTheDay
  BY DEF PortfolioInv
<1>. QED  BY <1>1, PortfolioStart, PortfolioStep, PTL DEF PortfolioSpec

\* The listed symbols are a sequence, cut to the size of the watchlist.
LEMMA ListedOrder == PortfolioInit => order \in Seq(DOMAIN Seeds)
<1>. SUFFICES ASSUME PortfolioInit PROVE order \in Seq(DOMAIN Seeds)
  OBVIOUS
<1>1. PICK listed \in Orders :
          order = SubSeq(listed, 1, Min({Len(listed), plan.watchlistSize}))
  BY DEF PortfolioInit
<1>2. listed \in Seq(DOMAIN Seeds) /\ Len(listed) \in Int /\ plan.watchlistSize \in Int
  BY PortfolioAssumption DEF PortfolioInit, PortfolioAssumption
<1>3. PICK n \in Int : n <= Len(listed) /\ order = SubSeq(listed, 1, n)
  BY <1>1, <1>2, MinOfTwo
<1>. QED  BY <1>2, <1>3, SubSeqProperties

\* A slot and an entry of the day are asked for before they are taken, and a
\* day has begun whenever something is bought.
PlanInv ==
    /\ PortfolioInv /\ PortfolioTypeOK /\ order \in Seq(DOMAIN Seeds)
    /\ phase # "closed" => day > 0

\* The limits of a plan and what is counted against them are numbers.
LEMMA PlanNumbers ==
    ASSUME PlanInv
    PROVE  /\ plan.slots \in Nat /\ plan.dailyEntries \in Nat /\ Days \in Nat
           /\ day \in Nat /\ entries \in Nat /\ Len(order) \in Nat
           /\ IsFiniteSet(DOMAIN open) /\ Cardinality(DOMAIN open) \in Nat
           /\ IsFiniteSet(Sold) /\ Sold \subseteq DOMAIN open
BY PortfolioAssumption, SoldPositions, FS_CardinalityType
   DEF PortfolioAssumption, PlanInv, PortfolioInv, PortfolioTypeOK

\* The exits free slots only.
LEMMA ExitsKeepPlan == ASSUME PlanInv, CloseOut PROVE PlanInv'
<1>1. PortfolioInv'
  BY CloseOutKeeps DEF PlanInv
<1>2. /\ phase' = "entries" /\ phase = "exits" /\ at' = 1
      /\ UNCHANGED <<plan, order, day, rows, dayStart, entries>>
      /\ DOMAIN open' = DOMAIN open \ Sold
      /\ \A s \in DOMAIN open' : /\ open'[s].quantity = open[s].quantity
                                 /\ open'[s].day = open[s].day
  BY DEF CloseOut
<1>3. Cardinality(DOMAIN open') <= plan.slots
  <2>1. DOMAIN open' \in SUBSET DOMAIN open
    BY <1>2
  <2>2. /\ Cardinality(DOMAIN open') <= Cardinality(DOMAIN open)
        /\ Cardinality(DOMAIN open') \in Nat
    BY <2>1, PlanNumbers, FS_Subset, FS_CardinalityType
  <2>. QED  BY <2>2, PlanNumbers DEF PlanInv, PortfolioTypeOK
<1>4. \A s \in DOMAIN open' : open'[s].quantity > 0 /\ open'[s].day \in 1..day
  BY <1>2 DEF PlanInv, PortfolioTypeOK
<1>5. {equity', dayStart', realized'} \subseteq Int /\ DOMAIN open' \subseteq Symbols'
      /\ DOMAIN rows' \subseteq Symbols'
  BY <1>1 DEF PortfolioInv
<1>. QED  BY <1>1, <1>2, <1>3, <1>4, <1>5, PlanNumbers DEF PlanInv, PortfolioTypeOK

\* An entry takes a slot and one of the day's entries.
LEMMA EntriesKeepPlan == ASSUME PlanInv, Consider PROVE PlanInv'
<1>. DEFINE s == order[at]
            bought == Wanted(s) /\ Quantity(s) > 0
            p == NewPosition(Quantity(s), BuyFill(rows[s].close), day)
<1>1. PortfolioInv'
  BY ConsiderKeeps DEF PlanInv
<1>2. /\ phase = "entries" /\ at <= Len(order) /\ at' = at + 1
      /\ Cardinality(DOMAIN open) < plan.slots /\ entries < plan.dailyEntries
      /\ UNCHANGED <<plan, order, phase, day>>
      /\ entries' = IF bought THEN entries + 1 ELSE entries
      /\ open' = IF bought
                 THEN [t \in DOMAIN open \cup {s} |-> IF t = s THEN p ELSE open[t]]
                 ELSE open
  BY DEF Consider, EntriesGoOn
<1>3. {equity', dayStart', realized'} \subseteq Int /\ DOMAIN open' \subseteq Symbols'
      /\ DOMAIN rows' \subseteq Symbols' /\ plan' \in Plans
  BY <1>1 DEF PortfolioInv
<1>4. /\ day \in 0..Days /\ day > 0 /\ at \in 1..(Len(order) + 1)
      /\ entries \in 0..plan.dailyEntries
      /\ \A t \in DOMAIN open : open[t].quantity > 0 /\ open[t].day \in 1..day
  BY <1>2 DEF PlanInv, PortfolioTypeOK
<1>5. at' \in 1..(Len(order') + 1) /\ entries' \in 0..plan'.dailyEntries
  BY <1>2, <1>4, PlanNumbers
<1>6. /\ Cardinality(DOMAIN open') <= plan'.slots
      /\ \A t \in DOMAIN open' : open'[t].quantity > 0 /\ open'[t].day \in 1..day'
  <2>1. CASE ~bought
    BY <1>2, <1>4, <2>1, PlanNumbers
  <2>2. CASE bought
    <3>1. p.quantity = Quantity(s) /\ p.day = day
      BY DEF NewPosition
    <3>. HIDE DEF p, s
    <3>2. DOMAIN open' = DOMAIN open \cup {s}
          /\ \A t \in DOMAIN open' : open'[t] = IF t = s THEN p ELSE open[t]
      BY <1>2, <2>2
    <3>3. Cardinality(DOMAIN open') <= Cardinality(DOMAIN open) + 1
          /\ Cardinality(DOMAIN open') \in Nat
      <4>1. /\ IsFiniteSet(DOMAIN open \cup {s})
            /\ Cardinality(DOMAIN open \cup {s}) =
                   IF s \in DOMAIN open THEN Cardinality(DOMAIN open)
                   ELSE Cardinality(DOMAIN open) + 1
        BY PlanNumbers, FS_AddElement
      <4>. QED  BY <3>2, <4>1, PlanNumbers
    <3>4. Cardinality(DOMAIN open') <= plan'.slots
      BY <1>2, <3>3, PlanNumbers
    <3>5. \A t \in DOMAIN open' : open'[t].quantity > 0 /\ open'[t].day \in 1..day'
      BY <1>2, <1>4, <2>2, <3>1, <3>2, PlanNumbers
    <3>. QED  BY <3>4, <3>5
  <2>. QED  BY <2>1, <2>2
<1>. QED  BY <1>1, <1>2, <1>3, <1>4, <1>5, <1>6 DEF PlanInv, PortfolioTypeOK

\* Every step keeps the limits of the plan.
LEMMA StepKeepsPlan == PlanInv /\ [PortfolioNext]_portfolioVars => PlanInv'
<1>. SUFFICES ASSUME PlanInv, [PortfolioNext]_portfolioVars PROVE PlanInv'
  OBVIOUS
<1>1. /\ PortfolioInv'
  BY PortfolioStep DEF PlanInv
<1>2. /\ plan' \in Plans /\ {equity', dayStart', realized'} \subseteq Int
      /\ DOMAIN open' \subseteq Symbols' /\ DOMAIN rows' \subseteq Symbols'
  BY <1>1 DEF PortfolioInv
<1>3. CASE OpenDay
  <2>1. /\ UNCHANGED <<plan, order, open, at>> /\ day' = day + 1 /\ day < Days
        /\ phase' = "exits" /\ entries' = 0
    BY <1>3 DEF OpenDay
  <2>2. \A s \in DOMAIN open' : open'[s].quantity > 0 /\ open'[s].day \in 1..day'
    BY <2>1, PlanNumbers DEF PlanInv, PortfolioTypeOK
  <2>. QED  BY <1>1, <1>2, <2>1, <2>2, PlanNumbers DEF PlanInv, PortfolioTypeOK
<1>4. CASE CloseDay
  <2>1. UNCHANGED <<plan, order, open, day, entries>> /\ phase' = "closed" /\ at' = 1
    BY <1>4 DEF CloseDay
  <2>. QED  BY <1>1, <1>2, <2>1, PlanNumbers DEF PlanInv, PortfolioTypeOK
<1>5. CASE UNCHANGED portfolioVars
  <2>1. UNCHANGED <<plan, order, open, day, entries, phase, at>>
    BY <1>5 DEF portfolioVars
  <2>. QED  BY <1>1, <1>2, <2>1 DEF PlanInv, PortfolioTypeOK
<1>. QED  BY <1>3, <1>4, <1>5, ExitsKeepPlan, EntriesKeepPlan DEF PortfolioNext

\* The portfolio keeps the limits of its plan: never more positions than slots,
\* never more entries on a day than allowed (run_portfolio_backtest).
THEOREM PlansAreKept == PortfolioSpec => []PortfolioTypeOK
<1>1. PortfolioInit => PlanInv
  <2>. SUFFICES ASSUME PortfolioInit PROVE PlanInv
    OBVIOUS
  <2>1. PortfolioInv /\ order \in Seq(DOMAIN Seeds)
    BY PortfolioStart, ListedOrder
  <2>2. /\ phase = "closed" /\ day = 0 /\ at = 1 /\ entries = 0 /\ open = <<>>
    BY DEF PortfolioInit
  <2>3. DOMAIN open = {} /\ Cardinality(DOMAIN open) = 0 /\ Len(order) \in Nat
    BY <2>1, <2>2, FS_EmptySet
  <2>4. plan.slots \in Nat /\ plan.dailyEntries \in Nat /\ Days \in Nat
    BY <2>1, PortfolioAssumption DEF PortfolioInv, PortfolioAssumption
  <2>. QED  BY <2>1, <2>2, <2>3, <2>4 DEF PlanInv, PortfolioTypeOK, PortfolioInv
<1>2. PlanInv => PortfolioTypeOK
  BY DEF PlanInv
<1>. QED  BY <1>1, <1>2, StepKeepsPlan, PTL DEF PortfolioSpec

-----------------------------------------------------------------------------
(***************************************************************************)
(* The cash.  An entry is cut to what the open positions leave; a sale     *)
(* gives up what its position cost and earns at least the negative of it.  *)
(* The second holds only while a sale brings its commissions.              *)
(***************************************************************************)
LEMMA SaleCoversCost ==
    ASSUME NoWipeOut, NEW s, Held(open[s]), rows[s] \in Rows, Sale(s) # {}
    PROVE  Earned(s) \in Int /\ Earned(s) + open[s].entry * open[s].quantity >= 0
<1>. DEFINE e == open[s].entry
            q == open[s].quantity
            low == SellFill(BarAt(rows[s]).low)
            cap == CommissionCapPct
<1>1. IsRow(rows[s])
  BY PortfolioAssumption DEF PortfolioAssumption
<1>2. PICK fill \in Nat :
          /\ Earned(s) = (fill - e) * q - open[s].commission - Commission(q, fill)
          /\ Earned(s) \in Int
          /\ fill >= low \/ fill >= e
  BY <1>1, EarnedIsInt
<1>3. /\ q \in Nat \ {0} /\ e \in Nat /\ open[s].commission = Commission(q, e)
      /\ \E row \in Rows : e = BuyFill(row.close)
  BY DEF Held
<1>4. low \in Nat
  BY <1>1, BarInOrder, SellFillBounds
<1>5. cap \in 1..50 /\ cap * e <= (100 - cap) * low
  BY <1>3 DEF NoWipeOut
<1>6. /\ Commission(q, e) \in Nat /\ 100 * Commission(q, e) <= (q * e) * cap
      /\ Commission(q, fill) \in Nat /\ 100 * Commission(q, fill) <= (q * fill) * cap
  <2>. HIDE DEF e, q
  <2>1. CommissionCapPct > 0
    BY <1>5
  <2>. QED  BY <1>2, <1>3, <2>1, CommissionBounds
<1>. HIDE DEF e, q, low, cap
<1>7. cap * e <= (100 - cap) * fill
  <2>1. CASE fill >= low
    <3>1. (100 - cap) * low <= (100 - cap) * fill
      BY <1>2, <1>4, <1>5, <2>1
    <3>2. cap * e \in Int /\ (100 - cap) * low \in Int /\ (100 - cap) * fill \in Int
      BY <1>2, <1>3, <1>4, <1>5
    <3>. QED  BY <1>5, <3>1, <3>2
  <2>2. CASE fill >= e
    <3>1. cap * e <= (100 - cap) * e
      BY <1>3, <1>5
    <3>2. (100 - cap) * e <= (100 - cap) * fill
      BY <1>2, <1>3, <1>5, <2>2
    <3>3. cap * e \in Int /\ (100 - cap) * e \in Int /\ (100 - cap) * fill \in Int
      BY <1>2, <1>3, <1>5
    <3>. QED  BY <3>1, <3>2, <3>3
  <2>. QED  BY <1>2, <2>1, <2>2
<1>8. Commission(q, e) + Commission(q, fill) <= q * fill
  <2>. DEFINE x == cap * e
              y == (100 - cap) * fill
  <2>1. x \in Nat /\ y \in Nat /\ x <= y
    BY <1>2, <1>3, <1>5, <1>7
  <2>2. \A a, b \in Nat : a <= b => q * a <= q * b
    BY <1>3
  <2>3. q * x <= q * y
    BY <2>1, <2>2
  <2>4. (q * e) * cap = q * x
    BY <1>3, <1>5
  <2>5. (q * fill) * cap = 100 * (q * fill) - q * y
    <3>1. \A a, b, c \in Int : (a * b) * c = 100 * (a * b) - a * ((100 - c) * b)
      OBVIOUS
    <3>2. q \in Int /\ fill \in Int /\ cap \in Int
      BY <1>2, <1>3, <1>5
    <3>. QED  BY <3>1, <3>2
  <2>6. q * x \in Int /\ q * y \in Int /\ q * fill \in Int
    BY <1>2, <1>3, <2>1
  <2>. HIDE DEF x, y
  <2>. QED  BY <1>6, <2>3, <2>4, <2>5, <2>6
<1>9. (fill - e) * q + e * q = q * fill
  BY <1>2, <1>3
<1>10. Earned(s) + e * q >= 0
  <2>1. (fill - e) * q \in Int /\ e * q \in Int /\ q * fill \in Int
    BY <1>2, <1>3
  <2>. QED  BY <1>2, <1>3, <1>6, <1>8, <1>9, <2>1
<1>. QED  BY <1>2, <1>10 DEF e, q

\* Summands that outweigh what is taken away outweigh it as a sum.
LEMMA SumsOutweigh ==
    ASSUME NEW S, IsFiniteSet(S), NEW F, NEW g, PartialSums(F, S, g),
           NEW D, IsFiniteSet(D), NEW C, NEW h, PartialSums(C, D, h),
           S \subseteq D, \A x \in D : C[x] \in Int,
           \A x \in S : F[x] \in Int /\ F[x] + C[x] >= 0
    PROVE  g[S] + h[D] >= h[D \ S]
<1>. DEFINE Bad == {n \in Nat : \E t \in SUBSET S : /\ Cardinality(t) = n
                                                    /\ ~(g[t] + h[D] >= h[D \ t])}
<1>1. /\ \A t \in SUBSET S : g[t] \in Int
      /\ \A t \in SUBSET D : h[t] \in Int
  BY SumsAreInts
<1>2. \A t \in SUBSET S : g[t] = IF t = {} THEN 0 ELSE F[Pick(t)] + g[t \ {Pick(t)}]
  BY DEF PartialSums
<1>3. Bad = {}
  <2>. SUFFICES ASSUME Bad # {} PROVE FALSE
    OBVIOUS
  <2>1. PICK n \in Bad : \A m \in Bad : n <= m
    <3>1. Bad \in SUBSET Nat
      OBVIOUS
    <3>. HIDE DEF Bad
    <3>. QED  BY <3>1, LeastOf
  <2>2. PICK t \in SUBSET S : Cardinality(t) = n /\ ~(g[t] + h[D] >= h[D \ t])
    BY <2>1
  <2>3. t # {}
    <3>1. ASSUME t = {} PROVE g[t] + h[D] >= h[D \ t]
      <4>1. g[t] = 0 /\ h[D] \in Int
        BY <1>1, <1>2, <3>1
      <4>2. h[D \ t] = h[D]
        <5>1. D \ t = D
          BY <3>1
        <5>. QED  BY <5>1
      <4>. QED  BY <4>1, <4>2
    <3>. QED  BY <2>2, <3>1
  <2>. DEFINE x == Pick(t)
              u == t \ {x}
              v == D \ u
  <2>4. x \in t
    BY <2>3, Picked
  <2>5. u \in SUBSET S /\ Cardinality(t) \in Nat \ {0} /\ Cardinality(u) = Cardinality(t) - 1
    BY <2>4, WithoutOne
  <2>6. g[t] = F[x] + g[u]
    BY <1>2, <2>3
  <2>7. v \in SUBSET D /\ x \in v /\ v \ {x} = D \ t
    BY <2>2, <2>4
  <2>. HIDE DEF x, u
  <2>8. g[u] + h[D] >= h[v]
    <3>1. Cardinality(u) \notin Bad /\ Cardinality(u) \in Nat
      <4>. HIDE DEF Bad
      <4>. QED  BY <2>1, <2>2, <2>5
    <3>. QED  BY <2>5, <3>1
  <2>. HIDE DEF v
  <2>9. h[v] = C[x] + h[D \ t]
    <3>1. h[v] = C[x] + h[v \ {x}]
      BY <2>7, SumsAnyLast
    <3>. QED  BY <2>7, <3>1
  <2>10. /\ g[t] \in Int /\ g[u] \in Int /\ h[D] \in Int /\ h[v] \in Int
         /\ h[D \ t] \in Int /\ F[x] \in Int /\ C[x] \in Int /\ F[x] + C[x] >= 0
    BY <1>1, <2>2, <2>4, <2>5, <2>7
  <2>. QED  BY <2>2, <2>6, <2>8, <2>9, <2>10
<1>4. Cardinality(S) \in Nat
  BY FS_CardinalityType
<1>. QED  BY <1>3, <1>4

CashInv == PortfolioInv /\ CashCoversPositions

\* At first nothing is deployed.
LEMMA CashAtStart == PortfolioInit => CashInv
<1>. SUFFICES ASSUME PortfolioInit PROVE CashInv
  OBVIOUS
<1>1. PortfolioInv
  BY PortfolioStart
<1>2. open = <<>> /\ DOMAIN open = {} /\ equity \in Nat
  BY PortfolioAssumption DEF PortfolioInit, PortfolioAssumption
<1>3. PICK g : PartialSums(Costs(open), DOMAIN open, g) /\ CostOf(open) = g[DOMAIN open]
  BY <1>1, SoldPositions, CostSum
<1>4. g[{}] = 0
  BY <1>3 DEF PartialSums
<1>. QED  BY <1>1, <1>2, <1>3, <1>4, DeployedIsCost DEF CashInv, CashCoversPositions

\* The exits leave at least what the positions that stay have cost.
LEMMA CashAfterExits ==
    ASSUME NoWipeOut, CashInv, CloseOut
    PROVE  CashCoversPositions'
<1>. DEFINE D == DOMAIN open
            F == [s \in Sold |-> Earned(s)]
            C == Costs(open)
<1>1. PortfolioInv /\ CostOf(open) <= equity /\ equity \in Int
  BY DeployedIsCost DEF CashInv, CashCoversPositions, PortfolioInv
<1>2. /\ IsFiniteSet(D) /\ IsFiniteSet(Sold) /\ Sold \subseteq D \cap DOMAIN rows
      /\ \A s \in Sold : Held(open[s]) /\ rows[s] \in Rows /\ Sale(s) # {}
      /\ \A s \in D : Held(open[s])
  BY <1>1, SoldPositions DEF PortfolioInv
<1>3. PICK g : PartialSums(F, Sold, g) /\ MapThenSumSet(Earned, Sold) = g[Sold]
  BY <1>2, EarnedSum
<1>4. PICK h : PartialSums(C, D, h) /\ CostOf(open) = h[D]
  BY <1>2, CostSum
<1>5. \A s \in D : C[s] \in Int /\ C[s] = open[s].entry * open[s].quantity
  BY <1>2, CostsAreInts
<1>6. \A s \in Sold : F[s] \in Int /\ F[s] + C[s] >= 0
  <2>1. \A s \in Sold : Earned(s) \in Int /\ Earned(s) + open[s].entry * open[s].quantity >= 0
    BY <1>2, SaleCoversCost
  <2>2. \A s \in Sold : F[s] = Earned(s) /\ s \in D
    BY <1>2
  <2>. HIDE DEF F, C, D
  <2>. QED  BY <1>5, <2>1, <2>2
<1>. HIDE DEF F, C
<1>7. g[Sold] + h[D] >= h[D \ Sold]
  <2>. HIDE DEF D
  <2>. QED  BY <1>2, <1>3, <1>4, <1>5, <1>6, SumsOutweigh
<1>8. g[Sold] \in Int /\ h[D] \in Int /\ h[D \ Sold] \in Int
  <2>. HIDE DEF D
  <2>1. D \ Sold \in SUBSET D
    OBVIOUS
  <2>. QED  BY <1>2, <1>3, <1>4, <1>5, <1>6, <2>1, SumsAreInts
<1>9. equity' = equity + g[Sold]
  BY <1>3 DEF CloseOut
<1>10. CostOf(open') = h[D \ Sold]
  <2>1. /\ DOMAIN open' = D \ Sold
        /\ \A s \in D \ Sold : /\ open'[s].entry = open[s].entry
                               /\ open'[s].quantity = open[s].quantity
    BY DEF CloseOut
  <2>. HIDE DEF D
  <2>2. IsFiniteSet(DOMAIN open')
    BY <1>2, <2>1, FS_Subset
  <2>3. PICK k : /\ PartialSums(Costs(open'), DOMAIN open', k)
                 /\ CostOf(open') = k[DOMAIN open']
    BY <2>2, CostSum
  <2>4. \A s \in D \ Sold : Costs(open')[s] = C[s]
    BY <1>5, <2>1 DEF Costs
  <2>5. k[D \ Sold] = h[D \ Sold]
    BY <1>4, <2>1, <2>2, <2>3, <2>4, SumsAgree
  <2>. QED  BY <2>1, <2>3, <2>5
<1>11. CostOf(open') <= equity'
  <2>. HIDE DEF D
  <2>. QED  BY <1>1, <1>4, <1>7, <1>8, <1>9, <1>10
<1>. QED  BY <1>11, DeployedIsCostNext DEF CashCoversPositions

\* An entry is paid out of what was left.
LEMMA CashAfterEntry ==
    ASSUME CashInv, Consider
    PROVE  CashCoversPositions'
<1>. DEFINE s == order[at]
            fill == BuyFill(rows[s].close)
            p == NewPosition(Quantity(s), fill, day)
            D == DOMAIN open
<1>1. PortfolioInv /\ CostOf(open) <= equity /\ equity \in Int
  BY DeployedIsCost DEF CashInv, CashCoversPositions, PortfolioInv
<1>2. /\ EntriesGoOn /\ UNCHANGED <<rows, equity>>
      /\ open' = IF Wanted(s) /\ Quantity(s) > 0
                 THEN [t \in DOMAIN open \cup {s} |-> IF t = s THEN p ELSE open[t]]
                 ELSE open
  BY DEF Consider
<1>3. CASE ~(Wanted(s) /\ Quantity(s) > 0)
  <2>1. open' = open /\ equity' = equity
    BY <1>2, <1>3
  <2>. QED  BY <1>1, <2>1, DeployedIsCostNext DEF CashCoversPositions
<1>4. CASE Wanted(s) /\ Quantity(s) > 0
  <2>1. IsFiniteSet(D) /\ (\A t \in D : Held(open[t]))
    BY <1>1, SoldPositions DEF PortfolioInv
  <2>2. CostOf(open) \in Int
    BY <2>1, CostIsInt
  <2>3. /\ s \in DOMAIN rows /\ s \notin DOMAIN open
        /\ Quantity(s) \in Nat \ {0}
        /\ Quantity(s) * fill <= equity - CostOf(open)
    BY <1>1, <1>2, <1>4, <2>2, EntryNeeds, DeployedIsCost
  <2>4. Held(p) /\ p.entry = fill /\ p.quantity = Quantity(s)
    <3>1. p.entry = fill /\ p.quantity = Quantity(s)
      BY DEF NewPosition
    <3>2. rows[s] \in Rows /\ day \in Nat
      BY <1>1, <2>3 DEF PortfolioInv
    <3>3. Held(p)
      BY <2>3, <3>2, EntryIsHeld
    <3>. QED  BY <3>1, <3>3
  <2>. HIDE DEF p, fill, s
  <2>5. /\ DOMAIN open' = D \cup {s} /\ open'[s] = p
        /\ \A t \in D : open'[t] = open[t]
    BY <1>2, <1>4, <2>3
  <2>. HIDE DEF D
  <2>6. IsFiniteSet(DOMAIN open') /\ (\A t \in DOMAIN open' : Held(open'[t]))
    BY <2>1, <2>4, <2>5, FS_AddElement
  <2>7. PICK h : PartialSums(Costs(open), D, h) /\ CostOf(open) = h[D]
    BY <2>1, CostSum DEF D
  <2>8. PICK k : /\ PartialSums(Costs(open'), DOMAIN open', k)
                 /\ CostOf(open') = k[DOMAIN open']
    BY <2>6, CostSum
  <2>9. \A t \in DOMAIN open' : Costs(open')[t] \in Int
                                /\ Costs(open')[t] = open'[t].entry * open'[t].quantity
    BY <2>6, CostsAreInts
  <2>10. k[DOMAIN open'] = Costs(open')[s] + k[DOMAIN open' \ {s}]
    <3>1. s \in DOMAIN open' /\ DOMAIN open' \in SUBSET (DOMAIN open')
      BY <2>5
    <3>2. \A t \in DOMAIN open' : Costs(open')[t] \in Int
      BY <2>9
    <3>. DEFINE S == DOMAIN open'
                F == Costs(open')
    <3>3. /\ IsFiniteSet(S) /\ PartialSums(F, S, k)
          /\ (\A t \in S : F[t] \in Int) /\ S \in SUBSET S /\ s \in S
      BY <2>6, <2>8, <3>1, <3>2
    <3>. HIDE DEF S, F
    <3>4. k[S] = F[s] + k[S \ {s}]
      BY <3>3, SumsAnyLast
    <3>. QED  BY <3>4 DEF S, F
  <2>11. DOMAIN open' \ {s} = D /\ D \in SUBSET DOMAIN open'
    BY <2>3, <2>5 DEF D
  <2>12. \A t \in D : Costs(open')[t] = Costs(open)[t]
    BY <2>5, <2>11 DEF Costs, D
  <2>13. k[D] = h[D]
    BY <2>6, <2>7, <2>8, <2>11, <2>12, SumsAgree
  <2>14. Costs(open')[s] = Quantity(s) * fill
    <3>1. Costs(open')[s] = fill * Quantity(s)
      BY <2>4, <2>5, <2>9
    <3>2. fill \in Int /\ Quantity(s) \in Int
      BY <2>3, <2>4 DEF Held
    <3>. QED  BY <3>1, <3>2
  <2>15. CostOf(open') = Quantity(s) * fill + CostOf(open)
    BY <2>7, <2>8, <2>10, <2>11, <2>13, <2>14
  <2>16. Quantity(s) * fill \in Int
    BY <2>5, <2>9, <2>14
  <2>17. CostOf(open') <= equity'
    <3>1. equity' = equity
      BY <1>2
    <3>. QED  BY <1>1, <2>2, <2>3, <2>15, <2>16, <3>1
  <2>. QED  BY <2>17, DeployedIsCostNext DEF CashCoversPositions
<1>. QED  BY <1>3, <1>4

\* The positions never cost more than the account is worth, as long as no sale
\* is eaten up by its commissions (the cash clamp of run_portfolio_backtest).
THEOREM CashIsEnough == NoWipeOut => (PortfolioSpec => []CashCoversPositions)
<1>. SUFFICES ASSUME NoWipeOut PROVE PortfolioSpec => []CashCoversPositions
  OBVIOUS
<1>1. CashInv /\ [PortfolioNext]_portfolioVars => CashInv'
  <2>. SUFFICES ASSUME CashInv, [PortfolioNext]_portfolioVars PROVE CashCoversPositions'
    BY PortfolioStep DEF CashInv
  <2>1. ASSUME open' = open, equity' = equity PROVE CashCoversPositions'
    BY <2>1, DeployedIsCost, DeployedIsCostNext DEF CashInv, CashCoversPositions
  <2>2. CASE OpenDay \/ CloseDay \/ UNCHANGED portfolioVars
    BY <2>1, <2>2 DEF OpenDay, CloseDay, portfolioVars
  <2>. QED  BY <2>2, CashAfterExits, CashAfterEntry DEF PortfolioNext
<1>2. CashInv => CashCoversPositions
  BY DEF CashInv
<1>. QED  BY <1>1, <1>2, CashAtStart, PTL DEF PortfolioSpec

-----------------------------------------------------------------------------
(***************************************************************************)
(* The engine beside a portfolio of one symbol.  During a day the          *)
(* portfolio is ahead: it has sold, or bought, what the engine will sell   *)
(* or buy when it judges the same bar.                                     *)
(***************************************************************************)

Alone == order[1]
Holdings == {open[s] : s \in DOMAIN open}
EngineSale(p) == EngineExit(p, BarAt(rows[Alone]), LastDay, FALSE)
SaleFillOf(sales) == (CHOOSE s \in sales : TRUE).fill

SameAtNight ==
    /\ today = day + 1 /\ soldOn <= day /\ lastExit[Alone] <= day
    /\ balance = equity /\ history = closes[Alone]
    /\ day < Days => position = Holdings

SameBar ==
    /\ Alone \in DOMAIN rows /\ today = day /\ soldOn < day
    /\ closes[Alone] = Remember(history, rows[Alone].close)

SameBeforeExits ==
    /\ SameBar /\ lastExit[Alone] < day /\ balance = equity
    /\ realized = 0 /\ entries = 0 /\ position = Holdings

NothingHeld ==
    /\ position = {} /\ lastExit[Alone] < day /\ balance = equity
    /\ at = 1 => DOMAIN open = {} /\ entries = 0 /\ realized = 0
    /\ at = 2 => ~LastDay /\ Holdings = EngineEntry(closes[Alone], rows[Alone], FALSE)

StillHeld ==
    /\ balance = equity
    /\ \E p : /\ position = {p} /\ EngineSale(p) = {}
              /\ Holdings = {[p EXCEPT !.highest = Max({@, BarAt(rows[Alone]).high})]}

JustSold ==
    /\ Holdings = {} /\ lastExit[Alone] = day
    /\ \E p : /\ position = {p} /\ EngineSale(p) # {}
              /\ equity = balance + Pnl(p, SaleFillOf(EngineSale(p)))

SameAfterExits ==
    /\ SameBar /\ at \in {1, 2} /\ lastExit[Alone] <= day
    /\ NothingHeld \/ StillHeld \/ JustSold

Together ==
    /\ setup = PlainSetup /\ DOMAIN open \subseteq {Alone}
    /\ soldOn \in Nat /\ lastExit[Alone] \in Nat
    /\ phase \in {"closed", "exits", "entries"}
    /\ phase = "closed" => SameAtNight
    /\ phase = "exits" => SameBeforeExits
    /\ phase = "entries" => SameAfterExits

ParityInv == PortfolioInv /\ order \in Seq(DOMAIN Seeds) /\ (Comparable => Together)

\* One symbol alone.
LEMMA OneSymbol ==
    ASSUME order \in Seq(DOMAIN Seeds), Len(order) = 1
    PROVE  Symbols = {Alone} /\ Alone \in DOMAIN Seeds
<1>1. DOMAIN order = 1..1 /\ order[1] \in DOMAIN Seeds
  OBVIOUS
<1>2. 1..1 = {1}
  OBVIOUS
<1>. QED  BY <1>1, <1>2 DEF Symbols, ToSet, Alone

\* Both keep the same closes when no longer history is asked for.
LEMMA SameHistory ==
    ASSUME plan.minHistory = MAWindow, NEW known, NEW close
    PROVE  Extend(known, close) = Remember(known, close)
<1>1. {MAWindow, LongWindow, plan.minHistory} = {MAWindow, LongWindow}
  OBVIOUS
<1>. QED  BY <1>1 DEF Extend, Remember

\* The engine and the portfolio sell a position on the same bar, at the same
\* price; only the reason may be another on the last day.
LEMMA SameSale ==
    ASSUME Alone \in DOMAIN open, Alone \in DOMAIN rows
    PROVE  /\ Sale(Alone) = {} <=> EngineSale(open[Alone]) = {}
           /\ Sale(Alone) # {} =>
                  SaleFillOf(Sale(Alone)) = SaleFillOf(EngineSale(open[Alone]))
<1>. DEFINE p == open[Alone]
            bar == BarAt(rows[Alone])
            resting == RestingExit(p.stop, p.target, bar)
            bot == BotExit(p.entry, bar.close, Max({p.highest, bar.high}))
            reasons == bot \cup IF LastDay THEN {"END_OF_DATA"} ELSE {}
            market(reason) == [reason |-> reason, fill |-> SellFill(bar.close)]
            closed == {IF r.reason = "STOP_LOSS" THEN [r EXCEPT !.fill = SellFill(@)] ELSE r :
                           r \in resting}
<1>1. Sale(Alone) = IF resting # {} THEN closed ELSE {market(reason) : reason \in reasons}
  BY DEF Sale, Highest
<1>2. EngineSale(p) = IF resting # {} THEN closed
                      ELSE IF bot # {} THEN UNION {{market(reason)} : reason \in bot}
                      ELSE IF LastDay THEN {market("END_OF_DATA")} ELSE {}
  BY DEF EngineSale, EngineExit
<1>3. \A reason : market(reason).fill = SellFill(bar.close)
  OBVIOUS
<1>4. CASE resting # {}
  <2>. HIDE DEF closed, resting, p
  <2>. QED  BY <1>1, <1>2, <1>4 DEF p
<1>5. CASE resting = {}
  <2>. HIDE DEF resting, bot, market
  <2>1. \A sale \in Sale(Alone) : sale.fill = SellFill(bar.close)
    BY <1>1, <1>3, <1>5
  <2>2. \A sale \in EngineSale(p) : sale.fill = SellFill(bar.close)
    BY <1>2, <1>3, <1>5
  <2>3. Sale(Alone) = {} <=> reasons = {}
    BY <1>1, <1>5
  <2>4. EngineSale(p) = {} <=> reasons = {}
    BY <1>2, <1>5
  <2>5. ASSUME Sale(Alone) # {}
        PROVE  SaleFillOf(Sale(Alone)) = SaleFillOf(EngineSale(p))
    <3>1. (CHOOSE s \in Sale(Alone) : TRUE) \in Sale(Alone)
      BY <2>5
    <3>2. (CHOOSE s \in EngineSale(p) : TRUE) \in EngineSale(p)
      BY <2>3, <2>4, <2>5
    <3>. QED  BY <2>1, <2>2, <3>1, <3>2 DEF SaleFillOf
  <2>. QED  BY <2>3, <2>4, <2>5
<1>. QED  BY <1>4, <1>5

\* What the exits of a day earn when at most one symbol is held.
LEMMA OneEarning ==
    ASSUME PortfolioInv, DOMAIN open \subseteq {Alone}
    PROVE  /\ Sold = {} => MapThenSumSet(Earned, Sold) = 0
           /\ Sold # {} => /\ Sold = {Alone}
                           /\ MapThenSumSet(Earned, Sold) = Earned(Alone)
<1>. DEFINE F == [s \in Sold |-> Earned(s)]
<1>1. PICK g : PartialSums(F, Sold, g) /\ MapThenSumSet(Earned, Sold) = g[Sold]
  BY SoldPositions, EarnedSum
<1>2. \A s \in SUBSET Sold : g[s] = IF s = {} THEN 0 ELSE F[Pick(s)] + g[s \ {Pick(s)}]
  BY <1>1 DEF PartialSums
<1>3. g[{}] = 0
  BY <1>2
<1>4. Sold \subseteq {Alone}
  BY DEF Sold
<1>5. ASSUME Sold # {} PROVE Sold = {Alone} /\ g[Sold] = Earned(Alone)
  <2>1. Sold = {Alone} /\ Pick(Sold) = Alone
    BY <1>4, <1>5, Picked
  <2>2. g[Sold] = F[Alone] + g[{}]
    BY <1>2, <1>5, <2>1
  <2>3. F[Alone] = Earned(Alone) /\ Earned(Alone) \in Int
    BY <2>1, SoldPositions, EarnedIsInt
  <2>. QED  BY <1>3, <2>1, <2>2, <2>3
<1>. QED  BY <1>1, <1>3, <1>5

\* Both begin with the same closes and the same money.
LEMMA AloneAtStart == LimitsLeaveRoom /\ ParityInit => ParityInv
<1>. SUFFICES ASSUME LimitsLeaveRoom, ParityInit PROVE ParityInv
  OBVIOUS
<1>1. PortfolioInit /\ PortfolioInv
  BY PortfolioStart DEF ParityInit
<1>2. order \in Seq(DOMAIN Seeds)
  BY <1>1, ListedOrder
<1>3. ASSUME Comparable PROVE Together
  <2>1. Symbols = {Alone}
    BY <1>2, <1>3, OneSymbol DEF Comparable
  <2>2. /\ phase = "closed" /\ day = 0 /\ open = <<>> /\ equity = StartEquity
        /\ closes[Alone] = Seeds[Alone] /\ lastExit[Alone] = 0
    BY <1>1, <2>1 DEF PortfolioInit
  <2>3. /\ setup = PlainSetup /\ history = Seeds[Alone] /\ today = 1
        /\ position = {} /\ balance = StartEquity /\ soldOn = 0
    BY DEF ParityInit, StartEngine, Alone, LimitsLeaveRoom
  <2>4. DOMAIN open = {} /\ Holdings = {}
    BY <2>2 DEF Holdings
  <2>. QED  BY <2>2, <2>3, <2>4 DEF Together, SameAtNight
<1>. QED  BY <1>1, <1>2, <1>3 DEF ParityInv

\* The morning: both see the same bar behind the same closes.
LEMMA MorningTogether ==
    ASSUME ParityInv, Comparable, OpenDay, UNCHANGED engineVars
    PROVE  Together'
<1>1. /\ Symbols = {Alone} /\ PortfolioInv /\ day \in Nat /\ Together
  BY OneSymbol DEF ParityInv, Comparable, PortfolioInv
<1>2. /\ phase = "closed" /\ day < Days /\ phase' = "exits" /\ day' = day + 1
      /\ realized' = 0 /\ entries' = 0
      /\ closes' = [s \in Symbols |-> IF s \in DOMAIN rows'
                                      THEN Extend(closes[s], rows'[s].close) ELSE closes[s]]
      /\ UNCHANGED <<plan, order, equity, open, lastExit, at>>
  BY DEF OpenDay
<1>3. PICK traded \in (SUBSET Symbols) \ {{}} : rows' \in [traded -> Rows]
  BY DEF OpenDay
<1>4. Alone \in DOMAIN rows'
  <2>1. traded # {} /\ traded \subseteq Symbols
    BY <1>3
  <2>2. DOMAIN rows' = traded
    BY <1>3
  <2>. QED  BY <1>1, <2>1, <2>2
<1>5. UNCHANGED <<setup, history, today, position, balance, soldOn>>
  BY DEF engineVars
<1>6. Alone' = Alone /\ Holdings' = Holdings
  BY <1>2 DEF Alone, Holdings
<1>7. /\ today = day + 1 /\ soldOn \in Nat /\ soldOn <= day
      /\ lastExit[Alone] \in Nat /\ lastExit[Alone] <= day
      /\ balance = equity /\ history = closes[Alone] /\ position = Holdings
      /\ setup = PlainSetup /\ DOMAIN open \subseteq {Alone}
  BY <1>1, <1>2 DEF Together, SameAtNight
<1>8. closes'[Alone] = Remember(history, rows'[Alone].close)
  <2>1. plan.minHistory = MAWindow
    BY DEF Comparable
  <2>. QED  BY <1>1, <1>2, <1>4, <1>7, <2>1, SameHistory
<1>9. Remember(history, rows'[Alone].close) = Remember(history', rows'[Alone].close)
  BY <1>5
<1>10. SameBeforeExits'
  BY <1>1, <1>2, <1>4, <1>5, <1>6, <1>7, <1>8, <1>9 DEF SameBeforeExits, SameBar, Remember
<1>. QED  BY <1>2, <1>5, <1>6, <1>7, <1>10 DEF Together, PlainSetup

\* The portfolio sells first; what it earns is what the engine will earn.
LEMMA ExitsTogether ==
    ASSUME ParityInv, Comparable, CloseOut, UNCHANGED engineVars
    PROVE  Together'
<1>1. /\ Symbols = {Alone} /\ PortfolioInv /\ day \in Nat /\ equity \in Int
      /\ realized \in Int /\ Together
  BY OneSymbol DEF ParityInv, Comparable, PortfolioInv
<1>. DEFINE earned == MapThenSumSet(Earned, Sold)
<1>2. /\ phase = "exits" /\ phase' = "entries" /\ at' = 1
      /\ equity' = equity + earned /\ realized' = realized + earned
      /\ open' = [s \in DOMAIN open \ Sold |->
                     IF s \in DOMAIN rows
                     THEN [open[s] EXCEPT !.highest = Highest(s)] ELSE open[s]]
      /\ lastExit' = [s \in Symbols |-> IF s \in Sold THEN day ELSE lastExit[s]]
      /\ UNCHANGED <<plan, order, day, rows, closes, dayStart, entries>>
  BY DEF CloseOut
<1>3. UNCHANGED <<setup, history, today, position, balance, soldOn>>
  BY DEF engineVars
<1>4. /\ SameBar /\ soldOn \in Nat /\ lastExit[Alone] \in Nat /\ lastExit[Alone] < day
      /\ balance = equity /\ realized = 0 /\ entries = 0 /\ position = Holdings
      /\ setup = PlainSetup /\ DOMAIN open \subseteq {Alone} /\ Alone \in DOMAIN rows
  BY <1>1, <1>2 DEF Together, SameBeforeExits, SameBar
<1>5. SameBar'
  BY <1>2, <1>3, <1>4 DEF SameBar, Alone, Remember
<1>6. /\ Sold = {} => earned = 0
      /\ Sold # {} => Sold = {Alone} /\ earned = Earned(Alone)
  BY <1>1, <1>4, OneEarning
<1>. HIDE DEF earned
<1>7. Alone' = Alone /\ DOMAIN open' = DOMAIN open \ Sold
  BY <1>2 DEF Alone
<1>8. /\ lastExit'[Alone] \in Nat /\ lastExit'[Alone] <= day
      /\ NothingHeld' \/ StillHeld' \/ JustSold'
  <2>1. CASE DOMAIN open = {}
    <3>1. Sold = {} /\ position = {} /\ DOMAIN open' = {}
      BY <1>4, <1>7, <2>1 DEF Sold, Holdings
    <3>2. equity' = equity /\ realized' = 0 /\ lastExit'[Alone] = lastExit[Alone]
      BY <1>1, <1>2, <1>4, <1>6, <3>1
    <3>3. NothingHeld'
      BY <1>2, <1>3, <1>4, <1>7, <3>1, <3>2 DEF NothingHeld
    <3>. QED  BY <1>1, <1>4, <3>2, <3>3
  <2>2. CASE DOMAIN open # {}
    <3>. DEFINE p == open[Alone]
    <3>1. DOMAIN open = {Alone} /\ Holdings = {p} /\ position = {p}
      BY <1>4, <2>2 DEF Holdings
    <3>2. Sold = {s \in {Alone} : Sale(s) # {}}
      BY <1>4, <3>1 DEF Sold
    <3>3. /\ Sale(Alone) = {} <=> EngineSale(p) = {}
          /\ Sale(Alone) # {} =>
                 SaleFillOf(Sale(Alone)) = SaleFillOf(EngineSale(p))
      BY <1>4, <3>1, SameSale
    <3>4. EngineSale(p)' = EngineExit(p', BarAt(rows[Alone]), LastDay, FALSE)
      BY <1>2, <1>7 DEF EngineSale, LastDay
    <3>5. CASE Sale(Alone) = {}
      <4>1. Sold = {} /\ DOMAIN open' = {Alone}
        BY <1>7, <3>1, <3>2, <3>5
      <4>2. open'[Alone] = [p EXCEPT !.highest = Max({@, BarAt(rows[Alone]).high})]
        BY <1>2, <1>4, <4>1 DEF Highest
      <4>3. equity' = equity /\ lastExit'[Alone] = lastExit[Alone]
        BY <1>1, <1>2, <1>6, <4>1
      <4>4. PICK q : q = p
        OBVIOUS
      <4>5. /\ Holdings' = {[q EXCEPT !.highest = Max({@, BarAt(rows[Alone]).high})]}
            /\ position' = {q} /\ EngineSale(q) = {}
        <5>1. Holdings' = {open'[Alone]}
          BY <4>1 DEF Holdings
        <5>. QED  BY <1>3, <3>1, <3>3, <3>5, <4>2, <4>4, <5>1
      <4>6. EngineSale(q)' = EngineSale(q) /\ rows'[Alone'] = rows[Alone]
        BY <1>2, <1>7 DEF EngineSale, LastDay
      <4>7. \E r : /\ position' = {r} /\ EngineSale(r)' = {}
                   /\ Holdings' = {[r EXCEPT !.highest =
                                        Max({@, BarAt(rows'[Alone']).high})]}
        BY <4>5, <4>6
      <4>8. StillHeld'
        BY <1>3, <1>4, <4>3, <4>7 DEF StillHeld
      <4>. QED  BY <1>1, <1>4, <4>3, <4>8
    <3>6. CASE Sale(Alone) # {}
      <4>1. Sold = {Alone} /\ DOMAIN open' = {} /\ Holdings' = {}
        BY <1>7, <3>1, <3>2, <3>6 DEF Holdings
      <4>2. lastExit'[Alone] = day /\ day' = day
        BY <1>1, <1>2, <4>1
      <4>3. PICK q : q = p
        OBVIOUS
      <4>4. equity' = balance + Pnl(q, SaleFillOf(EngineSale(q)))
        <5>1. Earned(Alone) = Pnl(q, SaleFillOf(Sale(Alone)))
          BY <4>3 DEF Earned, SaleFillOf
        <5>. QED  BY <1>2, <1>4, <1>6, <3>3, <3>6, <4>1, <4>3, <5>1
      <4>5. EngineSale(q)' = EngineSale(q) /\ EngineSale(q) # {}
        BY <1>2, <1>7, <3>3, <3>6, <4>3 DEF EngineSale, LastDay
      <4>6. \E r : /\ position' = {r} /\ EngineSale(r)' # {}
                   /\ equity' = balance' + Pnl(r, SaleFillOf(EngineSale(r)'))
        BY <1>3, <3>1, <4>3, <4>4, <4>5
      <4>7. JustSold'
        BY <1>7, <4>1, <4>2, <4>6 DEF JustSold
      <4>. QED  BY <1>1, <4>2, <4>7
    <3>. QED  BY <3>5, <3>6
  <2>. QED  BY <2>1, <2>2
<1>9. SameAfterExits'
  BY <1>2, <1>5, <1>7, <1>8 DEF SameAfterExits
<1>. QED  BY <1>2, <1>3, <1>4, <1>7, <1>8, <1>9 DEF Together, PlainSetup

\* An entry of the portfolio is the entry of the engine: nothing is deployed,
\* and no limit cuts the size.
LEMMA SameEntry ==
    ASSUME ParityInv, Comparable, SizesUncut, phase = "entries", Together,
           NothingHeld, at = 1
    PROVE  /\ Wanted(Alone) <=> MayEnter(closes[Alone], rows[Alone].market, FALSE)
           /\ LET fill == BuyFill(rows[Alone].close)
              IN  /\ Quantity(Alone) > 0 <=> PositionSize(balance, fill) > 0
                  /\ Quantity(Alone) > 0 => Quantity(Alone) = PositionSize(balance, fill)
<1>. DEFINE fill == BuyFill(rows[Alone].close)
            size == PositionSize(equity, fill)
<1>1. /\ SameBar /\ setup = PlainSetup /\ lastExit[Alone] < day /\ balance = equity
      /\ DOMAIN open = {} /\ lastExit[Alone] \in Nat /\ soldOn \in Nat
      /\ PortfolioInv /\ day \in Nat /\ equity \in Int
  BY DEF ParityInv, PortfolioInv, Together, SameAfterExits, NothingHeld
<1>2. /\ Alone \in DOMAIN rows /\ soldOn # today /\ lastExit[Alone] # day
  BY <1>1 DEF SameBar
<1>3. Wanted(Alone) <=> MayEnter(closes[Alone], rows[Alone].market, FALSE)
  <2>1. Wanted(Alone) <=> /\ Len(closes[Alone]) >= MAWindow
                          /\ ShouldBuy(closes[Alone], rows[Alone].market, NoFilter)
    BY <1>1, <1>2 DEF Wanted, SoldToday, Comparable
  <2>2. MayEnter(closes[Alone], rows[Alone].market, FALSE)
            <=> /\ Len(closes[Alone]) >= MAWindow
                /\ ShouldBuy(closes[Alone], rows[Alone].market, setup.filter)
    BY <1>2 DEF MayEnter, EntryBar
  <2>3. setup.filter = NoFilter
    BY <1>1 DEF PlainSetup
  <2>. QED  BY <2>1, <2>2, <2>3
<1>4. fill \in Nat \ {0}
  <2>1. IsRow(rows[Alone])
    BY <1>1, <1>2, PortfolioAssumption DEF PortfolioInv, PortfolioAssumption
  <2>. QED  BY <2>1, BuyFillAbove DEF IsRow
<1>5. Deployed = 0
  <2>1. PICK g : PartialSums(Costs(open), DOMAIN open, g) /\ CostOf(open) = g[DOMAIN open]
    BY <1>1, SoldPositions, CostSum
  <2>2. g[{}] = 0
    BY <2>1 DEF PartialSums
  <2>. QED  BY <1>1, <2>1, <2>2, DeployedIsCost
<1>6. Quantity(Alone) = Min({Clamped(size, fill), equity \div fill})
  BY <1>1, <1>5 DEF Quantity
<1>7. size \in Nat /\ Clamped(size, fill) \in Int /\ (size = 0 => Clamped(size, fill) <= 0)
  <2>1. plan \in Plans
    BY <1>1 DEF PortfolioInv
  <2>. HIDE DEF fill
  <2>. QED  BY <1>1, <1>4, <2>1, SizeIsNat, SizeOfNothing
<1>8. size > 0 => Clamped(size, fill) = size /\ size * fill <= equity
  BY <1>2 DEF SizesUncut
<1>. HIDE DEF fill, size
<1>9. equity \div fill \in Int /\ \A n \in Nat : n * fill <= equity => n <= equity \div fill
  BY <1>1, <1>4, WholeTimes
<1>10. /\ Min({Clamped(size, fill), equity \div fill})
              \in {Clamped(size, fill), equity \div fill}
       /\ Min({Clamped(size, fill), equity \div fill}) <= Clamped(size, fill)
       /\ Min({Clamped(size, fill), equity \div fill}) <= equity \div fill
  BY <1>7, <1>9, MinOfTwo
<1>11. /\ Quantity(Alone) > 0 <=> size > 0
       /\ Quantity(Alone) > 0 => Quantity(Alone) = size
  BY <1>6, <1>7, <1>8, <1>9, <1>10
<1>12. PositionSize(balance, fill) = size
  BY <1>1 DEF size
<1>. QED  BY <1>3, <1>11, <1>12 DEF fill

\* The portfolio asks its one symbol once a day.
LEMMA EntriesTogether ==
    ASSUME ParityInv, Comparable, SizesUncut, Consider, UNCHANGED engineVars
    PROVE  Together'
<1>. DEFINE fill == BuyFill(rows[Alone].close)
            bought == Wanted(Alone) /\ Quantity(Alone) > 0
<1>1. /\ PortfolioInv /\ day \in Nat /\ Together /\ phase = "entries"
      /\ EntriesGoOn /\ ~LastDay /\ at <= Len(order) /\ Len(order) = 1
  BY DEF ParityInv, Comparable, PortfolioInv, Consider, EntriesGoOn
<1>2. /\ SameAfterExits /\ SameBar /\ at \in {1, 2} /\ setup = PlainSetup
      /\ DOMAIN open \subseteq {Alone} /\ soldOn \in Nat
      /\ lastExit[Alone] \in Nat /\ lastExit[Alone] <= day
  BY <1>1 DEF Together, SameAfterExits
<1>3. at = 1 /\ order[at] = Alone
  BY <1>1, <1>2 DEF Alone
<1>4. /\ at' = 2
      /\ open' = IF bought
                 THEN [t \in DOMAIN open \cup {Alone} |->
                          IF t = Alone THEN NewPosition(Quantity(Alone), fill, day)
                          ELSE open[t]]
                 ELSE open
      /\ UNCHANGED <<plan, order, phase, day, rows, closes, equity, dayStart,
                     realized, lastExit>>
  BY <1>3 DEF Consider
<1>5. UNCHANGED <<setup, history, today, position, balance, soldOn>>
  BY DEF engineVars
<1>6. SameBar' /\ Alone' = Alone
  BY <1>2, <1>4, <1>5 DEF SameBar, Alone, Remember
<1>7. LastDay' = LastDay /\ (\A p : EngineSale(p)' = EngineSale(p))
  BY <1>4, <1>6 DEF LastDay, EngineSale
<1>8. DOMAIN open' \subseteq {Alone} /\ (NothingHeld' \/ StillHeld' \/ JustSold')
  <2>1. CASE NothingHeld
    <3>1. DOMAIN open = {} /\ position = {} /\ lastExit[Alone] < day /\ balance = equity
      BY <1>3, <2>1 DEF NothingHeld
    <3>2. /\ Wanted(Alone) <=> MayEnter(closes[Alone], rows[Alone].market, FALSE)
          /\ Quantity(Alone) > 0 <=> PositionSize(balance, fill) > 0
          /\ Quantity(Alone) > 0 => Quantity(Alone) = PositionSize(balance, fill)
      BY <1>1, <1>3, <2>1, SameEntry
    <3>. HIDE DEF fill
    <3>3. Holdings' = IF bought THEN {NewPosition(Quantity(Alone), fill, day)} ELSE {}
      <4>1. CASE bought
        <5>1. DOMAIN open' = {Alone} /\ open'[Alone] = NewPosition(Quantity(Alone), fill, day)
          BY <1>4, <3>1, <4>1
        <5>. QED  BY <4>1, <5>1 DEF Holdings
      <4>2. CASE ~bought
        BY <1>4, <3>1, <4>2 DEF Holdings
      <4>. QED  BY <4>1, <4>2
    <3>4. EngineEntry(closes[Alone], rows[Alone], FALSE) =
              IF bought THEN {NewPosition(Quantity(Alone), fill, day)} ELSE {}
      <4>1. today = day
        BY <1>2 DEF SameBar
      <4>. QED  BY <3>2, <4>1 DEF EngineEntry, fill
    <3>5. EngineEntry(closes[Alone], rows[Alone], FALSE)'
              = EngineEntry(closes[Alone], rows[Alone], FALSE)
      BY <1>4, <1>5, <1>6 DEF EngineEntry, MayEnter, EntryBar
    <3>6. NothingHeld'
      <4>1. /\ position' = {} /\ lastExit'[Alone'] < day' /\ balance' = equity'
            /\ at' = 2 /\ ~LastDay'
        BY <1>1, <1>4, <1>5, <1>6, <1>7, <3>1
      <4>2. Holdings' = EngineEntry(closes[Alone], rows[Alone], FALSE)'
        BY <3>3, <3>4, <3>5
      <4>. QED  BY <4>1, <4>2 DEF NothingHeld
    <3>7. DOMAIN open' \subseteq {Alone}
      BY <1>4, <3>1
    <3>. QED  BY <3>6, <3>7
  <2>2. ASSUME StillHeld \/ JustSold PROVE open' = open
    <3>1. ASSUME StillHeld PROVE ~Wanted(Alone)
      <4>1. Holdings # {}
        BY <3>1 DEF StillHeld
      <4>2. Alone \in DOMAIN open
        BY <1>2, <4>1 DEF Holdings
      <4>. QED  BY <4>2 DEF Wanted
    <3>2. ASSUME JustSold PROVE ~Wanted(Alone)
      BY <3>2 DEF JustSold, Wanted, SoldToday, Comparable
    <3>. QED  BY <1>4, <2>2, <3>1, <3>2
  <2>3. ASSUME open' = open PROVE Holdings' = Holdings
    BY <2>3 DEF Holdings
  <2>4. CASE StillHeld
    <3>1. StillHeld'
      BY <1>4, <1>5, <1>6, <1>7, <2>2, <2>3, <2>4 DEF StillHeld
    <3>. QED  BY <1>2, <2>2, <2>4, <3>1
  <2>5. CASE JustSold
    <3>1. JustSold'
      BY <1>4, <1>5, <1>6, <1>7, <2>2, <2>3, <2>5 DEF JustSold
    <3>. QED  BY <1>2, <2>2, <2>5, <3>1
  <2>. QED  BY <1>2, <2>1, <2>4, <2>5 DEF SameAfterExits
<1>9. SameAfterExits'
  BY <1>2, <1>4, <1>6, <1>8 DEF SameAfterExits
<1>. QED  BY <1>1, <1>2, <1>4, <1>5, <1>6, <1>8, <1>9 DEF Together, PlainSetup

\* The engine catches up when the portfolio has finished the day.
LEMMA EveningTogether ==
    ASSUME LimitsLeaveRoom, ParityInv, Comparable, CloseDay, EngineFollows
    PROVE  Together'
<1>. DEFINE row == rows[Alone]
            bar == BarAt(row)
            sales == UNION {EngineExit(p, bar, LastDay, FALSE) : p \in position}
<1>1. /\ PortfolioInv /\ day \in Nat /\ Together /\ phase = "entries"
      /\ ~EntriesGoOn /\ Len(order) = 1
  BY DEF ParityInv, Comparable, PortfolioInv, CloseDay
<1>2. /\ SameAfterExits /\ SameBar /\ at \in {1, 2} /\ setup = PlainSetup
      /\ DOMAIN open \subseteq {Alone} /\ soldOn \in Nat /\ soldOn < day
      /\ lastExit[Alone] \in Nat /\ lastExit[Alone] <= day
      /\ Alone \in DOMAIN rows /\ today = day
      /\ closes[Alone] = Remember(history, row.close)
  BY <1>1 DEF Together, SameAfterExits, SameBar
<1>3. /\ phase' = "closed"
      /\ UNCHANGED <<plan, order, day, closes, equity, dayStart, realized, entries,
                     open, lastExit>>
  BY DEF CloseDay
<1>4. JudgeBar(row, TRUE, LastDay) /\ setup.flatten = FALSE
  BY <1>2 DEF EngineFollows, Alone, PlainSetup
<1>5. /\ history' = closes[Alone] /\ today' = day + 1 /\ setup' = setup
      /\ position' = CASE position = {} -> EngineEntry(closes[Alone], row, FALSE)
                       [] sales # {}    -> {}
                       [] OTHER -> {[p EXCEPT !.highest = Max({@, bar.high})] :
                                        p \in position}
      /\ balance' = IF sales = {} THEN balance
                    ELSE balance + Pnl(CHOOSE p \in position : TRUE, SaleFillOf(sales))
      /\ soldOn' = IF sales = {} THEN soldOn ELSE day
  <2>. DEFINE ends == setup.flatten /\ (LastDay \/ TRUE)
              sold == UNION {EngineExit(p, bar, LastDay, ends) : p \in position}
  <2>1. ends = FALSE
    BY <1>4
  <2>2. /\ history' = Remember(history, row.close) /\ today' = today + 1 /\ setup' = setup
        /\ position' = CASE position = {} ->
                              EngineEntry(Remember(history, row.close), row, ends)
                         [] sold # {}     -> {}
                         [] OTHER -> {[p EXCEPT !.highest = Max({@, bar.high})] :
                                          p \in position}
        /\ balance' = IF sold = {} THEN balance
                      ELSE balance + Pnl(CHOOSE p \in position : TRUE, SaleFillOf(sold))
        /\ soldOn' = IF sold = {} THEN soldOn ELSE today
    BY <1>4 DEF JudgeBar, SaleFillOf
  <2>3. sold = sales
    BY <2>1
  <2>. HIDE DEF ends, sold, sales, row, bar
  <2>4. EngineEntry(Remember(history, row.close), row, ends)
            = EngineEntry(closes[Alone], row, FALSE)
    BY <1>2, <2>1
  <2>5. history' = closes[Alone] /\ today' = day + 1 /\ setup' = setup
    BY <1>2, <2>2
  <2>6. position' = CASE position = {} -> EngineEntry(closes[Alone], row, FALSE)
                      [] sales # {}    -> {}
                      [] OTHER -> {[p EXCEPT !.highest = Max({@, bar.high})] :
                                       p \in position}
    BY <2>2, <2>3, <2>4
  <2>7. /\ balance' = IF sales = {} THEN balance
                      ELSE balance + Pnl(CHOOSE p \in position : TRUE, SaleFillOf(sales))
        /\ soldOn' = IF sales = {} THEN soldOn ELSE day
    BY <1>2, <2>2, <2>3
  <2>. QED  BY <2>5, <2>6, <2>7
<1>6. \A p : position = {p} => sales = EngineSale(p) /\ (CHOOSE q \in position : TRUE) = p
  BY DEF EngineSale
<1>. HIDE DEF sales
<1>7. soldOn' \in Nat /\ soldOn' <= day /\ today' = day + 1
  BY <1>1, <1>2, <1>5
<1>8. balance' = equity /\ (day < Days => position' = Holdings)
  <2>1. CASE NothingHeld
    <3>1. position = {} /\ balance = equity
      BY <2>1 DEF NothingHeld
    <3>2. sales = {}
      BY <3>1 DEF sales
    <3>3. position' = EngineEntry(closes[Alone], row, FALSE) /\ balance' = equity
      BY <1>5, <3>1, <3>2
    <3>4. ASSUME at = 1 PROVE LastDay
      <4>1. DOMAIN open = {} /\ entries = 0 /\ realized = 0
        BY <2>1, <3>4 DEF NothingHeld
      <4>2. ~BreakerTripped
        <5>1. dayStart \in Int /\ DailyLossPct \in Int /\ DailyLossPct > 0
          BY <1>1, PortfolioAssumption DEF PortfolioInv, PortfolioAssumption, LimitsLeaveRoom
        <5>2. ASSUME dayStart > 0 PROVE -dayStart * DailyLossPct < 0
          <6>1. \A n, m \in Int : n > 0 /\ m > 0 => -n * m < 0
            OBVIOUS
          <6>. QED  BY <5>1, <5>2, <6>1
        <5>3. -dayStart * DailyLossPct \in Int
          BY <5>1
        <5>. QED  BY <4>1, <5>2, <5>3 DEF BreakerTripped
      <4>3. Cardinality(DOMAIN open) < plan.slots /\ entries < plan.dailyEntries
        <5>1. plan \in Plans
          BY <1>1 DEF PortfolioInv
        <5>2. plan.slots > 0 /\ plan.dailyEntries > 0
          BY <5>1 DEF LimitsLeaveRoom
        <5>. QED  BY <4>1, <5>2, FS_EmptySet
      <4>. QED  BY <1>1, <3>4, <4>2, <4>3 DEF EntriesGoOn
    <3>5. ASSUME at = 2 PROVE Holdings = EngineEntry(closes[Alone], row, FALSE)
      BY <2>1, <3>5 DEF NothingHeld
    <3>6. ASSUME LastDay PROVE ~(day < Days)
      BY <1>1, <3>6 DEF LastDay
    <3>. QED  BY <1>2, <3>3, <3>4, <3>5, <3>6
  <2>2. CASE StillHeld
    <3>1. PICK p : /\ position = {p} /\ EngineSale(p) = {}
                   /\ Holdings = {[p EXCEPT !.highest = Max({@, bar.high})]}
      BY <2>2 DEF StillHeld
    <3>2. sales = {} /\ balance = equity
      BY <1>6, <2>2, <3>1 DEF StillHeld
    <3>. QED  BY <1>5, <3>1, <3>2
  <2>3. CASE JustSold
    <3>1. PICK p : /\ position = {p} /\ EngineSale(p) # {}
                   /\ equity = balance + Pnl(p, SaleFillOf(EngineSale(p)))
      BY <2>3 DEF JustSold
    <3>2. sales = EngineSale(p) /\ (CHOOSE q \in position : TRUE) = p
      BY <1>6, <3>1
    <3>3. position' = {} /\ Holdings = {}
      BY <1>5, <2>3, <3>1, <3>2 DEF JustSold
    <3>. QED  BY <1>5, <3>1, <3>2, <3>3
  <2>. QED  BY <1>2, <2>1, <2>2, <2>3 DEF SameAfterExits
<1>9. Alone' = Alone /\ Holdings' = Holdings
  BY <1>3 DEF Alone, Holdings
<1>10. SameAtNight'
  BY <1>1, <1>2, <1>3, <1>5, <1>7, <1>8, <1>9 DEF SameAtNight
<1>. QED  BY <1>2, <1>3, <1>5, <1>7, <1>9, <1>10 DEF Together, PlainSetup

\* Every step keeps the two together, as long as no size is cut.
LEMMA ParityStep ==
    LimitsLeaveRoom /\ ParityInv /\ SizesUncut /\ [ParityNext]_parityVars => ParityInv'
<1>. SUFFICES ASSUME LimitsLeaveRoom, ParityInv, SizesUncut, [ParityNext]_parityVars
              PROVE  ParityInv'
  OBVIOUS
<1>1. /\ [PortfolioNext]_portfolioVars /\ plan' = plan /\ order' = order
  BY DEF ParityNext, parityVars, PortfolioNext, portfolioVars, OpenDay, CloseOut,
         Consider, CloseDay
<1>2. PortfolioInv' /\ order' \in Seq(DOMAIN Seeds) /\ (Comparable' => Comparable)
  BY <1>1, PortfolioStep DEF ParityInv, Comparable
<1>3. ASSUME Comparable PROVE Together'
  <2>1. ASSUME UNCHANGED parityVars PROVE Together'
    <3>1. UNCHANGED <<portfolioVars, engineVars>>
      BY <2>1 DEF parityVars
    <3>2. Together
      BY <1>3 DEF ParityInv
    <3>3. UNCHANGED <<phase, day, rows, closes, equity, realized, entries, open, lastExit, at>>
          /\ UNCHANGED <<order, setup, history, today, position, balance, soldOn>>
      BY <3>1 DEF portfolioVars, engineVars
    <3>4. /\ Alone' = Alone /\ Holdings' = Holdings /\ LastDay' = LastDay
          /\ rows'[Alone'] = rows[Alone] /\ closes'[Alone'] = closes[Alone]
      BY <3>3 DEF Alone, Holdings, LastDay
    <3>5. \A p : EngineSale(p)' = EngineSale(p)
      BY <3>4 DEF EngineSale
    <3>6. EngineEntry(closes[Alone], rows[Alone], FALSE)'
              = EngineEntry(closes[Alone], rows[Alone], FALSE)
      BY <3>3, <3>4 DEF EngineEntry, MayEnter, EntryBar
    <3>7. NothingHeld' = NothingHeld
      BY <3>3, <3>4, <3>6 DEF NothingHeld
    <3>8. StillHeld' = StillHeld
      BY <3>3, <3>4, <3>5 DEF StillHeld
    <3>9. JustSold' = JustSold
      BY <3>3, <3>4, <3>5 DEF JustSold
    <3>10. SameBar' = SameBar
      BY <3>3, <3>4 DEF SameBar, Remember
    <3>11. SameAtNight' = SameAtNight /\ SameBeforeExits' = SameBeforeExits
           /\ SameAfterExits' = SameAfterExits
      BY <3>3, <3>4, <3>7, <3>8, <3>9, <3>10 DEF SameAtNight, SameBeforeExits, SameAfterExits
    <3>. QED  BY <3>2, <3>3, <3>4, <3>11 DEF Together, PlainSetup
  <2>. QED  BY <1>3, <2>1, MorningTogether, ExitsTogether, EntriesTogether,
               EveningTogether DEF ParityNext
<1>. QED  BY <1>2, <1>3 DEF ParityInv

\* With one symbol and none of its own limits in the way, the portfolio ends
\* every day with the engine's money, position and highest price
\* (run_backtest and run_portfolio_backtest).
THEOREM EngineAndPortfolioAgree ==
    LimitsLeaveRoom => (ParitySpec /\ []SizesUncut => []EngineAgrees)
<1>. SUFFICES ASSUME LimitsLeaveRoom PROVE ParitySpec /\ []SizesUncut => []EngineAgrees
  OBVIOUS
<1>1. ParityInit => ParityInv
  BY AloneAtStart
<1>2. ParityInv /\ SizesUncut /\ [ParityNext]_parityVars => ParityInv'
  BY ParityStep
<1>3. ParityInv => EngineAgrees
  BY DEF ParityInv, Together, SameAtNight, EngineAgrees, Holdings
<1>. QED  BY <1>1, <1>2, <1>3, PTL DEF ParitySpec
=============================================================================
