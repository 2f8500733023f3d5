--------------------------- MODULE MarketData_proofs ---------------------------
(***************************************************************************)
(* Theorems about the market data of a symbol's turn and about the pacer   *)
(* its requests pass, for every limit, window and timer, every number of   *)
(* polls and of trading days.                                              *)
(***************************************************************************)
EXTENDS MarketData, SequenceTheorems, TLAPS

-----------------------------------------------------------------------------
(***************************************************************************)
(* The pacer.  The deque is only looked at when somebody acquires, so it   *)
(* may hold old timestamps; the requests of the last window are always its *)
(* newest ones.  Because the deque never grows past the limit, they do not *)
(* either.                                                                 *)
(***************************************************************************)

\* recent is the newest part of all, and its oldest age is inside the window.
NewestOf(recent, all) ==
    /\ Len(recent) <= Len(all)
    /\ \A i \in 1..Len(recent) : recent[i] = all[Len(all) - Len(recent) + i]
    /\ Len(recent) > 0 => recent[1] < Window

PacerInv ==
    /\ PacerTypeOK
    /\ Len(timestamps) <= MaxRequests
    /\ NewestOf(issued, timestamps)
    /\ asleep = FALSE => remaining = 0

-----------------------------------------------------------------------------

\* The limit and the window are positive numbers.
LEMMA PacerConstants ==
    MaxRequests \in Nat /\ MaxRequests > 0 /\ Window \in Nat /\ Window > 0 /\ Early \in Nat
BY PacerAssumption DEF PacerAssumption

\* Time makes every entry of the deque older.
LEMMA OlderAges ==
    ASSUME NEW ages \in Seq(Ages)
    PROVE  /\ Older(ages) \in Seq(Ages) /\ Len(Older(ages)) = Len(ages)
           /\ \A i \in 1..Len(ages) :
                Older(ages)[i] = IF ages[i] < Window THEN ages[i] + 1 ELSE Window
<1>1. Len(ages) \in Nat /\ \A i \in 1..Len(ages) : ages[i] \in Ages
  OBVIOUS
<1>2. \A i \in 1..Len(ages) :
          (IF ages[i] < Window THEN ages[i] + 1 ELSE Window) \in Ages
  BY <1>1, PacerConstants DEF Ages
<1>. QED  BY <1>1, <1>2 DEF Older

\* Entries leave the deque at its old end.
LEMMA WithoutAges ==
    ASSUME NEW ages \in Seq(Ages), NEW n \in 0..Len(ages)
    PROVE  /\ Without(n, ages) \in Seq(Ages)
           /\ Len(Without(n, ages)) = Len(ages) - n
           /\ \A i \in 1..(Len(ages) - n) : Without(n, ages)[i] = ages[n + i]
<1>1. Len(ages) \in Nat /\ \A i \in 1..Len(ages) : ages[i] \in Ages
  OBVIOUS
<1>2. \A i \in (n + 1)..Len(ages) : ages[i] \in Ages
  BY <1>1
<1>. QED  BY <1>1, <1>2, SubSeqProperties DEF Without

\* A request enters the deque at its new end.
LEMMA AppendAge ==
    ASSUME NEW ages \in Seq(Ages)
    PROVE  /\ Append(ages, 0) \in Seq(Ages) /\ Len(Append(ages, 0)) = Len(ages) + 1
           /\ \A i \in 1..Len(ages) : Append(ages, 0)[i] = ages[i]
           /\ Append(ages, 0)[Len(ages) + 1] = 0
BY PacerConstants DEF Ages

\* A request is the newest of all and of the last window.
LEMMA RequestIsNewest ==
    ASSUME NEW recent \in Seq(Ages), NEW all \in Seq(Ages), NewestOf(recent, all)
    PROVE  NewestOf(Append(recent, 0), Append(all, 0))
<1>1. Len(recent) \in Nat /\ Len(all) \in Nat
  OBVIOUS
<1>. DEFINE r == Append(recent, 0)
            a == Append(all, 0)
<1>2. ASSUME NEW i \in 1..Len(r)
      PROVE  r[i] = a[Len(a) - Len(r) + i]
  <2>1. CASE i = Len(recent) + 1
    BY <1>1, <2>1, AppendAge
  <2>2. CASE i # Len(recent) + 1
    <3>1. i \in 1..Len(recent) /\ Len(a) - Len(r) + i = Len(all) - Len(recent) + i
      BY <1>1, <2>2, AppendAge
    <3>2. Len(all) - Len(recent) + i \in 1..Len(all)
      BY <1>1, <3>1 DEF NewestOf
    <3>3. recent[i] = all[Len(all) - Len(recent) + i]
      BY <3>1 DEF NewestOf
    <3>. QED  BY <3>1, <3>2, <3>3, AppendAge
  <2>. QED  BY <2>1, <2>2
<1>3. Len(r) <= Len(a)
  BY <1>1, AppendAge DEF NewestOf
<1>4. r[1] < Window
  <2>1. CASE Len(recent) = 0
    BY <1>1, <2>1, AppendAge, PacerConstants
  <2>2. CASE Len(recent) > 0
    BY <1>1, <2>2, AppendAge DEF NewestOf
  <2>. QED  BY <1>1, <2>1, <2>2
<1>. QED  BY <1>2, <1>3, <1>4 DEF NewestOf

\* _prune takes nothing away that is still inside the window.
LEMMA PruneKeepsNewest ==
    ASSUME NEW recent \in Seq(Ages), NEW all \in Seq(Ages), NewestOf(recent, all),
           NEW n \in 0..Len(all), Expired(n, all)
    PROVE  NewestOf(recent, Without(n, all))
<1>1. Len(recent) \in Nat /\ Len(all) \in Nat
  OBVIOUS
<1>2. Len(recent) <= Len(all) - n
  <2>1. CASE Len(recent) = 0
    BY <1>1, <2>1
  <2>2. CASE Len(recent) > 0
    <3>. DEFINE first == Len(all) - Len(recent) + 1
    <3>1. first \in 1..Len(all) /\ all[first] = recent[1] /\ recent[1] < Window
      BY <1>1, <2>2 DEF NewestOf
    <3>2. all[first] \in Int /\ Window \in Int
      BY <3>1, PacerConstants DEF Ages
    <3>3. ~(first \in 1..n)
      BY <3>1, <3>2 DEF Expired
    <3>. QED  BY <1>1, <3>1, <3>3
  <2>. QED  BY <1>1, <2>1, <2>2
<1>3. ASSUME NEW i \in 1..Len(recent)
      PROVE  recent[i] = Without(n, all)[Len(Without(n, all)) - Len(recent) + i]
  <2>. DEFINE short == Len(Without(n, all))
  <2>0. short = Len(all) - n
    BY WithoutAges
  <2>. HIDE DEF short
  <2>1. short - Len(recent) + i \in 1..(Len(all) - n)
    BY <1>1, <1>2, <2>0
  <2>2. n + (short - Len(recent) + i) = Len(all) - Len(recent) + i
    BY <1>1, <2>0
  <2>. QED  BY <2>1, <2>2, WithoutAges DEF NewestOf, short
<1>. QED  BY <1>1, <1>2, <1>3, WithoutAges DEF NewestOf

\* Time moves both alike, and what leaves the window leaves the newest part.
LEMMA TimeKeepsNewest ==
    ASSUME NEW recent \in Seq(Ages), NEW all \in Seq(Ages), NewestOf(recent, all),
           NEW n \in 0..Len(Older(recent)), Expired(n, Older(recent))
    PROVE  NewestOf(Without(n, Older(recent)), Older(all))
<1>. DEFINE old == Older(recent)
            new == Without(n, old)
<1>1. Len(recent) \in Nat /\ Len(all) \in Nat /\ old \in Seq(Ages)
      /\ Len(old) = Len(recent) /\ Len(Older(all)) = Len(all)
  BY OlderAges
<1>2. /\ n \in 0..Len(old)
      /\ Len(new) = Len(recent) - n
      /\ \A i \in 1..(Len(recent) - n) : new[i] = old[n + i]
  BY <1>1, WithoutAges
<1>3. Len(recent) <= Len(all)
  BY DEF NewestOf
<1>4. ASSUME NEW i \in 1..Len(new)
      PROVE  new[i] = Older(all)[Len(Older(all)) - Len(new) + i]
  <2>. DEFINE j == n + i
              k == Len(all) - Len(recent) + j
  <2>1. j \in 1..Len(recent) /\ k \in 1..Len(all) /\ k = Len(Older(all)) - Len(new) + i
    BY <1>1, <1>2, <1>3
  <2>2. recent[j] = all[k]
    BY <2>1 DEF NewestOf
  <2>3. old[j] = Older(all)[k]
    BY <2>1, <2>2, OlderAges
  <2>. QED  BY <1>1, <1>2, <2>1, <2>3
<1>5. Len(new) > 0 => new[1] < Window
  <2>1. SUFFICES ASSUME Len(new) > 0 PROVE new[1] < Window
    OBVIOUS
  <2>2. n < Len(old) /\ new[1] = old[n + 1]
    BY <1>1, <1>2, <2>1
  <2>. QED  BY <2>2 DEF Expired
<1>. QED  BY <1>1, <1>2, <1>3, <1>4, <1>5 DEF NewestOf

-----------------------------------------------------------------------------

\* The limit and the shape of the deque are kept by every round of acquire.
LEMMA AcquireKeepsInv ==
    ASSUME PacerInv, Acquire
    PROVE  PacerInv'
<1>1. PICK n \in 0..Len(timestamps) :
          /\ Expired(n, timestamps)
          /\ \/ Len(Without(n, timestamps)) < MaxRequests /\ TakeSlot(Without(n, timestamps))
             \/ Len(Without(n, timestamps)) >= MaxRequests /\ WaitForSlot(Without(n, timestamps))
  BY DEF Acquire
<1>. DEFINE kept == Without(n, timestamps)
<1>2. /\ timestamps \in Seq(Ages) /\ issued \in Seq(Ages) /\ Len(timestamps) <= MaxRequests
      /\ NewestOf(issued, timestamps)
  BY DEF PacerInv, PacerTypeOK
<1>3. kept \in Seq(Ages) /\ Len(kept) = Len(timestamps) - n
  BY <1>2, WithoutAges
<1>4. NewestOf(issued, kept)
  BY <1>1, <1>2, PruneKeepsNewest
<1>5. Len(kept) \in Nat /\ Len(kept) <= MaxRequests
  BY <1>2, <1>3, PacerConstants
<1>. HIDE DEF kept
<1>6. CASE Len(kept) < MaxRequests /\ TakeSlot(kept)
  <2>1. timestamps' = Append(kept, 0) /\ issued' = Append(issued, 0)
        /\ asleep' = FALSE /\ remaining' = 0
    BY <1>6 DEF TakeSlot
  <2>2. /\ Append(kept, 0) \in Seq(Ages) /\ Append(issued, 0) \in Seq(Ages)
        /\ Len(Append(kept, 0)) <= MaxRequests
    BY <1>2, <1>3, <1>5, <1>6, AppendAge, PacerConstants
  <2>3. NewestOf(Append(issued, 0), Append(kept, 0))
    BY <1>2, <1>3, <1>4, RequestIsNewest
  <2>4. 0 \in Ages
    BY PacerConstants DEF Ages
  <2>. QED  BY <2>1, <2>2, <2>3, <2>4 DEF PacerInv, PacerTypeOK, NewestOf
<1>7. CASE Len(kept) >= MaxRequests /\ WaitForSlot(kept)
  <2>1. timestamps' = kept /\ asleep' = TRUE /\ remaining' = Window - Head(kept)
        /\ issued' = issued
    BY <1>7 DEF WaitForSlot
  <2>2. Head(kept) \in Ages
    BY <1>3, <1>7, PacerConstants
  <2>3. Window - Head(kept) \in Ages
    BY <2>2, PacerConstants DEF Ages
  <2>. QED  BY <1>2, <1>3, <1>4, <1>5, <2>1, <2>3 DEF PacerInv, PacerTypeOK, NewestOf
<1>. QED  BY <1>1, <1>6, <1>7 DEF kept

\* ... and by the passing of time.
LEMMA TickKeepsInv ==
    ASSUME PacerInv, Tick
    PROVE  PacerInv'
<1>1. PICK n \in 0..Len(issued) :
          Expired(n, Older(issued)) /\ issued' = Without(n, Older(issued))
  BY DEF Tick
<1>2. /\ timestamps \in Seq(Ages) /\ issued \in Seq(Ages) /\ Len(timestamps) <= MaxRequests
      /\ NewestOf(issued, timestamps) /\ asleep \in BOOLEAN /\ remaining \in Ages
      /\ (asleep = FALSE => remaining = 0)
  BY DEF PacerInv, PacerTypeOK
<1>3. timestamps' = Older(timestamps) /\ asleep' = asleep
      /\ remaining' = IF remaining = 0 THEN 0 ELSE remaining - 1
  BY DEF Tick
<1>4. n \in 0..Len(Older(issued))
  BY <1>2, OlderAges
<1>5. NewestOf(Without(n, Older(issued)), Older(timestamps))
  BY <1>1, <1>2, <1>4, TimeKeepsNewest
<1>6. /\ Older(timestamps) \in Seq(Ages) /\ Len(Older(timestamps)) <= MaxRequests
      /\ Without(n, Older(issued)) \in Seq(Ages)
  BY <1>2, <1>4, OlderAges, WithoutAges
<1>7. remaining' \in Ages /\ (asleep' = FALSE => remaining' = 0)
  BY <1>2, <1>3, PacerConstants DEF Ages
<1>8. asleep' \in BOOLEAN
  BY <1>2, <1>3
<1>. QED  BY <1>1, <1>3, <1>5, <1>6, <1>7, <1>8 DEF PacerInv, PacerTypeOK, NewestOf

\* The sizes, ages and the shape of the deque in every state.
THEOREM PacerInvariant == PacerSpec => []PacerInv
<1>0. <<>> \in Seq(Ages) /\ Len(<<>>) = 0 /\ 0 \in Ages
  BY PacerConstants, EmptySeq DEF Ages
<1>1. PacerInit => PacerInv
  <2>1. SUFFICES ASSUME PacerInit PROVE PacerInv
    OBVIOUS
  <2>2. timestamps = <<>> /\ issued = <<>> /\ asleep = FALSE /\ remaining = 0
    BY <2>1 DEF PacerInit
  <2>3. PacerTypeOK
    BY <1>0, <2>2 DEF PacerTypeOK
  <2>4. Len(timestamps) <= MaxRequests /\ NewestOf(issued, timestamps)
    BY <1>0, <2>2, PacerConstants DEF NewestOf
  <2>. QED  BY <2>2, <2>3, <2>4 DEF PacerInv
<1>2. PacerInv /\ [PacerNext]_pacerVars => PacerInv'
  <2>1. SUFFICES ASSUME PacerInv, [PacerNext]_pacerVars PROVE PacerInv'
    OBVIOUS
  <2>2. CASE Request
    BY <2>1, <2>2, AcquireKeepsInv DEF Request
  <2>3. CASE Resume
    BY <2>1, <2>3, AcquireKeepsInv DEF Resume
  <2>4. CASE Tick
    BY <2>1, <2>4, TickKeepsInv
  <2>5. CASE UNCHANGED pacerVars
    BY <2>1, <2>5 DEF pacerVars, PacerInv, PacerTypeOK, NewestOf
  <2>6. CASE NewProcess
    <3>1. timestamps' = <<>> /\ issued' = <<>> /\ asleep' = FALSE /\ remaining' = 0
      BY <2>6 DEF NewProcess
    <3>2. PacerTypeOK'
      BY <1>0, <3>1 DEF PacerTypeOK
    <3>3. Len(timestamps') <= MaxRequests /\ NewestOf(issued', timestamps')
      BY <1>0, <3>1, PacerConstants DEF NewestOf
    <3>. QED  BY <3>1, <3>2, <3>3 DEF PacerInv, NewestOf
  <2>. QED  BY <2>1, <2>2, <2>3, <2>4, <2>5, <2>6 DEF PacerNext
<1>. QED  BY <1>1, <1>2, PTL DEF PacerSpec

\* No window of IBKR's length ever holds more requests than the limit, for
\* every limit, every length of the window and however early a sleep returns.
THEOREM PacingIsKept == PacerSpec => []PacingHolds
<1>1. PacerInv => PacingHolds
  <2>1. SUFFICES ASSUME PacerInv PROVE Len(issued) <= MaxRequests
    BY DEF PacingHolds
  <2>2. Len(issued) \in Nat /\ Len(timestamps) \in Nat
    BY <2>1 DEF PacerInv, PacerTypeOK
  <2>3. Len(issued) <= Len(timestamps) /\ Len(timestamps) <= MaxRequests
    BY <2>1 DEF PacerInv, NewestOf
  <2>. QED  BY <2>2, <2>3, PacerConstants
<1>. QED  BY <1>1, PacerInvariant, PTL

-----------------------------------------------------------------------------
(***************************************************************************)
(* The data of a turn                                                      *)
(***************************************************************************)

\* Market data issues its requests through the pacer and in no other way: each
\* of its steps is a step of the pacer, which begins anew with the process, or
\* leaves the pacer alone.
THEOREM MarketPaces == MarketSpec => PacerSpec
<1>1. MarketInit => PacerInit
  BY DEF MarketInit
<1>2. [MarketNext]_marketVars => [PacerNext]_pacerVars
  <2>. SUFFICES ASSUME [MarketNext]_marketVars  PROVE PacerNext \/ UNCHANGED pacerVars
    OBVIOUS
  <2>1. CASE AskIBKR \/ TimePasses
    BY <2>1 DEF AskIBKR, TimePasses, PacerNext
  <2>2. CASE BeginTurn \/ BeginMomentum \/ ContractUnknown \/ TickArrives \/ NewTradingDay
    BY <2>2 DEF BeginTurn, BeginMomentum, ContractUnknown, TickArrives, NewTradingDay, PacerNext
  <2>3. CASE BarsArrive \/ NoSignal \/ Subscribe \/ Poll \/ Snapshot \/ CloseArrives \/ UseQuote
    BY <2>3 DEF BarsArrive, NoSignal, Subscribe, Poll, Snapshot, CloseArrives, UseQuote
  <2>4. CASE UNCHANGED marketVars
    BY <2>4 DEF marketVars
  <2>. QED BY <2>1, <2>2, <2>3, <2>4 DEF MarketNext, Turn
<1>. QED BY <1>1, <1>2, PTL DEF MarketSpec, PacerSpec

\* The cache entry is of no day to come and holds finished bars; it is looked
\* up before a request goes out, so a request is for a day without an entry.
CacheInv ==
    /\ daily.date <= tradingDay
    /\ CachedBarsAreFinished
    /\ stage \in {"wantBars", "bars"} => ~Cached
    /\ fetches = 0 \/ (fetches = 1 /\ Cached)

Bare(t) == t.last = 0 /\ t.close = 0

\* A ticker without a time holds no price; so the first poll that reads one
\* comes after an update, whether times are compared or not.
TickerInv ==
    /\ ticker.timed \/ Bare(ticker)
    /\ stage = "stream" => previous \/ ticker.updated \/ Bare(ticker)

\* What a quote that is called current may be: a price of today or the last one
\* the ticker received.
CurrentPrice(q, t) ==
    q.of # tradingDay => /\ t.last # 0 /\ q.of = t.last
                         /\ q.source \in {"stream", "snapshot"}

QuoteInv ==
    stage = "quoted" =>
        /\ ~quote.stale => CurrentPrice(quote, ticker)
        /\ quote.source = "stream" => ticker.updated

\* Everything of a turn but the pacer.
DataTypeOK ==
    /\ tradingDay \in 1..LastTradingDay /\ stage \in Steps
    /\ purpose \in {"entry", "exit", "momentum", "target"}
    /\ contract \in BOOLEAN /\ previous \in BOOLEAN /\ polls \in 0..Polls
    /\ daily \in [date : KnownDays, bars : SUBSET KnownDays, readable : BOOLEAN]
    /\ targets \in KnownDays
    /\ ticker \in Tickers /\ quote \in Quotes /\ fetches \in 0..2

DataInv == DataTypeOK /\ CacheInv /\ TickerInv /\ QuoteInv

\* A trading day, today and yesterday are known days.
LEMMA DaysAreKnown ==
  ASSUME tradingDay \in 1..LastTradingDay
  PROVE  /\ tradingDay \in Nat /\ tradingDay > 0 /\ tradingDay - 1 # tradingDay
         /\ tradingDay \in KnownDays /\ tradingDay - 1 \in KnownDays /\ 0 \in KnownDays
         /\ 0..(tradingDay - 1) \subseteq KnownDays /\ 0..tradingDay \subseteq KnownDays
  BY MarketDataAssumption DEF KnownDays

\* What an update makes of a ticker.
LEMMA TickersUpdated ==
  ASSUME NEW t \in Tickers, tradingDay \in 1..LastTradingDay,
         NEW new \in {WithPrice(t), WithClose(t), Stamped(t)}
  PROVE  new \in Tickers /\ new.timed /\ new.updated
<1>1. tradingDay \in KnownDays
  BY DaysAreKnown
<1>2. Stamped(t) \in Tickers /\ Stamped(t).timed /\ Stamped(t).updated
  BY DEF Stamped, Tickers
<1>. HIDE DEF Tickers
<1>3. /\ WithPrice(t) \in Tickers /\ WithPrice(t).timed /\ WithPrice(t).updated
      /\ WithClose(t) \in Tickers /\ WithClose(t).timed /\ WithClose(t).updated
  BY <1>1, <1>2 DEF WithPrice, WithClose, Tickers
<1>. QED BY <1>2, <1>3

\* A ticker, a quote and an entry of the cache that hold nothing.
LEMMA NothingIsTyped ==
  /\ NewTicker \in Tickers /\ NoQuote \in Quotes
  /\ NoBars \in [date : KnownDays, bars : SUBSET KnownDays, readable : BOOLEAN]
  /\ Bare(NewTicker) /\ NoBars.date = 0
<1>1. 0 \in KnownDays
  BY MarketDataAssumption DEF KnownDays
<1>. QED BY <1>1 DEF NewTicker, NoQuote, NoBars, Tickers, Quotes, Bare

\* What is read off a ticker: the last price it received, the close of the day
\* before that came in, which is stale, or nothing.
LEMMA ExtractedPrice ==
  ASSUME NEW t \in Tickers, tradingDay \in 1..LastTradingDay, stage \in {"stream", "snapshot"}
  PROVE  /\ ExtractTickerPrice(t) \in Quotes
         /\ ~ExtractTickerPrice(t).stale =>
              /\ ExtractTickerPrice(t).of = t.last /\ t.last # 0
              /\ ExtractTickerPrice(t).source = stage
         /\ Bare(t) => ExtractTickerPrice(t) = NoQuote
         /\ ExtractTickerPrice(t).source \in {"none", stage}
<1>1. t.last \in KnownDays /\ t.close \in KnownDays
  BY DEF Tickers
<1>2. CASE t.last # 0
  BY <1>1, <1>2 DEF ExtractTickerPrice, Quotes, NoQuote, Bare
<1>3. CASE t.last = 0 /\ t.close # 0
  <2>1. t.close - 1 \in KnownDays
    BY <1>1, <1>3, MarketDataAssumption DEF KnownDays
  <2>. QED BY <1>3, <2>1 DEF ExtractTickerPrice, Quotes, NoQuote, Bare
<1>4. CASE t.last = 0 /\ t.close = 0
  BY <1>4, NothingIsTyped DEF ExtractTickerPrice, NoQuote
<1>. QED BY <1>2, <1>3, <1>4

\* A step outside the stream, the request for bars and the quote, in one day.
LEMMA QuietStep ==
  ASSUME DataInv, DataTypeOK', UNCHANGED <<tradingDay, daily, fetches>>,
         UNCHANGED ticker,
         stage' \notin {"stream", "quoted"}, stage' \in {"wantBars", "bars"} => ~Cached
  PROVE  DataInv'
<1>1. CacheInv'
  BY DEF DataInv, CacheInv, Cached, CachedBarsAreFinished
<1>2. TickerInv' /\ QuoteInv'
  BY DEF DataInv, TickerInv, QuoteInv, Bare
<1>. QED BY <1>1, <1>2 DEF DataInv

\* A step that leaves cache, ticker and quote alone and stays where it was.
LEMMA SameData ==
  ASSUME DataInv, UNCHANGED dataVars  PROVE DataInv'
  BY DEF DataInv, DataTypeOK, CacheInv, TickerInv, QuoteInv, Cached, CachedBarsAreFinished,
         Bare, CurrentPrice, dataVars

\* A symbol whose ticker is known goes on to its price.
LEMMA FoundKeepsInv ==
  ASSUME DataInv, NEW q \in Quotes, NEW next \in {"stream", "snapshot", "wantClose"},
         Found(q, next), stage \in {"stream", "snapshot"},
         UNCHANGED <<tradingDay, purpose, contract, daily, targets, previous, fetches>>,
         ticker' \in Tickers, polls' \in 0..Polls, ticker'.timed \/ Bare(ticker'),
         next = "stream" => stage = "stream" /\ ticker' = ticker,
         ~q.stale => CurrentPrice(q, ticker'),
         q # NoQuote /\ q.source = "stream" => ticker'.updated
  PROVE  DataInv'
<1>1. quote' = q /\ stage' = IF q = NoQuote THEN next ELSE "quoted"
  BY DEF Found
<1>2. DataTypeOK'
  BY <1>1 DEF DataInv, DataTypeOK, Steps
<1>3. CacheInv'
  BY <1>1 DEF DataInv, CacheInv, Cached, CachedBarsAreFinished
<1>4. TickerInv'
  BY <1>1 DEF DataInv, TickerInv, Bare
<1>5. QuoteInv'
  BY <1>1 DEF QuoteInv, CurrentPrice
<1>. QED BY <1>2, <1>3, <1>4, <1>5 DEF DataInv

\* Every step keeps the invariant of the data.
LEMMA DataStep == DataInv /\ [MarketNext]_marketVars => DataInv'
<1>. SUFFICES ASSUME DataInv, [MarketNext]_marketVars  PROVE DataInv'
  OBVIOUS
<1>0. /\ DataTypeOK /\ tradingDay \in 1..LastTradingDay
      /\ NoQuote \in Quotes /\ ticker \in Tickers /\ quote \in Quotes /\ 0 \in 0..Polls
      /\ Polls \in 0..Polls /\ stage \in Steps
  BY MarketDataAssumption, DaysAreKnown DEF DataInv, DataTypeOK, NoQuote, Quotes
<1>1. CASE BeginTurn
  <2>1. /\ UNCHANGED <<tradingDay, daily, targets, ticker, previous, quote, fetches>>
        /\ polls' = 0 /\ purpose' \in {"entry", "exit", "target"} /\ contract' = TRUE
        /\ stage' = IF purpose' = "entry" /\ ~Cached THEN "wantBars" ELSE "signal"
    BY <1>1 DEF BeginTurn
  <2>2. DataTypeOK'
    BY <1>0, <2>1 DEF DataTypeOK, Steps
  <2>. QED BY <2>1, <2>2, QuietStep
<1>2. CASE BeginMomentum
  <2>1. /\ UNCHANGED <<tradingDay, daily, ticker, previous, polls, quote, fetches>>
        /\ purpose' = "momentum" /\ contract' = TRUE
        /\ stage' = IF Cached THEN "idle" ELSE "wantBars"
        /\ targets' = IF Cached THEN tradingDay ELSE targets
    BY <1>2 DEF BeginMomentum
  <2>2. DataTypeOK'
    BY <1>0, <2>1, DaysAreKnown DEF DataTypeOK, Steps
  <2>. QED BY <2>1, <2>2, QuietStep
<1>3. CASE ContractUnknown
  <2>1. /\ UNCHANGED <<tradingDay, stage, contract, daily, ticker, previous, polls, quote, fetches>>
        /\ stage = "idle" /\ purpose' \in {"entry", "exit", "momentum", "target"}
        /\ targets' = IF purpose' = "momentum" THEN tradingDay ELSE targets
    BY <1>3 DEF ContractUnknown
  <2>2. DataTypeOK'
    BY <1>0, <2>1, DaysAreKnown DEF DataTypeOK, Steps
  <2>. QED BY <2>1, <2>2, QuietStep
<1>4. CASE AskIBKR
  <2>1. /\ UNCHANGED <<tradingDay, purpose, contract, daily, targets, ticker, previous,
                       polls, quote, fetches>>
        /\ stage \in {"wantBars", "wantClose"}
        /\ stage' \in {stage, IF stage = "wantBars" THEN "bars" ELSE "close"}
    BY <1>4 DEF AskIBKR
  <2>2. DataTypeOK'
    BY <1>0, <2>1 DEF DataTypeOK, Steps
  <2>3. stage' \in {"wantBars", "bars"} => stage = "wantBars"
    BY <2>1
  <2>. QED BY <2>1, <2>2, <2>3, QuietStep DEF DataInv, CacheInv
<1>5. CASE BarsArrive
  <2>1. PICK bars \in {{}, 0..(tradingDay - 1), 0..tradingDay, {tradingDay}},
             readable \in BOOLEAN :
          LET kept == DropUnconfirmedTodayBars(bars, readable)
          IN  /\ daily' = IF kept = {} THEN daily
                          ELSE [date |-> tradingDay, bars |-> kept, readable |-> readable]
              /\ fetches' = IF kept = {} THEN fetches ELSE 1 + fetches
              /\ stage' = IF purpose = "entry" /\ kept # {} THEN "signal" ELSE "idle"
    BY <1>5 DEF BarsArrive
  <2>. DEFINE kept == DropUnconfirmedTodayBars(bars, readable)
  <2>2. kept \subseteq KnownDays /\ (readable => tradingDay \notin kept)
    BY <1>0, DaysAreKnown DEF DropUnconfirmedTodayBars
  <2>. HIDE DEF kept
  <2>3. /\ UNCHANGED <<tradingDay, purpose, contract, ticker, previous, polls, quote>>
        /\ targets' = IF purpose = "momentum" THEN tradingDay ELSE targets
        /\ stage = "bars"
    BY <1>5 DEF BarsArrive
  <2>4. fetches = 0
    BY <2>3 DEF DataInv, CacheInv
  <2>5. CASE kept = {}
    <3>1. daily' = daily /\ fetches' = fetches /\ stage' = "idle"
      BY <2>1, <2>5 DEF kept
    <3>2. DataTypeOK'
      BY <1>0, <2>3, <3>1, DaysAreKnown DEF DataTypeOK, Steps
    <3>. QED BY <2>3, <3>1, <3>2, QuietStep
  <2>6. CASE kept # {}
    <3>1. /\ daily' = [date |-> tradingDay, bars |-> kept, readable |-> readable]
          /\ fetches' = 1 /\ stage' \in {"signal", "idle"}
      BY <2>1, <2>4, <2>6 DEF kept
    <3>2. DataTypeOK'
      BY <1>0, <2>2, <2>3, <3>1, DaysAreKnown DEF DataTypeOK, Steps
    <3>3. CacheInv'
      BY <1>0, <2>2, <2>3, <3>1, DaysAreKnown DEF CacheInv, Cached, CachedBarsAreFinished
    <3>4. TickerInv' /\ QuoteInv'
      BY <2>3, <3>1 DEF DataInv, TickerInv, QuoteInv, Bare
    <3>. QED BY <3>2, <3>3, <3>4 DEF DataInv
  <2>. QED BY <2>5, <2>6
<1>6. CASE NoSignal \/ UseQuote
  <2>1. /\ UNCHANGED <<tradingDay, purpose, contract, daily, targets, ticker, previous,
                       polls, fetches>>
        /\ stage' = "idle" /\ quote' = NoQuote
    BY <1>6 DEF NoSignal, UseQuote, TurnEnds
  <2>2. DataTypeOK'
    BY <1>0, <2>1 DEF DataTypeOK, Steps
  <2>. QED BY <2>1, <2>2, QuietStep
<1>7. CASE Subscribe
  <2>1. /\ UNCHANGED <<tradingDay, purpose, contract, daily, targets, quote, fetches>>
        /\ ticker' = [ticker EXCEPT !.updated = FALSE] /\ previous' = ticker.timed
        /\ polls' = Polls /\ stage' \in {"stream", "snapshot"}
    BY <1>7 DEF Subscribe
  <2>2. /\ ticker' \in Tickers /\ ticker'.timed = ticker.timed
        /\ ticker'.last = ticker.last /\ ticker'.close = ticker.close
    BY <1>0, <2>1 DEF Tickers
  <2>3. previous' \in BOOLEAN
    BY <1>0, <2>1 DEF Tickers
  <2>4. DataTypeOK'
    BY <1>0, <2>1, <2>2, <2>3 DEF DataTypeOK, Steps
  <2>5. CacheInv'
    BY <2>1 DEF DataInv, CacheInv, Cached, CachedBarsAreFinished
  <2>6. TickerInv' /\ QuoteInv'
    BY <2>1, <2>2 DEF DataInv, TickerInv, QuoteInv, Bare
  <2>. QED BY <2>4, <2>5, <2>6 DEF DataInv
<1>8. CASE TickArrives
  <2>1. /\ UNCHANGED <<tradingDay, stage, purpose, contract, daily, targets, previous,
                       polls, quote, fetches>>
        /\ stage = "stream" /\ ticker' \in {WithPrice(ticker), WithClose(ticker), Stamped(ticker)}
    BY <1>8 DEF TickArrives
  <2>2. ticker' \in Tickers /\ ticker'.timed /\ ticker'.updated
    BY <1>0, <2>1, TickersUpdated
  <2>3. DataTypeOK'
    BY <1>0, <2>1, <2>2 DEF DataTypeOK
  <2>4. CacheInv' /\ TickerInv' /\ QuoteInv'
    BY <2>1, <2>2 DEF DataInv, CacheInv, Cached, CachedBarsAreFinished, TickerInv, QuoteInv
  <2>. QED BY <2>3, <2>4 DEF DataInv
<1>9. CASE Poll
  <2>. DEFINE q == IF previous /\ ~ticker.updated THEN NoQuote ELSE ExtractTickerPrice(ticker)
              next == IF polls = 1 THEN "snapshot" ELSE "stream"
  <2>1. /\ UNCHANGED <<tradingDay, purpose, contract, daily, targets, ticker, previous, fetches>>
        /\ stage = "stream" /\ polls > 0 /\ polls' = polls - 1 /\ Found(q, next)
    BY <1>9 DEF Poll
  <2>2. polls' \in 0..Polls
    BY <1>0, <2>1, MarketDataAssumption DEF DataTypeOK
  <2>3. q \in Quotes /\ next \in {"stream", "snapshot", "wantClose"}
    BY <1>0, <2>1, ExtractedPrice
  <2>4. ASSUME q # NoQuote
        PROVE  ticker.updated /\ (~q.stale => CurrentPrice(q, ticker))
    <3>1. ~(previous /\ ~ticker.updated) /\ q = ExtractTickerPrice(ticker)
      BY <2>4
    <3>2. ~Bare(ticker)
      BY <1>0, <2>1, <2>4, <3>1, ExtractedPrice
    <3>3. ticker.updated
      BY <2>1, <3>1, <3>2 DEF DataInv, TickerInv
    <3>4. ~q.stale => q.of = ticker.last /\ ticker.last # 0 /\ q.source = "stream"
      BY <1>0, <2>1, <3>1, ExtractedPrice
    <3>. HIDE DEF q
    <3>. QED BY <3>3, <3>4 DEF CurrentPrice
  <2>5. q = NoQuote => q.stale
    BY DEF NoQuote
  <2>6. (ticker.timed \/ Bare(ticker))' /\ ticker' \in Tickers
    BY <1>0, <2>1 DEF DataInv, TickerInv, Bare
  <2>. HIDE DEF q, next
  <2>. QED BY <2>1, <2>2, <2>3, <2>4, <2>5, <2>6, FoundKeepsInv
<1>10. CASE Snapshot
  <2>1. /\ UNCHANGED <<tradingDay, purpose, contract, daily, targets, previous, polls, fetches>>
        /\ stage = "snapshot"
    BY <1>10 DEF Snapshot
  <2>2. PICK s \in Snapshots :
          \/ Found(NoQuote, "wantClose") /\ UNCHANGED ticker
          \/ /\ ticker' \in {ticker, WithPrice(ticker), WithClose(ticker), Stamped(ticker)}
             /\ Found(ExtractTickerPrice(ticker'), "wantClose")
    BY <1>10 DEF Snapshot
  <2>4. ticker' \in Tickers /\ (ticker'.timed \/ Bare(ticker'))
    <3>1. CASE UNCHANGED ticker
      BY <1>0, <3>1 DEF DataInv, TickerInv, Bare
    <3>2. CASE ticker' \in {WithPrice(ticker), WithClose(ticker), Stamped(ticker)}
      BY <1>0, <3>2, TickersUpdated
    <3>. QED BY <2>2, <3>1, <3>2
  <2>5. PICK q \in Quotes :
          /\ Found(q, "wantClose")
          /\ ~q.stale => CurrentPrice(q, ticker')
          /\ q # NoQuote => q.source # "stream"
    <3>1. CASE Found(NoQuote, "wantClose")
      BY <1>0, <3>1 DEF NoQuote
    <3>2. CASE Found(ExtractTickerPrice(ticker'), "wantClose")
      <4>. DEFINE q == ExtractTickerPrice(ticker')
      <4>1. /\ q \in Quotes /\ q.source \in {"none", "snapshot"}
            /\ ~q.stale => q.of = ticker'.last /\ ticker'.last # 0 /\ q.source = "snapshot"
        BY <1>0, <2>1, <2>4, ExtractedPrice
      <4>2. Found(q, "wantClose")
        BY <3>2
      <4>. HIDE DEF q
      <4>. QED BY <4>1, <4>2 DEF CurrentPrice
    <3>. QED BY <2>2, <3>1, <3>2
  <2>3. polls' \in 0..Polls
    BY <1>0, <2>1 DEF DataTypeOK
  <2>. QED BY <2>1, <2>3, <2>4, <2>5, FoundKeepsInv
<1>11. CASE CloseArrives
  <2>1. UNCHANGED <<tradingDay, purpose, contract, daily, targets, ticker, previous, polls,
                    fetches>>
    BY <1>11 DEF CloseArrives
  <2>2. CASE TurnEnds
    <3>1. DataTypeOK'
      BY <1>0, <2>1, <2>2 DEF DataTypeOK, TurnEnds, Steps
    <3>. QED BY <2>1, <2>2, <3>1, QuietStep DEF TurnEnds
  <2>3. ASSUME NEW of \in {tradingDay - 1, tradingDay}, NEW readable \in BOOLEAN,
               quote' = LastClosePrice(of, readable), stage' = "quoted", stage = "close"
        PROVE  DataInv'
    <3>1. quote'.stale = (~readable \/ of # tradingDay) /\ quote'.of = of /\ quote'.source = "close"
      BY <2>3 DEF LastClosePrice
    <3>2. quote' \in Quotes
      BY <1>0, <2>3, DaysAreKnown DEF LastClosePrice, Quotes
    <3>3. DataTypeOK'
      BY <1>0, <2>1, <2>3, <3>2 DEF DataTypeOK, Steps
    <3>4. CacheInv' /\ TickerInv'
      BY <2>1, <2>3 DEF DataInv, CacheInv, Cached, CachedBarsAreFinished, TickerInv, Bare
    <3>5. QuoteInv'
      BY <2>1, <3>1 DEF QuoteInv, CurrentPrice
    <3>. QED BY <3>3, <3>4, <3>5 DEF DataInv
  <2>. QED BY <1>11, <2>2, <2>3 DEF CloseArrives
<1>12. CASE NewTradingDay
  <2>1. /\ stage = "idle" /\ tradingDay < LastTradingDay /\ tradingDay' = tradingDay + 1
        /\ fetches' = 0 /\ UNCHANGED <<stage, purpose, polls, quote>>
        /\ \/ UNCHANGED <<contract, daily, targets, ticker, previous>>
           \/ /\ contract' = FALSE /\ daily' = NoBars
              /\ targets' = 0 /\ ticker' = NewTicker /\ previous' = FALSE
    BY <1>12 DEF NewTradingDay
  <2>2. tradingDay' \in 1..LastTradingDay /\ 0 \in KnownDays
    BY <1>0, <2>1, MarketDataAssumption, DaysAreKnown
  <2>3. DataTypeOK'
    <3>1. CASE UNCHANGED <<contract, daily, targets, ticker, previous>>
      BY <1>0, <2>1, <2>2, <3>1 DEF DataTypeOK
    <3>2. CASE /\ contract' = FALSE /\ daily' = NoBars
               /\ targets' = 0 /\ ticker' = NewTicker /\ previous' = FALSE
      <4>1. /\ daily' \in [date : KnownDays, bars : SUBSET KnownDays, readable : BOOLEAN]
            /\ ticker' \in Tickers /\ quote' \in Quotes
        BY <1>0, <2>1, <3>2, NothingIsTyped
      <4>2. contract' \in BOOLEAN /\ previous' \in BOOLEAN
        BY <3>2, Zenon
      <4>3. /\ stage' \in Steps /\ purpose' \in {"entry", "exit", "momentum", "target"}
            /\ polls' \in 0..Polls /\ fetches' \in 0..2 /\ targets' \in KnownDays
        BY <1>0, <2>1, <2>2, <3>2 DEF DataTypeOK
      <4>. QED BY <2>2, <4>1, <4>2, <4>3 DEF DataTypeOK
    <3>. QED BY <2>1, <3>1, <3>2
  <2>4. daily'.date \in {0, daily.date} /\ daily.date <= tradingDay
    BY <2>1, NothingIsTyped DEF DataInv, CacheInv
  <2>5. daily'.date < tradingDay'
    <3>1. daily.date \in Nat /\ tradingDay \in Nat
      BY <1>0 DEF DataTypeOK, KnownDays
    <3>. QED BY <2>1, <2>4, <3>1
  <2>6. CacheInv'
    <3>1. daily'.date \in Nat /\ tradingDay' \in Nat
      BY <2>3 DEF DataTypeOK, KnownDays
    <3>. QED BY <2>1, <2>5, <3>1 DEF CacheInv, Cached, CachedBarsAreFinished
  <2>7. TickerInv' /\ QuoteInv'
    BY <2>1, NothingIsTyped DEF DataInv, TickerInv, QuoteInv, Bare
  <2>. QED BY <2>3, <2>6, <2>7 DEF DataInv
<1>13. CASE TimePasses \/ UNCHANGED marketVars
  BY <1>13, SameData DEF TimePasses, marketVars
<1>. QED
  BY <1>1, <1>2, <1>3, <1>4, <1>5, <1>6, <1>7, <1>8, <1>9, <1>10, <1>11, <1>12, <1>13
     DEF MarketNext, Turn

\* The invariant of the data holds throughout.
LEMMA DataInvariant == MarketSpec => []DataInv
<1>1. MarketInit => DataInv
  <2>. SUFFICES ASSUME MarketInit  PROVE DataInv
    OBVIOUS
  <2>1. 1 \in 1..LastTradingDay /\ 0 \in KnownDays /\ 0 \in 0..Polls
    BY MarketDataAssumption DEF KnownDays
  <2>2. DataTypeOK
    <3>1. /\ tradingDay \in 1..LastTradingDay /\ stage \in Steps /\ purpose = "entry"
          /\ contract = FALSE /\ previous = FALSE /\ polls \in 0..Polls
          /\ targets \in KnownDays /\ fetches \in 0..2
      BY <2>1 DEF MarketInit, Steps
    <3>2. /\ daily \in [date : KnownDays, bars : SUBSET KnownDays, readable : BOOLEAN]
          /\ ticker \in Tickers /\ quote \in Quotes
      BY NothingIsTyped DEF MarketInit
    <3>. QED BY <3>1, <3>2 DEF DataTypeOK
  <2>3. CacheInv /\ TickerInv /\ QuoteInv
    BY NothingIsTyped DEF MarketInit, CacheInv, Cached, CachedBarsAreFinished, TickerInv, QuoteInv,
                          Bare
  <2>. QED BY <2>2, <2>3 DEF DataInv
<1>. QED BY <1>1, DataStep, PTL DEF MarketSpec

\* The types of market data, those of its pacer included.
THEOREM MarketTypeCorrect == MarketSpec => []MarketTypeOK
<1>1. DataInv /\ PacerInv => MarketTypeOK
  BY DEF DataInv, DataTypeOK, PacerInv, MarketTypeOK
<1>. QED BY <1>1, DataInvariant, MarketPaces, PacerInvariant, PTL

\* CachedBarsAreFinished: get_async drops today's bar before it stores the
\* bars, and an entry counts for the day it was stored on only.
THEOREM CacheHoldsFinishedBars == MarketSpec => []CachedBarsAreFinished
<1>1. DataInv => CachedBarsAreFinished
  BY DEF DataInv, CacheInv
<1>. QED BY <1>1, DataInvariant, PTL

\* OneDailyFetch: whoever asks looks the cache up before a request goes out,
\* and nothing else runs between the answer and the store.
THEOREM FetchedOnceADay == MarketSpec => []OneDailyFetch
<1>1. DataInv => OneDailyFetch
  BY DEF DataInv, CacheInv, OneDailyFetch
<1>. QED BY <1>1, DataInvariant, PTL

\* NoEntryOnAClose: REJECT_STALE_ENTRY_PRICE lets an entry through on a price
\* of today or on the last market price the ticker received, and never on a
\* close, whichever source gives it.
THEOREM EntriesAvoidCloses == MarketSpec => []NoEntryOnAClose
<1>1. DataInv => NoEntryOnAClose
  <2>. SUFFICES ASSUME DataInv, Accepted, purpose # "exit", quote.of # tradingDay
                PROVE  /\ ticker.last # 0 /\ quote.of = ticker.last
                       /\ \/ quote.source = "snapshot"
                          \/ quote.source = "stream" /\ ticker.updated
    BY DEF NoEntryOnAClose
  <2>1. stage = "quoted" /\ ~quote.stale
    BY DEF Accepted
  <2>. QED BY <2>1 DEF DataInv, QuoteInv, CurrentPrice
<1>. QED BY <1>1, DataInvariant, PTL

\* SilentStreamIsNotRead: _get_streaming_price_async reads a reused Ticker only
\* after an update of this call, and one that was never updated holds nothing.
THEOREM SilentStreamsAreNotRead == MarketSpec => []SilentStreamIsNotRead
<1>1. DataInv => SilentStreamIsNotRead
  BY DEF DataInv, QuoteInv, SilentStreamIsNotRead
<1>. QED BY <1>1, DataInvariant, PTL
================================================================================
