CONSTANTS
    AAA = AAA
    BBB = BBB
    GGG = GGG
    SSS = SSS
    MaxRequests = 2
    Window = 3
    Early = 1
    Polls = 2
    Snapshots = {"price", "nothing", "reused"}
    LastTradingDay = 2
    Fixed <- MCFixed
    Growth <- MCGrowth
    Candidates <- MCCandidates
    Rankings <- MCRankings
    Worlds <- MCWorlds
    Holdings <- MCHoldings
    Slots = 3
    GrowthSlots = 1
    MaxPEFailures = 2
    RankCeiling = 3
    MinImprovement = 2
    HistoryWindow = 2
    AbsentRank = 6
    MaxHistoryDays = 2
    LastListDay = 3
    MAWindow = 2
    LongWindow = 3
    ThresholdPct = 5
    TakeProfitPct = 10
    StopLossPct = 5
    TrailingPct = 5
    RiskPct = 3
    SlippageBp = 5
    CommissionPerShare = 1500
    MinCommission = 100
    CommissionCapPct = 1
    MaxPositionSize = 40
    MaxOrderNotional = 500000
    EngineSetups <- MCEngineSetups
    EngineRows <- MCEngineRows
    EngineBars = 4
    EngineSeed <- MCEngineSeed
    InitialEquity = 122000
    Plans <- MCPlans
    Orders <- MCOrders
    Rows <- MCRows
    Seeds <- MCSeeds
    Days = 3
    StartEquity = 122000
    DailyLossPct = 3
    Frames <- MCFrames
    Spans <- MCSpans
    Metrics <- MCMetrics
    Settings = {1, 2}
    MinTrades = 1
    RecordDays = 3
    KeepSnapshots = 2
    MaxFills = 1
    MaxRows = 2
SPECIFICATION Spec
CHECK_DEADLOCK FALSE
INVARIANT TypeOK
INVARIANT PacingHolds
INVARIANT CachedBarsAreFinished
INVARIANT OneDailyFetch
INVARIANT NoEntryOnAClose
INVARIANT SilentStreamIsNotRead
INVARIANT ListWithinBudget
INVARIANT FallbackRecovers
INVARIANT DroppedStayDropped
INVARIANT SurvivorsStayOnRecord
INVARIANT OneRowPerDay
INVARIANT FlatOvernight
INVARIANT FillsInsideTheBar
INVARIANT CashCoversPositions
INVARIANT NoEntryAfterBreaker
INVARIANT NoReentryOnTheDay
INVARIANT EngineAgrees
INVARIANT TestedOnceAndUnseen
INVARIANT RecentDaysRecoverable
INVARIANT MissedDayIsReported
PROPERTY TurnsEnd
