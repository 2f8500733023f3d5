CONSTANTS
    MaxRetries = 2
    AlertRounds = 3
    Accounts = {"paper", "live", "unread"}
    MaxOutages = 2
    MaxErrors = 1
    LastDay = 2
SPECIFICATION FairSpec
INVARIANT TypeOK
INVARIANT RefusedFirst
INVARIANT OneAlertPerOutage
PROPERTY CyclesGoOn
PROPERTY ScreeningIsRetried
