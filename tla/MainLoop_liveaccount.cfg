CONSTANTS
    MaxRetries = 2
    AlertRounds = 3
    Accounts = {"paper", "live", "unread"}
    MaxOutages = 1
    MaxErrors = 1
    LastDay = 1
SPECIFICATION Spec
INVARIANT NeverOnLiveAccount
