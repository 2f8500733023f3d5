CONSTANTS
    Symbols = {s1, s2}
    MaxConcurrentPositions = 2
    MaxDailyEntryOrders = 1
    MaxDailyLosses = 1
    Faults = {"Crash", "FileLost"}
    MaxFaults = 2
    LastDay = 1
    MaxLosses = 1
SPECIFICATION Spec
INVARIANT EntriesWithinLimitAlways
