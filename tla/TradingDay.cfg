CONSTANTS
    Symbols = {s1, s2, s3}
    MaxConcurrentPositions = 2
    MaxDailyEntryOrders = 2
    MaxDailyLosses = 1
    Faults = {"Crash", "SaveFails", "FileLost", "JournalFails", "EntryAborted", "ExitAborted"}
    MaxFaults = 1
    LastDay = 2
    MaxLosses = 2
SPECIFICATION Spec
SYMMETRY SymbolSymmetry
INVARIANT TypeOK
INVARIANT EntriesWithinLimit
INVARIANT HeldWithinLimit
PROPERTY NoSameDayReentry
PROPERTY EntryBelowLossLimit
