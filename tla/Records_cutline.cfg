CONSTANTS
    RecordDays = 3
    KeepSnapshots = 2
    MaxFills = 2
    MaxRows = 2
SPECIFICATION RecordsSpec
CHECK_DEADLOCK FALSE
INVARIANT OnlyTheCutLineIsLost
