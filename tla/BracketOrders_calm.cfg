CONSTANTS
    Pairs = {p1, p2}
    NoPair = NoPair
    Races = {"ForgottenFill", "Overnight"}
    MaxFaults = 1
    MaxShort = 1
SPECIFICATION FairSpec
INVARIANT NoShort
INVARIANT AtMostOnePair
PROPERTY EntryOnCleanBoard
PROPERTY HoldingIsRecorded
PROPERTY BareIsProtectedAgain
PROPERTY KeepsLedger
