CONSTANTS
    Pairs = {p1, p2}
    NoPair = NoPair
    Races = {"FillInCycle", "FillAfterCancel", "FillAfterTimeout", "LateFill", "SlowCancel", "ForgottenFill", "Overnight"}
    MaxFaults = 1
    MaxShort = 1
SPECIFICATION Spec
SYMMETRY PairSymmetry
INVARIANT TypeOK
INVARIANT ExitSellsAlone
PROPERTY EntryOnlyWhenFlat
