CONSTANTS
    Pairs = {p1, p2}
    NoPair = NoPair
    Races = {}
    MaxFaults = 1
    MaxShort = 1
SPECIFICATION Spec
PROPERTY ClosedMeansFlat
