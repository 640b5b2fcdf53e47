CONSTANTS
    Modes = {"AVG"}
    AggTime = 0
    AlwaysTaken = {}
    Times = {1, 2, 3, 5}
    Values <- MCValues
    NoReading = NoReading
    MaxReads = 4
SPECIFICATION Spec
INVARIANTS AverageTiles
