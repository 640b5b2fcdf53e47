CONSTANTS
    Modes = {"NONE", "MAX", "AVG", "SUM"}
    AggTime = 2
    AlwaysTaken = {"AVG"}
    Times = {1, 2, 3, 5}
    Values <- MCValues
    NoReading = NoReading
    MaxReads = 4
SPECIFICATION Spec
INVARIANTS TypeOK AggregateExact SumConserved AverageTiles
