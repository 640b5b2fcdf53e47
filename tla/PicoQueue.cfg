CONSTANTS
    c1 = c1
    c2 = c2
    Channels = {c1}
    Split = FALSE
    NoData = NoData
    NoChannel = NoChannel
    DnsResults = {"OK", "INPROGRESS", "ERR"}
    WriteResults = {"OK", "MEM", "ERR"}
    OutputResults = {"OK", "ERR"}
    Values = {0, 1}
    NoValue = NoValue
    MaxChunkSize = 2
    Duplicates <- DropDuplicates
    Meters <- OneMeter
    AggMode <- NoAggregation
    AggFixed = 0
    Times = {1, 2, 4}
    MaxReads = 3
SPECIFICATION Spec
INVARIANTS Inv
PROPERTIES Delivers
CHECK_DEADLOCK FALSE
