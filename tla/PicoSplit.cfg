CONSTANTS
    c1 = c1
    c2 = c2
    Channels = {c1, c2}
    Split = TRUE
    NoData = NoData
    NoChannel = NoChannel
    DnsResults = {"INPROGRESS"}
    WriteResults = {"OK"}
    OutputResults = {"OK"}
    Values = {0}
    NoValue = NoValue
    MaxChunkSize = 1
    Duplicates <- KeepDuplicates
    Meters <- OneMeterTwoChannels
    AggMode <- NoAggregation
    AggFixed = 0
    Times = {1, 2}
    MaxReads = 3
SPECIFICATION Spec
INVARIANTS NoLoss
