CONSTANTS
    c1 = c1
    c2 = c2
    Channels = {c1, c2}
    Split = FALSE
    NoData = NoData
    NoChannel = NoChannel
    DnsResults = {"INPROGRESS", "ERR"}
    WriteResults = {"OK", "MEM", "ERR"}
    OutputResults = {"OK", "ERR"}
    Values = {0}
    NoValue = NoValue
    MaxChunkSize = 1
    Duplicates <- KeepDuplicates
    Meters <- OneMeterTwoChannels
    AggMode <- MaxOnSecond
    AggFixed = 2
    Times = {2, 3}
    MaxReads = 2
SPECIFICATION FairSpec
INVARIANTS TypeOK NoLoss NoGaps ReadyIsIdle
PROPERTIES Delivers RoundEnds RequestEnds
