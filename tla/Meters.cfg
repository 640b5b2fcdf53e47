CONSTANTS
    S0Configs <- MCS0Configs
    RefLimit = 1
    MaxImpulses = 2
    MaxNow = 2
    D0Configs <- MCD0Configs
    IdLen = 1
    ObisLen = 1
    ValueLen = 1
    UnitLen = 1
    MaxReadings = 1
    SyncLimit = 1
    Telegrams <- MCTelegrams
    OmsRoom = 2
    OcrConfigs <- MCOcrConfigs
    Moves <- MCMoves
    Errors <- MCErrors
    HalfNeedle = 3
    TurnBounds <- MCTurnBounds
    NoReads = NoReads
    NotANumber = NotANumber
    InfluxConfigs <- MCInfluxConfigs
    InfluxValues = {1, 2}
    MaxPushed = 4
    BufferLengths <- MCBufferLengths
    MaxMade = 3
    MaxCopied = 3
    MaxLocalNow = 2
    Epoch = 5
    MaxUtc = 8
    MaxQueries = 3
    MaxDrift = 1
SPECIFICATION MetersSpec
INVARIANTS ImpulsesConserved D0Bounds AckSpeed OmsOnce ImpulsesTrack InfluxKept WindowServed ClockSynced
PROPERTIES TimeForward StopEnds ReadReturns FlashOnce
CHECK_DEADLOCK FALSE
