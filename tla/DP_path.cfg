SPECIFICATION Spec
CONSTANTS
    Jobs <- AllJobs
    Crc16 <- ComputeModbusCrc16
    RetryCount = 1
    MaxDamage = 2
    Flips <- OneBitOrTwo
    MaxEntries = 3
INVARIANTS
    RequestsAreUnderstood
    ResultsAreTrue
    FramesAreCut
    TypedIsShown
    TransientFaultsAreRetried
    LogIsTheTail
CHECK_DEADLOCK FALSE
