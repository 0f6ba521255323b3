SPECIFICATION FairSpec
CONSTANTS
    DiskSize <- MCDiskSize
    ChunkSize <- MCChunkSize
    Schedule <- MCSchedule
    FlushHoldp <- MCNoFlush
    Host <- MCHost
    EstSize <- MCEstSize
    Holding <- MCHolding
    Full = {"d1", "d2"}
    NoDegr = {"d2"}
    InParallel = 2
    MaxDumps = 2
    RunTapes = 1
    Reserve = 100
    MaxFaults = 0
    Blocks = {2}
PROPERTY AbortedIsRetried
CHECK_DEADLOCK FALSE
