SPECIFICATION FairSpec
CONSTANTS
    DiskSize <- MCDiskSize
    ChunkSize <- MCChunkSize
    Schedule <- MCSchedule
    FlushHoldp <- MCFlush
    Host <- MCHost
    EstSize <- MCEstSize
    Holding <- MCHolding
    Full = {"d1", "d2"}
    NoDegr = {"d2"}
    InParallel = 2
    MaxDumps = 2
    RunTapes = 1
    Reserve = 100
    MaxFaults = 1
    Blocks = {2}
INVARIANTS
    DriverTypeOK
    SpaceAccounted
    UseMatchesReservation
    DumpersCounted
    OnePlace
PROPERTY RoomServed
CHECK_DEADLOCK FALSE
