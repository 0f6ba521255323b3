SPECIFICATION FairStreamsSpec
CONSTANTS
    Sendbackup = TRUE
    ChildMayDie = TRUE
    AcceptMayFail = TRUE
    MaxMesg = 4
    MaxData = 2
INVARIANTS StreamsTypeOK HeaderFirst SearchComplete NothingLost
PROPERTIES EndsAfterHeader
CHECK_DEADLOCK FALSE
