SPECIFICATION FairStreamsSpec
CONSTANTS
    Sendbackup = TRUE
    ChildMayDie = TRUE
    AcceptMayFail = FALSE
    MaxMesg = 1
    MaxData = 1
PROPERTIES ShutDown
CHECK_DEADLOCK FALSE
