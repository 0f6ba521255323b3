SPECIFICATION XferFairSpec
CONSTANTS
    N = 3
    Pullers = {3}
INVARIANTS XferTypeOK DoneMeansQuiet CallsStarted DrainsForEof
PROPERTIES NothingBehindDone StatusOrder WaitersReturn CancelCompletes
CHECK_DEADLOCK FALSE
