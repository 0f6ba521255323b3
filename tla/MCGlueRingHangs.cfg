SPECIFICATION FairSpec
CONSTANTS
    RingSize = 2
    NBufs = 3
PROPERTIES CancelEndsThreads
CHECK_DEADLOCK FALSE
