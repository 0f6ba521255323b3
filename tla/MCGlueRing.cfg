SPECIFICATION FairSpec
CONSTANTS
    RingSize = 3
    NBufs = 7
INVARIANTS SlotsAccounted
PROPERTIES IsFifo Drains
CHECK_DEADLOCK FALSE
