\* A whole part fits into memory.
SPECIFICATION Spec
CONSTANTS
    Slabs = 4
    SlabsPerPart = 2
    MaxMemory = 2
    MaxSlabCount = 4
    MaxFaults = 1
    Caches = {"disk"}
    Streamings = {"NONE"}
INVARIANTS
    TapeHoldsDump
CHECK_DEADLOCK FALSE
