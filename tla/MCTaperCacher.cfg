\* Parts of four slabs, of which two fit into memory: the disk cache is never
\* behind by a whole part.
SPECIFICATION Spec
CONSTANTS
    Slabs = 5
    SlabsPerPart = 4
    MaxMemory = 2
    MaxSlabCount = 5
    MaxFaults = 2
    Caches = {"memory", "disk"}
    Streamings = {"NONE", "DESIRED"}
INVARIANTS
    CacherTypeOK
    SlabsAccounted
    TapeHoldsDump
    ScribeAgrees
PROPERTY
    DumpEnds
CHECK_DEADLOCK FALSE
