SPECIFICATION Spec
CONSTANTS
    Keys = {k1, k2}
    NoKey = NoKey
    Capacity = 1
    RingCap = 2
    BatchMax = 2
    MaxSegments = 3
    FailPoints = {"open", "create", "manifest", "rename", "snapshot", "spawn"}
    MaxSeq = 4
    MaxCrashes = 1
    MaxFails = 1
    MaxSwaps = 1
    MayExit = FALSE
SYMMETRY KeySymmetry
CHECK_DEADLOCK FALSE
INVARIANTS
    ManifestSound
    DurableRecoverable
    MemoryNotStale
