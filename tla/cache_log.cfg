SPECIFICATION FairSpec
CHECK_DEADLOCK FALSE
CONSTANTS
    Keys = {k1}
    NoKey = NoKey
    Capacity = 1
    RingCap = 1
    BatchMax = 2
    MaxSegments = 4
    FailPoints = {"append", "sync", "create", "snapshot", "manifest", "rename", "spawn", "first"}
    MaxSeq = 3
    MaxCrashes = 1
    MaxFails = 1
    MayExit = TRUE
    MaxSwaps = 1
INVARIANTS
    SegmentRanges
    NumbersFresh
    ShutdownComplete
PROPERTIES
    EventuallySnapshotted
