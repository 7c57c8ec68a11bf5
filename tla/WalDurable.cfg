SPECIFICATION Spec
CONSTANTS
    Threads = {t1, t2}
    NoThread = NoThread
    Capacity = 2
    SegmentLimit = 2
    Mode = "Normal"
    MayFail = {}
    MaxLsn = 3
INVARIANT FlushUpToDurable
