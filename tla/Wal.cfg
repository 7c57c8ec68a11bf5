SPECIFICATION FairSpec
CONSTANTS
    Threads = {t1, t2}
    NoThread = NoThread
    Capacity = 1
    SegmentLimit = 2
    Mode = "Normal"
    MayFail = {"write", "flush"}
    MaxLsn = 3
INVARIANTS NoRecordLost LoggedOnceInOrder
PROPERTIES FlushWritesAll EveryCallReturns
