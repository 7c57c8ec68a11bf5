SPECIFICATION RecSpec
CONSTANTS
    Txns = {1, 2}
    DataPages = {101}
    SegmentRecords = 3
    MaxLsn = 5
    MaxCrashes = 1
CHECK_DEADLOCK FALSE
INVARIANT CommittedSurvive
