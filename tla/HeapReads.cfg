SPECIFICATION MCSpec
CONSTANTS
    Clients = {c1, c2, c3}
    Writers = {c1, c2}
    MaxTxnId = 3
    MaxRestartId = 2
    MaxVersions = 2
    MaxRestarts = 1
SYMMETRY Symmetry
CHECK_DEADLOCK FALSE
INVARIANTS SnapshotFresh ReadersSeeOne
PROPERTIES SnapshotStable RepeatableRead
