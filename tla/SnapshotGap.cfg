SPECIFICATION Spec
CONSTANTS
    Clients = {c1, c2}
    MaxTxnId = 3
PROPERTY SnapshotIsolated
CHECK_DEADLOCK FALSE
