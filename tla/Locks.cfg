SPECIFICATION LocksSpec
CONSTANTS
    r1 = r1
    r2 = r2
    s1 = s1
    s2 = s2
    Txns = {1, 2, 3, 4}
    Resources = {r1, r2}
    Shards = {s1, s2}
    ShardOf <- TwoShards
    Requests <- AllWorkloads
    Handles <- AllHandles
    NoRequest = NoRequest
CHECK_DEADLOCK FALSE
INVARIANTS HoldersCompatible NoLostWakeup QueuesMatchThreads
PROPERTIES  EveryCallReturns
