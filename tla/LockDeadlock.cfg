SPECIFICATION FairSpec
CONSTANTS
    r1 = r1
    r2 = r2
    s1 = s1
    s2 = s2
    Txns = {1, 2}
    Resources = {r1, r2}
    Shards = {s1, s2}
    ShardOf <- TwoShards
    Requests <- Exclusive
    Handles <- NoHandles
    NoRequest = NoRequest
CHECK_DEADLOCK FALSE
PROPERTY DeadlockRaised
