SPECIFICATION TreeSpec
CONSTANTS
    Radix = 4
    Null = Null
    Keys <- OneByteKeys
    MaxRecords = 5
    PageLimits = {7}
    NodeSpace = 13
    StrayPages = {0}
CHECK_DEADLOCK FALSE
INVARIANT InsertedFound
