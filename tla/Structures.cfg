SPECIFICATION StructuresSpec
CONSTANTS
    PageSize = 7
    HeaderSize = 1
    SlotSize = 1
    Values = {a, b}
    MaxLength = 3
    Blank = a
    Radix = 4
    Null = Null
    Keys <- TwoByteKeys
    MaxRecords = 5
    PageLimits = {0, 2, 7}
    NodeSpace = 13
    StrayPages = {0, 1}
    Bodies = {b1}
    MaxPage = 2
    MaxSessions = 3
    Names = {main, x}
    Main = main
    MaxColumns = 1
    LastIds <- MCLastIds
    Samples <- MCSamples
    MaxFields = 3
    BitsPerByte = 2
    Quote = 9
    MaxCoefficient = 7
    Base = 3
    ScaleCount = 5
    ExtraPrecision = 1
    Scales = {0, 1, 2, 4}
    Keywords <- MCKeywords
    Upper <- MCUpper
    Phrases <- MCPhrases
    MaxPhrases = 4
CHECK_DEADLOCK FALSE
INVARIANTS
    LayoutSound
    TreeWellFormed ChainHoldsAll 
    OnlyForgottenTwice
    MapsAgree
    
    DecimalsAreValues
    TokensAsWritten TreeFollowsGrammar
PROPERTIES RowsSpec CleanCloseOpens IdsNotReissued
