SPECIFICATION SeqSpec
CONSTANTS
    LineSize = 2
    WordSize = 1
    PageSize = 16
    NumSets = 2
    UIntMod = 32
    NumWays = 2
    KeyMod = 2
    Values = {0}
    ClientAddrs = {0, 3, 4, 9}
    ReadAttrs = {0, 7, 11}
    WriteAttrs = {0, 6, 7, 11, 14}
    InvalidateRanges <- Ranges
    FlushTokens = {"flush"}
    NoMsg = NoMsg
INVARIANTS NotShadowed InvalidateCovers
PROPERTIES InvalidateSpares Answered
