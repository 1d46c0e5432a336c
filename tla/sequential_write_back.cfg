SPECIFICATION RecencySpec
CONSTANTS
    LineSize = 4
    WordSize = 2
    PageSize = 8
    NumSets = 1
    UIntMod = 32
    NumWays = 2
    KeyMod = 2
    Values = {0, 1}
    ClientAddrs = {0, 2, 4, 8}
    ReadAttrs = {7}
    WriteAttrs = {7, 11}
    InvalidateRanges <- NoRanges
    FlushTokens = {}
    NoMsg = NoMsg
INVARIANT ReadBack
PROPERTY ReplacesLeastRecent
