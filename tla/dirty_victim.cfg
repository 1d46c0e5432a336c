SPECIFICATION SeqSpec
CONSTANTS
    LineSize = 1
    WordSize = 1
    PageSize = 4
    NumSets = 1
    UIntMod = 32
    NumWays = 1
    KeyMod = 2
    Values = {0, 1}
    ClientAddrs = {0, 1}
    ReadAttrs = {6}
    WriteAttrs = {11}
    InvalidateRanges <- NoRanges
    FlushTokens = {}
    NoMsg = NoMsg
INVARIANTS ReadBack
