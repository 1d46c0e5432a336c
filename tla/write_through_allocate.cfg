SPECIFICATION SeqSpec
CONSTANTS
    LineSize = 2
    WordSize = 1
    PageSize = 4
    NumSets = 1
    UIntMod = 32
    NumWays = 2
    KeyMod = 2
    Values = {0, 1}
    ClientAddrs = {0, 1, 2, 4}
    ReadAttrs = {7}
    WriteAttrs = {14}
    InvalidateRanges <- NoRanges
    FlushTokens = {}
    NoMsg = NoMsg
INVARIANTS ReadBack
