SPECIFICATION SeqSpec
CONSTANTS
    LineSize = 2
    WordSize = 1
    PageSize = 4
    NumSets = 1
    UIntMod = 6
    NumWays = 2
    KeyMod = 2
    Values = {0}
    ClientAddrs = {0, 1, 2, 4}
    ReadAttrs = {7}
    WriteAttrs = {7, 11}
    InvalidateRanges <- LastBlock
    FlushTokens = {}
    NoMsg = NoMsg
INVARIANTS InvalidateCovers
