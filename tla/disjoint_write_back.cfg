SPECIFICATION DisjointSpec
CONSTANTS
    LineSize = 1
    WordSize = 1
    PageSize = 8
    NumSets = 2
    UIntMod = 16
    NumWays = 2
    KeyMod = 2
    Values = {0, 1}
    ClientAddrs = {0, 1, 2, 4}
    ReadAttrs = {7}
    WriteAttrs = {11}
    InvalidateRanges <- NoRanges
    FlushTokens = {}
    NoMsg = NoMsg
INVARIANTS OneCopy LruIsPermutation
PROPERTY LinearizesMemory
