SPECIFICATION TestSpec
CONSTANTS
    LineSize = 4
    WordSize = 1
    NumSets = 1
    UIntMod = 64
    PageSize = 16
    NumWays = 1
    KeyMod = 16
    Values = {0, 1, 2, 3, 4}
    ClientAddrs = {2, 3, 4, 5, 6, 7, 8, 9}
    ReadAttrs = {7, 11}
    WriteAttrs = {11}
    InvalidateRanges <- Slot5
    FlushTokens = {}
    NoMsg = NoMsg
    UnknownName = UnknownName
CHECK_DEADLOCK FALSE
INVARIANT Outcome
PROPERTY Completes
