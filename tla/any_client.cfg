SPECIFICATION Spec
CONSTANTS
    LineSize = 1
    WordSize = 1
    NumSets = 1
    UIntMod = 8
    PageSize = 4
    NumWays = 1
    KeyMod = 2
    Values = {0}
    ClientAddrs = {0, 2}
    ReadAttrs = {15}
    WriteAttrs = {11, 14}
    InvalidateRanges <- OneBlock
    FlushTokens = {"flush"}
    NoMsg = NoMsg
    MaxMessages = 1
CONSTRAINT FewMessages
INVARIANTS TypeOK OngoingOwned SpinsOnlyOnRequest FlushSeesNoLiveRequest FlushLeavesCacheEmpty
PROPERTY NoFillDuringFlush
