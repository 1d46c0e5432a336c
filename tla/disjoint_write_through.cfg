SPECIFICATION FairDisjointSpec
CONSTANTS
    LineSize = 1
    WordSize = 1
    NumSets = 2
    UIntMod = 16
    PageSize = 4
    NumWays = 1
    KeyMod = 2
    Values = {0, 1}
    ClientAddrs = {0, 1}
    ReadAttrs = {6}
    WriteAttrs = {6}
    InvalidateRanges <- OneBlock
    FlushTokens = {"flush"}
    NoMsg = NoMsg
PROPERTIES LinearizesMemory AnsweredUnlessSpinning
