CONSTANTS
    Chars <- MCChars
    U8Len <- MCU8Len
    CPSets <- MCCPSets
    StringSets <- MCStringSets
    MaxText = 4
    LongSpan = 2
    StaticListSize = 2
    AllocMayFail = TRUE
INIT Init
NEXT Next
INVARIANT
    NoOffsetFault
