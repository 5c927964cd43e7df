\* getExtName with a buffer that holds "<category-" and part of the number:
\* the digit loop stores the last digits at their full-width offsets,
\* past bufferLength.  BufferContract is violated.
CONSTANTS
    MaxValue <- MCMaxValue
    AlgRanges <- MCAlgRanges
    Groups <- MCGroups
    TokenCount <- MCTokenCount
    Tokens <- MCTokens
    TokenStrings <- MCTokenStrings
    CacheMayFail = TRUE
    CharCat <- MCCharCat
    LoadMayFail = TRUE
    Codes <- MCCodes
    Capacities = {10}
    ExtraNames <- MCExtraNames
    Bounds <- MCBounds
INIT Init
NEXT Next
INVARIANT BufferContract
