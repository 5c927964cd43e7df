\* u_charName with bufferLength 65539: the (uint16_t) cast leaves 3, so only
\* three characters of a short name are stored.  BufferContract is violated.
CONSTANTS
    MaxValue <- MCMaxValue
    AlgRanges <- MCAlgRanges
    Groups <- MCGroups
    TokenCount <- MCTokenCount
    Tokens <- MCTokens
    TokenStrings <- MCTokenStrings
    CacheMayFail = TRUE
    CharCat <- MCCharCat
    LoadMayFail = TRUE
    Codes <- MCCodes
    Capacities = {65539}
    ExtraNames <- MCExtraNames
    Bounds <- MCBounds
INIT Init
NEXT Next
INVARIANT BufferContract
