\* u_charFromName on malformed extended names: a read before lower[0], a
\* wrapped number, a code point past UCHAR_MAX_VALUE, trailing text.
\* FromNameSound is violated.
CONSTANTS
    MaxValue <- MCMaxValue
    AlgRanges <- MCAlgRanges
    Groups <- MCGroups
    TokenCount <- MCTokenCount
    Tokens <- MCTokens
    TokenStrings <- MCTokenStrings
    CacheMayFail = TRUE
    CharCat <- MCCharCat
    LoadMayFail = TRUE
    Codes <- MCCodes
    Capacities = {0, 3, 200}
    ExtraNames <- MCLaxExtNames
    Bounds <- MCBounds
INIT Init
NEXT Next
INVARIANT FromNameSound
