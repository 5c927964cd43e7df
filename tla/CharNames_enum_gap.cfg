\* u_enumCharNames with extended names from inside group 1: the extended
\* names of the gap before the next stored group are skipped.  EnumComplete
\* is violated.
CONSTANTS
    MaxValue <- MCMaxValue
    AlgRanges <- MCAlgRanges
    Groups <- MCGroups
    TokenCount <- MCTokenCount
    Tokens <- MCTokens
    TokenStrings <- MCTokenStrings
    CacheMayFail = TRUE
    CharCat <- MCCharCat
    LoadMayFail = TRUE
    Codes <- MCCodes
    Capacities = {0, 3, 200}
    ExtraNames <- MCExtraNames
    Bounds <- MCBounds
INIT Init
NEXT Next
INVARIANT EnumComplete
