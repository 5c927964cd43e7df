\* u_charName, u_getISOComment, u_charFromName, u_enumCharNames and the
\* name-length and name-set calculation on the scaled data, with
\* buffers shorter than every name and longer than all of them.
CONSTANTS
    MaxValue <- MCMaxValue
    AlgRanges <- MCAlgRanges
    Groups <- MCGroups
    TokenCount <- MCTokenCount
    Tokens <- MCTokens
    TokenStrings <- MCTokenStrings
    CacheMayFail = TRUE
    CharCat <- MCCharCat
    LoadMayFail = TRUE
    Codes <- MCCodes
    Capacities = {0, 3, 200}
    ExtraNames <- MCExtraNames
    Bounds <- MCBounds
INIT Init
NEXT Next
INVARIANTS
    TypeOK
    BufferContract
    FromNameComplete
    EnumSound
    MaxLengthsBound
