\* u_charName with U_EXTENDED_CHAR_NAME on a code point that has an ISO
\* comment but neither a modern nor a 1.0 name: expandName skips two
\* fields and writes the comment.  ExtendedNameForm is violated.
CONSTANTS
    MaxValue <- MCMaxValue
    AlgRanges <- MCAlgRanges
    Groups <- MCGroups
    TokenCount <- MCTokenCount
    Tokens <- MCTokens
    TokenStrings <- MCTokenStrings
    CacheMayFail = TRUE
    CharCat <- MCCharCat
    LoadMayFail = TRUE
    Codes <- MCCodes
    Capacities = {0, 3, 200}
    ExtraNames <- MCExtraNames
    Bounds <- MCBounds
INIT Init
NEXT Next
INVARIANT ExtendedNameForm
