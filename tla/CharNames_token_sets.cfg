\* calcNameSetsLengths with the tokenLengths cache shared by the name and
\* ISO comment sets: a token first met in a name is not added to
\* gISOCommentSet, nor to gNameSet when first met in a comment.
\* NameSetsComplete is violated.
CONSTANTS
    MaxValue <- MCMaxValue
    AlgRanges <- MCAlgRanges
    Groups <- MCGroups
    TokenCount <- MCTokenCount
    Tokens <- MCTokens
    TokenStrings <- MCTokenStrings
    CacheMayFail = TRUE
    CharCat <- MCCharCat
    LoadMayFail = TRUE
    Codes <- MCCodes
    Capacities = {0, 3, 200}
    ExtraNames <- MCExtraNames
    Bounds <- MCBounds
INIT Init
NEXT Next
INVARIANT NameSetsComplete
