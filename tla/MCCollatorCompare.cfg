\* Every pair of texts of up to two code points, three settings objects,
\* nextSortKeyPart with buffers of one and of four bytes.
CONSTANTS
    CE <- MCCE
    Contractions <- MCContractions
    UnsafeBackward <- MCUnsafe
    Decomposition <- MCDecomposition
    Pairs <- MCPairs
    Settings <- MCSettings
    PrefixLength = 1
    PartCounts = {1, 4}
    KeyCapacity = 40
SPECIFICATION Spec
INVARIANT TypeOK
INVARIANT CompareCorrect
INVARIANT SortKeyOrder
INVARIANT PartsMatchSortKey
