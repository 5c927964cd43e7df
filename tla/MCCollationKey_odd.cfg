\* Sort keys of odd length: hashCode() reads the byte at index fCount.
CONSTANTS
    Keys = {k1, k2}
    Values <- MCOddValues
    Garbage = {0, 9}
    AllocMayFail = FALSE
    NULL = NULL
SPECIFICATION Spec
INVARIANT EqualKeysEqualHash
