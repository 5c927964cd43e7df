\* Three keys built from sort keys of even length; allocation never fails.
CONSTANTS
    Keys = {k1, k2, k3}
    Values <- MCValues
    Garbage = {0, 9}
    AllocMayFail = FALSE
    NULL = NULL
SPECIFICATION Spec
INVARIANT TypeOK
INVARIANT EqualKeysEqualHash
INVARIANT CompareToOrder
PROPERTY RefinesValue
