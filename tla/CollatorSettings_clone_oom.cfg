\* Two collators on the root tailoring; allocation may fail.  A copy whose
\* cloneSettings fails keeps the default settings but the other's fastLatinOptions.
CONSTANTS
    Colls = {c1, c2}
    Tailorings = {"root"}
    DefaultCodes <- MCDefaultCodes
    HasFastLatinTable <- MCHasFastLatin
    Codes <- MCCodes
    DefaultCode = DefaultCode
    ReorderInputs <- MCReorderNoOff
    VarTops <- MCVarTops
    DefaultVarTop = 2
    FastLatinMaxVarTop = 2
    Addr = {a1, a2, a3}
    AllocMayFail = TRUE
    NULL = NULL
SPECIFICATION Spec
INVARIANT FastLatinCached
