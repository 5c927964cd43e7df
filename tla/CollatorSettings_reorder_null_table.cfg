\* Reordering off, then on again, on a tailoring with a default reordering.
CONSTANTS
    Colls = {c1}
    Tailorings = {"el"}
    DefaultCodes <- MCDefaultCodes
    HasFastLatinTable <- MCHasFastLatin
    Codes <- MCCodes
    DefaultCode = DefaultCode
    ReorderInputs <- MCReorderAll
    VarTops <- MCVarTops
    DefaultVarTop = 2
    FastLatinMaxVarTop = 2
    Addr = {a1, a2, a3}
    AllocMayFail = FALSE
    NULL = NULL
SPECIFICATION Spec
INVARIANT NoMemoryFault
