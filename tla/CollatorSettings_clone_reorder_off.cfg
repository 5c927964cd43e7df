\* Cloning a collator whose reordering was turned off, then destroying both.
CONSTANTS
    Colls = {c1, c2}
    Tailorings = {"root"}
    DefaultCodes <- MCDefaultCodes
    HasFastLatinTable <- MCHasFastLatin
    Codes <- MCCodes
    DefaultCode = DefaultCode
    ReorderInputs <- MCReorderAll
    VarTops <- MCVarTops
    DefaultVarTop = 2
    FastLatinMaxVarTop = 2
    Addr = {a1, a2, a3, a4, a5}
    AllocMayFail = FALSE
    NULL = NULL
SPECIFICATION Spec
INVARIANT NoMemoryFault
