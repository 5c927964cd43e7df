\* Two collators on two tailorings; no allocation failure, reordering never turned off.
CONSTANTS
    Colls = {c1, c2}
    Tailorings = {"root", "el"}
    DefaultCodes <- MCDefaultCodes
    HasFastLatinTable <- MCHasFastLatin
    Codes <- MCCodes
    DefaultCode = DefaultCode
    ReorderInputs <- MCReorderNoOffPair
    VarTops <- MCVarTopsPair
    DefaultVarTop = 2
    FastLatinMaxVarTop = 2
    Addr = {a1, a2, a3, a4, a5}
    AllocMayFail = FALSE
    NULL = NULL
SPECIFICATION Spec
SYMMETRY MCSymmetry
INVARIANT TypeOK
INVARIANT NoMemoryFault
INVARIANT HeapOwnership
INVARIANT FastLatinCached
INVARIANT ReorderConsistent
INVARIANT RefCountExact
